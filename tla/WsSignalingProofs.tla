------------------------- MODULE WsSignalingProofs -------------------------
(***************************************************************************)
(* What holds of the device's connection to the server for any number of   *)
(* peers, messages, attempts and failures: it never leaves an open socket  *)
(* behind, and it never forgets to reconnect.                              *)
(***************************************************************************)
EXTENDS WsSignaling, WellFoundedInduction, TLAPS

USE WsSignalingAssumption

\* An idle adapter holds no socket, one that was disconnected or waits for its
\* timer has no token or has one, and a socket is in one stage of its life.
IdleHasNoSocket == state = "idle" => socket = 0
TokenFollows == (manual => options = 0) /\ (timer => options # 0)
OneStage == dialing \cap opened = {} /\ closing \cap (dialing \cup opened) = {}

IInv ==
  /\ SocketTypeOK
  /\ FlagTypeOK
  /\ NoOrphanSocket
  /\ IdleHasNoSocket
  /\ TokenFollows
  /\ OneStage
  /\ NeverStranded

LEMMA Initially == Init => IInv
<1> SUFFICES ASSUME Init PROVE IInv
  OBVIOUS
<1>1. SocketTypeOK
  BY DEF Init, SocketTypeOK, States
<1>2. FlagTypeOK
  BY DEF Init, FlagTypeOK
<1>3. /\ NoOrphanSocket /\ IdleHasNoSocket /\ TokenFollows /\ OneStage
      /\ NeverStranded
  BY DEF Init, NoOrphanSocket, IdleHasNoSocket, TokenFollows, OneStage, NeverStranded
<1> QED
  BY <1>1, <1>2, <1>3 DEF IInv

\* What the connection consists of, and all it depends on.
LEMMA Unmoved ==
  ASSUME IInv, UNCHANGED connVars, UNCHANGED worldVars, UNCHANGED serviceVars
  PROVE  IInv'
BY DEF IInv, SocketTypeOK, FlagTypeOK, NoOrphanSocket, IdleHasNoSocket,
       TokenFollows, OneStage, NeverStranded, GaveUp, connVars, socketVars, retryVars,
       beatVars, worldVars, serviceVars

\* A change of the services and of the network that keeps the connection.
TokenTyped == token' \in {0, issued'} /\ issued' \in Nat /\ issued <= issued'
FlagsTyped == /\ allowed' \in BOOLEAN /\ chatTab' \in BOOLEAN /\ lookup' \in BOOLEAN
              /\ up' \in BOOLEAN /\ outageSeen' \in BOOLEAN
ServicesTyped == TokenTyped /\ FlagsTyped

LEMMA ServicesMove ==
  ASSUME IInv, UNCHANGED connVars, ServicesTyped
  PROVE  IInv'
BY DEF IInv, SocketTypeOK, FlagTypeOK, NoOrphanSocket, IdleHasNoSocket,
       TokenFollows, OneStage, NeverStranded, GaveUp, connVars, socketVars, retryVars,
       beatVars, ServicesTyped, TokenTyped, FlagsTyped

LEMMA ServicesStay ==
  ASSUME IInv, UNCHANGED worldVars, UNCHANGED serviceVars
  PROVE  ServicesTyped
BY DEF IInv, SocketTypeOK, FlagTypeOK, ServicesTyped, TokenTyped, FlagsTyped, worldVars, serviceVars

\* A new socket takes the place of the one the adapter held.
LEMMA Dialed ==
  ASSUME IInv, ServicesTyped, NEW t \in 1 .. issued, NEW e \in Nat,
         epoch < e, NEW C, dialing \cup opened \subseteq C,
         C \subseteq {socket}, Dial(t, e, C), attempts' \in 0 .. MaxAttempts
  PROVE  IInv'
<1>1. SocketTypeOK /\ FlagTypeOK /\ NoOrphanSocket
  BY DEF IInv
<1>2. SocketTypeOK'
  BY <1>1 DEF SocketTypeOK, Dial, StopTimers, CloseSockets, ServicesTyped, TokenTyped, States
<1>2a. FlagTypeOK'
  BY <1>1 DEF FlagTypeOK, Dial, StopTimers, CloseSockets, ServicesTyped, FlagsTyped
<1>3. NoOrphanSocket'
  BY DEF NoOrphanSocket, Dial, CloseSockets
<1>4. IdleHasNoSocket' /\ TokenFollows'
  BY <1>1 DEF IdleHasNoSocket, TokenFollows, Dial, StopTimers
<1>5. NeverStranded'
  BY <1>1 DEF NeverStranded, Dial, SocketTypeOK
<1>6. e \notin dialing \cup opened \cup closing
  BY <1>1 DEF SocketTypeOK
<1>7. OneStage'
  BY <1>6 DEF IInv, OneStage, Dial, CloseSockets
<1> QED
  BY <1>2, <1>2a, <1>3, <1>4, <1>5, <1>7 DEF IInv

LEMMA Connecting ==
  ASSUME IInv, ServicesTyped, NEW t \in 1 .. issued, Connect(t)
  PROVE  IInv'
<1>1. CASE UnderWay /\ UNCHANGED connVars
  BY <1>1, ServicesMove
<1>2. CASE /\ ~UnderWay
           /\ Dial(t, epoch + 1, IF state = "idle" THEN {} ELSE {socket})
           /\ UNCHANGED attempts
  <2>1. epoch \in Nat /\ epoch + 1 \in Nat /\ epoch < epoch + 1
    BY DEF IInv, SocketTypeOK, FlagTypeOK
  <2>2. attempts' \in 0 .. MaxAttempts
    BY <1>2 DEF IInv, SocketTypeOK, FlagTypeOK
  <2>3. state = "idle" => dialing \cup opened \subseteq {}
    BY DEF IInv, IdleHasNoSocket, NoOrphanSocket, SocketTypeOK
  <2>4. dialing \cup opened \subseteq {socket}
    BY DEF IInv, NoOrphanSocket
  <2>5. CASE state = "idle"
    BY <1>2, <2>1, <2>2, <2>3, <2>5, Dialed
  <2>6. CASE state # "idle"
    BY <1>2, <2>1, <2>2, <2>4, <2>6, Dialed
  <2> QED
    BY <2>5, <2>6
<1> QED
  BY <1>1, <1>2 DEF Connect

LEMMA TokenGiven ==
  ASSUME IInv, token # 0
  PROVE  token \in 1 .. issued
BY DEF IInv, SocketTypeOK, FlagTypeOK

LEMMA Ensured ==
  ASSUME IInv, ServicesTyped, EnsureWsSignaling
  PROVE  IInv'
<1>1. CASE Configured /\ Connect(token)
  BY <1>1, TokenGiven, Connecting DEF Configured
<1>2. CASE UNCHANGED connVars
  BY <1>2, ServicesMove
<1> QED
  BY <1>1, <1>2 DEF EnsureWsSignaling

LEMMA Disconnected ==
  ASSUME IInv, ServicesTyped, Disconnect
  PROVE  IInv'
<1>1. SocketTypeOK /\ FlagTypeOK /\ NoOrphanSocket
  BY DEF IInv
<1>2. SocketTypeOK'
  BY <1>1 DEF SocketTypeOK, Disconnect, DropSocket, StopTimers, CloseSockets,
              ServicesTyped, TokenTyped, States
<1>2a. FlagTypeOK'
  BY <1>1 DEF FlagTypeOK, Disconnect, DropSocket, StopTimers, CloseSockets,
              ServicesTyped, FlagsTyped
<1>3. NoOrphanSocket'
  BY <1>1 DEF NoOrphanSocket, Disconnect, DropSocket, CloseSockets
<1>4. IdleHasNoSocket' /\ TokenFollows' /\ NeverStranded'
  BY DEF IdleHasNoSocket, TokenFollows, NeverStranded, Disconnect, DropSocket, StopTimers
<1>5. OneStage'
  BY DEF IInv, OneStage, Disconnect, DropSocket, CloseSockets
<1> QED
  BY <1>2, <1>2a, <1>3, <1>4, <1>5 DEF IInv

\* The close event of a socket that has gone from the table of open ones.
LEMMA Closed ==
  ASSUME IInv, UNCHANGED worldVars, UNCHANGED serviceVars,
         UNCHANGED <<epoch, manual, options>>, NEW s, OnClose(s),
         pending' \in BOOLEAN, dialing' \subseteq dialing \ {s},
         opened' \subseteq opened \ {s}, zombie' \subseteq opened',
         closing' \subseteq closing
  PROVE  IInv'
<1>1. SocketTypeOK /\ FlagTypeOK /\ NoOrphanSocket /\ IdleHasNoSocket /\ TokenFollows
      /\ OneStage /\ NeverStranded
  BY DEF IInv
<1>2. MaxAttempts \in Nat /\ attempts \in 0 .. MaxAttempts
  BY <1>1 DEF SocketTypeOK
<1>3. OneStage'
  BY <1>1 DEF OneStage
<1>4. CASE IsCurrent(s) /\ heartbeat' = FALSE /\ pongDue' = FALSE
           /\ socket' = 0 /\ state' = "idle" /\ TryReconnect
  <2>1. CASE ~manual /\ options # 0 /\ attempts < MaxAttempts
             /\ attempts' = attempts + 1 /\ timer' = TRUE
    <3>1. attempts' \in 0 .. MaxAttempts
      BY <1>2, <2>1
    <3>2. SocketTypeOK'
      BY <1>1, <1>4, <2>1, <3>1 DEF SocketTypeOK, States, worldVars, serviceVars
    <3>2a. FlagTypeOK'
      BY <1>1, <1>4, <2>1, <3>1 DEF FlagTypeOK, worldVars, serviceVars
    <3>3. NoOrphanSocket'
      BY <1>1, <1>4 DEF NoOrphanSocket, IsCurrent
    <3>4. IdleHasNoSocket' /\ TokenFollows' /\ NeverStranded'
      BY <1>1, <1>4, <2>1 DEF IdleHasNoSocket, TokenFollows, NeverStranded
    <3> QED
      BY <1>3, <3>2, <3>2a, <3>3, <3>4 DEF IInv
  <2>2. CASE (manual \/ options = 0 \/ attempts >= MaxAttempts)
             /\ UNCHANGED <<attempts, timer>>
    <3>1. SocketTypeOK'
      BY <1>1, <1>4, <2>2 DEF SocketTypeOK, States, worldVars, serviceVars
    <3>1a. FlagTypeOK'
      BY <1>1, <1>4, <2>2 DEF FlagTypeOK, worldVars, serviceVars
    <3>2. NoOrphanSocket'
      BY <1>1, <1>4 DEF NoOrphanSocket, IsCurrent
    <3>3. options = 0 \/ attempts = MaxAttempts
      BY <1>1, <1>2, <2>2 DEF TokenFollows
    <3>4. IdleHasNoSocket' /\ TokenFollows' /\ NeverStranded'
      BY <1>1, <1>4, <2>2, <3>3
      DEF IdleHasNoSocket, TokenFollows, NeverStranded, GaveUp, SocketTypeOK
    <3> QED
      BY <1>3, <3>1, <3>1a, <3>2, <3>4 DEF IInv
  <2> QED
    BY <1>4, <2>1, <2>2 DEF TryReconnect
<1>5. CASE UNCHANGED <<heartbeat, pongDue, socket, state, attempts, timer>>
  <2>1. SocketTypeOK'
    BY <1>1, <1>5 DEF SocketTypeOK, worldVars, serviceVars
  <2>1a. FlagTypeOK'
    BY <1>1, <1>5 DEF FlagTypeOK, worldVars, serviceVars
  <2>2. NoOrphanSocket'
    BY <1>1, <1>5 DEF NoOrphanSocket
  <2>3. IdleHasNoSocket' /\ TokenFollows' /\ NeverStranded'
    BY <1>1, <1>5 DEF IdleHasNoSocket, TokenFollows, NeverStranded, GaveUp
  <2> QED
    BY <1>3, <2>1, <2>1a, <2>2, <2>3 DEF IInv
<1> QED
  BY <1>4, <1>5 DEF OnClose

-----------------------------------------------------------------------------
(* One step per action.                                                    *)

LEMMA UserStep ==
  ASSUME IInv, UserNext
  PROVE  IInv'
<1> USE DEF outVars, serviceVars, worldVars
<1>0. SocketTypeOK /\ FlagTypeOK
  BY DEF IInv
<1>1. CASE Start
  BY <1>1, ServicesStay, Ensured DEF Start
<1>2. CASE Stop
  BY <1>2, ServicesStay, Disconnected DEF Stop
<1>3. CASE SwitchToLan
  <2>1. ServicesTyped
    <3>1. TokenTyped
      BY <1>0, <1>3 DEF SwitchToLan, TokenTyped, SocketTypeOK
    <3>2. FlagsTyped
      BY <1>0, <1>3, Zenon DEF SwitchToLan, FlagsTyped, FlagTypeOK
    <3> QED
      BY <3>1, <3>2 DEF ServicesTyped
  <2> QED
    BY <1>3, <2>1, Disconnected, ServicesMove DEF SwitchToLan
<1>4. CASE SwitchToServer
  <2>1. ServicesTyped
    <3>1. TokenTyped
      BY <1>0, <1>4 DEF SwitchToServer, TokenTyped, SocketTypeOK
    <3>2. FlagsTyped
      BY <1>0, <1>4, Zenon DEF SwitchToServer, FlagsTyped, FlagTypeOK
    <3> QED
      BY <3>1, <3>2 DEF ServicesTyped
  <2> QED
    BY <1>4, <2>1, ServicesMove DEF SwitchToServer
<1>5. CASE OpenPublicChat
  <2>1. ServicesTyped
    <3>1. TokenTyped
      BY <1>0, <1>5 DEF OpenPublicChat, TokenTyped, SocketTypeOK
    <3>2. FlagsTyped
      BY <1>0, <1>5, Zenon DEF OpenPublicChat, FlagsTyped, FlagTypeOK
    <3> QED
      BY <3>1, <3>2 DEF ServicesTyped
  <2> QED
    BY <1>5, <2>1, Disconnected, ServicesMove DEF OpenPublicChat
<1>6. ASSUME NEW t \in {0, issued + 1}, SetToken(t)
      PROVE  IInv'
  <2>1. ServicesTyped
    <3>1. TokenTyped
      BY <1>0, <1>6 DEF SetToken, TokenTyped, SocketTypeOK
    <3>2. FlagsTyped
      BY <1>0, <1>6, Zenon DEF SetToken, FlagsTyped, FlagTypeOK
    <3> QED
      BY <3>1, <3>2 DEF ServicesTyped
  <2> QED
    BY <1>6, <2>1, Disconnected, ServicesMove DEF SetToken
<1>7. ASSUME NEW p \in Peers, NEW k \in Kinds, Send(k, p)
      PROVE  IInv'
  BY <1>7, ServicesStay, Ensured DEF Send
<1>8. ASSUME NEW p \in Peers, SendChat(p)
      PROVE  IInv'
  BY <1>8, ServicesStay, Ensured DEF SendChat
<1>9. ASSUME NEW p \in Peers, AwaitCredential(p)
      PROVE  IInv'
  BY <1>9, ServicesStay, Ensured DEF AwaitCredential
<1>10. ASSUME NEW p \in Peers, TearDown(p)
       PROVE  IInv'
  BY <1>10, Unmoved DEF TearDown
<1> QED
  BY <1>1, <1>2, <1>3, <1>4, <1>5, <1>6, <1>7, <1>8, <1>9, <1>10 DEF UserNext

LEMMA DeviceStep ==
  ASSUME IInv, DeviceNext
  PROVE  IInv'
<1> USE DEF outVars, serviceVars, worldVars
<1>0. /\ SocketTypeOK /\ FlagTypeOK /\ NoOrphanSocket /\ IdleHasNoSocket
      /\ TokenFollows /\ OneStage /\ NeverStranded
  BY DEF IInv
<1>1. CASE LookupEnds
  <2>1. ServicesTyped
    <3>1. TokenTyped
      BY <1>0, <1>1 DEF LookupEnds, TokenTyped, SocketTypeOK
    <3>2. FlagsTyped
      BY <1>0, <1>1, Zenon DEF LookupEnds, FlagsTyped, FlagTypeOK
    <3> QED
      BY <3>1, <3>2 DEF ServicesTyped
  <2> QED
    BY <1>1, <2>1, TokenGiven, Connecting, ServicesMove DEF LookupEnds
<1>2. CASE ReconnectTimer
  <2>1. options \in 1 .. issued
    BY <1>0, <1>2 DEF ReconnectTimer, TokenFollows, SocketTypeOK
  <2> QED
    BY <1>2, <2>1, ServicesStay, Connecting DEF ReconnectTimer
<1>3. CASE Ping
  <2>1. SocketTypeOK'
    BY <1>0, <1>3 DEF Ping, SocketTypeOK, socketVars, retryVars
  <2>1a. FlagTypeOK'
    BY <1>0, <1>3 DEF Ping, FlagTypeOK, socketVars, retryVars
  <2>2. /\ NoOrphanSocket' /\ IdleHasNoSocket' /\ TokenFollows'
        /\ OneStage' /\ NeverStranded'
    BY <1>0, <1>3 DEF Ping, NoOrphanSocket, IdleHasNoSocket, TokenFollows,
                      OneStage, NeverStranded, GaveUp, socketVars, retryVars
  <2> QED
    BY <2>1, <2>1a, <2>2 DEF IInv
<1>4. CASE HeartbeatTimeout
  <2>1. SocketTypeOK'
    BY <1>0, <1>4 DEF HeartbeatTimeout, Connected, CloseSockets, SocketTypeOK, retryVars
  <2>1a. FlagTypeOK'
    BY <1>0, <1>4 DEF HeartbeatTimeout, Connected, CloseSockets, FlagTypeOK, retryVars
  <2>2. /\ NoOrphanSocket' /\ IdleHasNoSocket' /\ TokenFollows'
        /\ OneStage' /\ NeverStranded'
    BY <1>0, <1>4 DEF HeartbeatTimeout, CloseSockets, Connected, NoOrphanSocket,
                      IdleHasNoSocket, TokenFollows, OneStage, NeverStranded, GaveUp, retryVars
  <2> QED
    BY <2>1, <2>1a, <2>2 DEF IInv
<1>5. CASE NetworkRegained
  <2>1. ServicesTyped
    <3>1. TokenTyped
      BY <1>0, <1>5 DEF NetworkRegained, TokenTyped, SocketTypeOK
    <3>2. FlagsTyped
      BY <1>0, <1>5, Zenon DEF NetworkRegained, FlagsTyped, FlagTypeOK
    <3> QED
      BY <3>1, <3>2 DEF ServicesTyped
  <2>2. CASE Configured /\ Dial(token, epoch + 2, {socket}) /\ attempts' = 0
    <3>1. token \in 1 .. issued
      BY <2>2, TokenGiven DEF Configured
    <3>2. epoch + 2 \in Nat /\ epoch < epoch + 2 /\ attempts' \in 0 .. MaxAttempts
      BY <1>0, <2>2 DEF SocketTypeOK
    <3>3. dialing \cup opened \subseteq {socket}
      BY <1>0 DEF NoOrphanSocket
    <3> QED
      BY <2>1, <2>2, <3>1, <3>2, <3>3, Dialed
  <2> QED
    BY <1>5, <2>1, <2>2, ServicesMove DEF NetworkRegained
<1>6. ASSUME NEW p \in Peers, CredentialReady(p)
      PROVE  IInv'
  BY <1>6, Unmoved DEF CredentialReady
<1>7. ASSUME NEW s \in dialing, SocketOpens(s)
      PROVE  IInv'
  <2>1. SocketTypeOK'
    BY <1>0, <1>7 DEF SocketOpens, SocketTypeOK, States
  <2>1a. FlagTypeOK'
    BY <1>0, <1>7 DEF SocketOpens, FlagTypeOK
  <2>2. NoOrphanSocket'
    BY <1>0, <1>7 DEF SocketOpens, NoOrphanSocket, IsCurrent
  <2>3. socket' # 0
    BY <1>0, <1>7 DEF SocketOpens, IsCurrent, SocketTypeOK
  <2>4. IdleHasNoSocket' /\ TokenFollows' /\ OneStage' /\ NeverStranded'
    BY <1>0, <1>7, <2>3
    DEF SocketOpens, IdleHasNoSocket, TokenFollows, OneStage, NeverStranded
  <2> QED
    BY <2>1, <2>1a, <2>2, <2>4 DEF IInv
<1>8. ASSUME NEW s \in dialing \cup zombie, SocketFails(s)
      PROVE  IInv'
  <2>1. /\ UNCHANGED worldVars /\ UNCHANGED serviceVars
        /\ UNCHANGED <<epoch, manual, options>> /\ OnClose(s)
    BY <1>8 DEF SocketFails
  <2>2. /\ dialing' \subseteq dialing \ {s} /\ opened' \subseteq opened \ {s}
        /\ zombie' \subseteq opened' /\ closing' \subseteq closing
        /\ pending' \in BOOLEAN
    BY <1>0, <1>8 DEF SocketFails, SocketTypeOK
  <2> HIDE DEF serviceVars, worldVars
  <2> QED
    BY <2>1, <2>2, Closed
<1>9. ASSUME NEW s \in closing, SocketClosed(s)
      PROVE  IInv'
  <2>1. /\ UNCHANGED worldVars /\ UNCHANGED serviceVars
        /\ UNCHANGED <<epoch, manual, options>> /\ OnClose(s)
    BY <1>9 DEF SocketClosed
  <2>2. /\ dialing' \subseteq dialing \ {s} /\ opened' \subseteq opened \ {s}
        /\ zombie' \subseteq opened' /\ closing' \subseteq closing
        /\ pending' \in BOOLEAN
    BY <1>0, <1>9 DEF SocketClosed, OneStage, SocketTypeOK, FlagTypeOK
  <2> HIDE DEF serviceVars, worldVars
  <2> QED
    BY <2>1, <2>2, Closed
<1> QED
  BY <1>1, <1>2, <1>3, <1>4, <1>5, <1>6, <1>7, <1>8, <1>9 DEF DeviceNext

LEMMA WorldStep ==
  ASSUME IInv, WorldNext
  PROVE  IInv'
<1> USE DEF outVars, serviceVars, worldVars
<1>0. /\ SocketTypeOK /\ FlagTypeOK /\ NoOrphanSocket /\ IdleHasNoSocket
      /\ TokenFollows /\ OneStage /\ NeverStranded
  BY DEF IInv
<1>1. CASE NetworkLost
  <2>1. SocketTypeOK'
    BY <1>0, <1>1 DEF NetworkLost, SocketTypeOK, retryVars
  <2>1a. FlagTypeOK'
    BY <1>0, <1>1 DEF NetworkLost, FlagTypeOK, retryVars, beatVars
  <2>2. /\ NoOrphanSocket' /\ IdleHasNoSocket' /\ TokenFollows'
        /\ OneStage' /\ NeverStranded'
    BY <1>0, <1>1 DEF NetworkLost, NoOrphanSocket, IdleHasNoSocket, TokenFollows,
                      OneStage, NeverStranded, GaveUp, retryVars
  <2> QED
    BY <2>1, <2>1a, <2>2 DEF IInv
<1>2. CASE NetworkBack \/ OutageSeen
  <2>1. ServicesTyped
    <3>1. TokenTyped
      BY <1>0, <1>2 DEF NetworkBack, OutageSeen, TokenTyped, SocketTypeOK
    <3>2. FlagsTyped
      BY <1>0, <1>2, Zenon DEF NetworkBack, OutageSeen, FlagsTyped, FlagTypeOK
    <3> QED
      BY <3>1, <3>2 DEF ServicesTyped
  <2> QED
    BY <1>2, <2>1, ServicesMove DEF NetworkBack, OutageSeen
<1>3. CASE TimePasses
  BY <1>3, Unmoved DEF TimePasses
<1>4. ASSUME NEW p \in Peers, KeyArrives(p) \/ KeyLearnt(p)
      PROVE  IInv'
  BY <1>4, Unmoved DEF KeyArrives, KeyLearnt
<1>5. ASSUME NEW s \in opened, ServerCloses(s)
      PROVE  IInv'
  <2>1. /\ UNCHANGED worldVars /\ UNCHANGED serviceVars
        /\ UNCHANGED <<epoch, manual, options>> /\ OnClose(s)
    BY <1>5 DEF ServerCloses
  <2>2. /\ dialing' \subseteq dialing \ {s} /\ opened' \subseteq opened \ {s}
        /\ zombie' \subseteq opened' /\ closing' \subseteq closing
        /\ pending' \in BOOLEAN
    BY <1>0, <1>5 DEF ServerCloses, OneStage, SocketTypeOK, FlagTypeOK
  <2> HIDE DEF serviceVars, worldVars
  <2> QED
    BY <2>1, <2>2, Closed
<1> QED
  BY <1>1, <1>2, <1>3, <1>4, <1>5 DEF WorldNext

LEMMA Stepwise == IInv /\ [Next]_vars => IInv'
<1>1. ASSUME IInv, Next PROVE IInv'
  BY <1>1, UserStep, DeviceStep, WorldStep DEF Next
<1>2. ASSUME IInv, UNCHANGED vars PROVE IInv'
  BY <1>2, Unmoved DEF vars
<1> QED
  BY <1>1, <1>2

THEOREM Invariance == Spec => []IInv
BY Initially, Stepwise, PTL DEF Spec

-----------------------------------------------------------------------------
(* The device never has a socket open, or opening, beside the one its
   adapter holds: every connect(), reset and disconnect() of
   WsSignalingAdapter closes the socket it replaces, and the late events of
   the old one touch nothing. *)
THEOREM OneSocket == Spec => []NoOrphanSocket
<1>1. IInv => NoOrphanSocket
  BY DEF IInv
<1> QED
  BY Invariance, <1>1, PTL

(* An adapter with a token and no socket is about to reconnect or has used
   up its attempts, through any number of outages, refusals and restarts. *)
THEOREM ReconnectAhead == Spec => []NeverStranded
<1>1. IInv => NeverStranded
  BY DEF IInv
<1> QED
  BY Invariance, <1>1, PTL
-----------------------------------------------------------------------------
(* The frames.  A frame is in one place: written, queued, or held back for *)
(* a key; C stands for the numbers of the candidates, which have no order. *)

Candidates == {n \in DOMAIN given : given[n].kind = "candidate"}
CandidatesFor(p) == {n \in Candidates : given[n].peer = p}

Before(C, n, m) == n # m /\ (n \notin C /\ m \notin C => n < m)
Ordered(C, s) == \A i, j \in DOMAIN s : i < j => Before(C, s[i], s[j])
Follows(C, s, t) == \A i \in DOMAIN s, j \in DOMAIN t : Before(C, s[i], t[j])
Within(s, S) == \A i \in DOMAIN s : s[i] \in S
Avoids(s, F) == \A i \in DOMAIN s : s[i] \notin F

\* What is queued waits for the socket.
NothingWaits == Connected => queue = <<>>

LineInv ==
  /\ Ordered(Candidates, sent) /\ Ordered(Candidates, queue)
  /\ Follows(Candidates, sent, queue)

HeldInv ==
  \A p \in Peers :
    /\ Within(held[p], CandidatesFor(p))
    /\ Ordered(Candidates, held[p])
    /\ Follows(Candidates, sent, held[p]) /\ Follows(Candidates, queue, held[p])

ForsakenInv ==
  /\ Avoids(sent, forsaken) /\ Avoids(queue, forsaken)
  /\ \A p \in Peers : Avoids(held[p], forsaken)

FrameInv ==
  /\ FrameTypeOK
  /\ NothingWaits
  /\ LineInv
  /\ HeldInv
  /\ ForsakenInv

-----------------------------------------------------------------------------
(* What Filtered() gives.  It is defined by recursion over the positions of *)
(* the sequence; where an induction would be made, the least number at      *)
(* which the claim fails is shown not to exist.                             *)

LEMMA LeastNumber ==
  ASSUME NEW T \in SUBSET Nat, T # {}
  PROVE  \E m \in T : \A k \in T : m <= k
<1>1. \E m \in T : \A k \in T : <<k, m>> \notin OpToRel(<, Nat)
  BY WFMin, NatLessThanWellFounded, Zenon
<1>2. PICK m \in T : \A k \in T : <<k, m>> \notin OpToRel(<, Nat)
  BY <1>1
<1>3. ASSUME NEW k \in T PROVE m <= k
  <2>1. k \in Nat /\ m \in Nat
    OBVIOUS
  <2>2. ~(k < m)
    BY <1>2, <2>1 DEF OpToRel
  <2> QED
    BY <2>1, <2>2
<1> QED
  BY <1>3

\* g has at i what of the first i elements of s is in S.
Collects(s, S, g, n) ==
  g = [i \in 0 .. n |->
         IF i = 0 THEN <<>>
         ELSE IF s[i] \in S THEN Append(g[i - 1], s[i]) ELSE g[i - 1]]

LEMMA Collectable ==
  ASSUME NEW s, NEW S, NEW n \in Nat
  PROVE  \E g : Collects(s, S, g, n)
<1> DEFINE Bad == {k \in Nat : ~ \E g : Collects(s, S, g, k)}
<1>1. SUFFICES ASSUME Bad # {} PROVE FALSE
  BY Zenon
<1>2. PICK m \in Bad : \A k \in Bad : m <= k
  <2>1. Bad \in SUBSET Nat
    OBVIOUS
  <2> HIDE DEF Bad
  <2> QED
    BY <1>1, <2>1, LeastNumber
<1>3. CASE m = 0
  <2> DEFINE g == [i \in 0 .. 0 |-> <<>>]
  <2>1. Collects(s, S, g, 0)
    BY DEF Collects
  <2> QED
    BY <2>1, <1>3
<1>4. CASE m # 0
  <2>1. m - 1 \in Nat /\ m - 1 \notin Bad
    <3>1. m \in Nat
      OBVIOUS
    <3> HIDE DEF Bad
    <3> QED
      BY <1>4, <1>2, <3>1
  <2>2. PICK g : Collects(s, S, g, m - 1)
    BY <2>1
  <2> DEFINE h == [i \in 0 .. m |->
                     IF i < m THEN g[i]
                     ELSE IF s[m] \in S THEN Append(g[m - 1], s[m]) ELSE g[m - 1]]
  <2>3. \A i \in 0 .. m :
          h[i] = IF i = 0 THEN <<>>
                 ELSE IF s[i] \in S THEN Append(h[i - 1], s[i]) ELSE h[i - 1]
    <3>1. ASSUME NEW i \in 0 .. m, i < m PROVE h[i] = g[i]
      BY <3>1
    <3>2. ASSUME NEW i \in 0 .. m, i < m
          PROVE  g[i] = IF i = 0 THEN <<>>
                        ELSE IF s[i] \in S THEN Append(g[i - 1], s[i]) ELSE g[i - 1]
      <4>1. i \in 0 .. m - 1
        BY <2>1, <3>2
      <4> QED
        BY <4>1, <2>2 DEF Collects
    <3>3. h[m] = IF s[m] \in S THEN Append(h[m - 1], s[m]) ELSE h[m - 1]
      <4>1. m - 1 \in 0 .. m /\ m \in 0 .. m
        BY <2>1
      <4> QED
        BY <4>1, <2>1
    <3>4. ASSUME NEW i \in 0 .. m, i < m
          PROVE  h[i] = IF i = 0 THEN <<>>
                        ELSE IF s[i] \in S THEN Append(h[i - 1], s[i]) ELSE h[i - 1]
      <4>1. i # 0 => i - 1 \in 0 .. m /\ i - 1 < m
        BY <2>1, <3>4
      <4> HIDE DEF h
      <4> QED
        BY <3>1, <3>2, <3>4, <4>1
    <3> HIDE DEF h
    <3> QED
      BY <3>3, <3>4, <1>4, <2>1
  <2>4. Collects(s, S, h, m)
    <3>1. h = [i \in 0 .. m |-> h[i]]
      OBVIOUS
    <3> HIDE DEF h
    <3> QED
      BY <3>1, <2>3 DEF Collects
  <2> QED
    BY <2>4
<1> QED
  BY <1>3, <1>4

LEMMA FilteredCollects ==
  ASSUME NEW s, NEW S, Len(s) \in Nat
  PROVE  \E g : Collects(s, S, g, Len(s)) /\ Filtered(s, S) = g[Len(s)]
<1>1. \E g : Collects(s, S, g, Len(s))
  BY Collectable
<1> DEFINE G == CHOOSE g : Collects(s, S, g, Len(s))
<1>2. Collects(s, S, G, Len(s))
  BY <1>1
<1>3. Filtered(s, S) = G[Len(s)]
  BY DEF Filtered, Collects
<1> HIDE DEF G
<1> QED
  BY <1>2, <1>3

\* The elements of t are those of s at increasing places.
PlacedBy(h, t, s) ==
  /\ h \in [DOMAIN t -> DOMAIN s]
  /\ \A i, j \in DOMAIN t : i < j => h[i] < h[j]
  /\ \A i \in DOMAIN t : t[i] = s[h[i]]

Part(t, s) == \E h : PlacedBy(h, t, s)

PartUpTo(t, s, n) == \E h \in [1 .. Len(t) -> 1 .. n] :
                       /\ \A i, j \in 1 .. Len(t) : i < j => h[i] < h[j]
                       /\ \A i \in 1 .. Len(t) : t[i] = s[h[i]]

LEMMA CollectedPart ==
  ASSUME NEW T, NEW s \in Seq(T), NEW S, NEW g, Collects(s, S, g, Len(s)),
         NEW n \in 0 .. Len(s)
  PROVE  g[n] \in Seq(T) /\ Within(g[n], S) /\ PartUpTo(g[n], s, n)
<1> DEFINE Good(k) == g[k] \in Seq(T) /\ Within(g[k], S) /\ PartUpTo(g[k], s, k)
           Bad == {k \in 0 .. Len(s) : ~Good(k)}
<1>0. Len(s) \in Nat /\ \A k \in 1 .. Len(s) : s[k] \in T
  OBVIOUS
<1>1. SUFFICES ASSUME Bad # {} PROVE FALSE
  BY Zenon
<1>2. PICK m \in Bad : \A k \in Bad : m <= k
  <2>1. Bad \in SUBSET Nat
    BY <1>0
  <2> HIDE DEF Bad
  <2> QED
    BY <1>1, <2>1, LeastNumber
<1>2a. m \in 0 .. Len(s) /\ ~Good(m)
  OBVIOUS
<1>3. CASE m = 0
  <2>1. g[0] = <<>>
    BY <1>0 DEF Collects
  <2> DEFINE none == [i \in 1 .. Len(<<>>) |-> 1]
  <2>2. /\ none \in [1 .. Len(<<>>) -> 1 .. 0]
        /\ \A i \in 1 .. Len(<<>>) : FALSE
    OBVIOUS
  <2> HIDE DEF none
  <2>3. PartUpTo(<<>>, s, 0)
    BY <2>2, Zenon DEF PartUpTo
  <2>4. <<>> \in Seq(T) /\ Within(<<>>, S)
    BY DEF Within
  <2>5. Good(0)
    BY <2>1, <2>3, <2>4
  <2> HIDE DEF Good
  <2> QED
    BY <1>2a, <1>3, <2>5
<1>4. CASE m # 0
  <2>1. m - 1 \in 0 .. Len(s) /\ m \in 1 .. Len(s) /\ Good(m - 1)
    <3>1. m - 1 \in 0 .. Len(s) /\ m \in 1 .. Len(s)
      BY <1>0, <1>2a, <1>4
    <3>2. m - 1 \notin Bad
      <4> HIDE DEF Bad
      <4> QED
        BY <1>2, <3>1, <1>0
    <3> QED
      BY <3>1, <3>2
  <2> DEFINE t == g[m - 1]
  <2>2. g[m] = IF s[m] \in S THEN Append(t, s[m]) ELSE t
    BY <1>4, <1>2a DEF Collects
  <2>3. PICK h \in [1 .. Len(t) -> 1 .. m - 1] :
               /\ \A i, j \in 1 .. Len(t) : i < j => h[i] < h[j]
               /\ \A i \in 1 .. Len(t) : t[i] = s[h[i]]
    BY <2>1 DEF PartUpTo
  <2>4. t \in Seq(T) /\ Within(t, S) /\ Len(t) \in Nat
    BY <2>1
  <2> HIDE DEF t
  <2>5. CASE s[m] \notin S
    <3>1. h \in [1 .. Len(t) -> 1 .. m]
      BY <2>1
    <3>2. PartUpTo(t, s, m)
      BY <3>1, <2>3 DEF PartUpTo
    <3> QED
      BY <2>2, <2>4, <2>5, <3>2, <1>2a
  <2>6. CASE s[m] \in S
    <3> DEFINE u == Append(t, s[m])
               k == [i \in 1 .. Len(t) + 1 |-> IF i <= Len(t) THEN h[i] ELSE m]
    <3>1. u \in Seq(T) /\ Len(u) = Len(t) + 1
      BY <1>0, <2>1, <2>4
    <3>2. \A i \in 1 .. Len(u) : u[i] = IF i <= Len(t) THEN t[i] ELSE s[m]
      BY <1>0, <2>1, <2>4
    <3>3. k \in [1 .. Len(u) -> 1 .. m]
      BY <2>1, <2>4, <3>1
    <3>4. \A i, j \in 1 .. Len(u) : i < j => k[i] < k[j]
      <4> SUFFICES ASSUME NEW i \in 1 .. Len(t) + 1, NEW j \in 1 .. Len(t) + 1, i < j
                   PROVE  k[i] < k[j]
        BY <3>1
      <4>1. i \in 1 .. Len(t) /\ k[i] = h[i] /\ h[i] \in 1 .. m - 1
        BY <2>4
      <4>2. CASE j \in 1 .. Len(t)
        <5>1. k[j] = h[j] /\ h[i] < h[j]
          BY <2>3, <2>4, <4>1, <4>2
        <5> QED
          BY <4>1, <5>1
      <4>3. CASE j = Len(t) + 1
        <5>1. k[j] = m
          BY <2>4, <4>3
        <5> HIDE DEF k
        <5> QED
          BY <4>1, <5>1, <2>1
      <4> QED
        BY <2>4, <4>2, <4>3
    <3>5. \A i \in 1 .. Len(u) : u[i] = s[k[i]]
      BY <2>3, <2>4, <3>1, <3>2
    <3>6. Within(u, S)
      BY <2>4, <2>6, <3>1, <3>2 DEF Within
    <3> HIDE DEF u, k
    <3>7. PartUpTo(u, s, m)
      BY <3>3, <3>4, <3>5 DEF PartUpTo
    <3>8. g[m] = u
      BY <2>2, <2>6 DEF u
    <3> QED
      BY <3>1, <3>6, <3>7, <3>8, <1>2a
  <2> QED
    BY <2>5, <2>6
<1> QED
  BY <1>3, <1>4, <1>2a

\* filter() gives elements of the set only, in the order they had.
LEMMA FilteredPart ==
  ASSUME NEW T, NEW s \in Seq(T), NEW S
  PROVE  /\ Filtered(s, S) \in Seq(T)
         /\ Within(Filtered(s, S), S)
         /\ Part(Filtered(s, S), s)
<1>1. Len(s) \in Nat /\ Len(s) \in 0 .. Len(s) /\ DOMAIN s = 1 .. Len(s)
  OBVIOUS
<1>2. PICK g : Collects(s, S, g, Len(s)) /\ Filtered(s, S) = g[Len(s)]
  BY <1>1, FilteredCollects
<1>3. /\ Filtered(s, S) \in Seq(T) /\ Within(Filtered(s, S), S)
      /\ PartUpTo(Filtered(s, S), s, Len(s))
  BY <1>1, <1>2, CollectedPart
<1>4. DOMAIN Filtered(s, S) = 1 .. Len(Filtered(s, S))
  BY <1>3
<1> QED
  BY <1>1, <1>3, <1>4 DEF PartUpTo, Part, PlacedBy

LEMMA TailPart ==
  ASSUME NEW T, NEW s \in Seq(T), s # <<>>
  PROVE  Tail(s) \in Seq(T) /\ Part(Tail(s), s)
<1> DEFINE h == [i \in DOMAIN Tail(s) |-> i + 1]
<1>1. PlacedBy(h, Tail(s), s)
  BY DEF PlacedBy
<1> QED
  BY <1>1 DEF Part


-----------------------------------------------------------------------------
(* Order, separation and membership under the operations on the queue.     *)

LEMMA OfPart ==
  ASSUME NEW s, NEW t, Part(t, s)
  PROVE  /\ \A C : Ordered(C, s) => Ordered(C, t)
         /\ \A C, u : Follows(C, u, s) => Follows(C, u, t)
         /\ \A C, u : Follows(C, s, u) => Follows(C, t, u)
         /\ \A F : Avoids(s, F) => Avoids(t, F)
         /\ \A S : Within(s, S) => Within(t, S)
<1>1. PICK h : PlacedBy(h, t, s)
  BY DEF Part
<1>2. ASSUME NEW C, Ordered(C, s) PROVE Ordered(C, t)
  BY <1>1, <1>2 DEF PlacedBy, Ordered
<1>3. ASSUME NEW C, NEW u, Follows(C, u, s) PROVE Follows(C, u, t)
  BY <1>1, <1>3 DEF PlacedBy, Follows
<1>4. ASSUME NEW C, NEW u, Follows(C, s, u) PROVE Follows(C, t, u)
  BY <1>1, <1>4 DEF PlacedBy, Follows
<1>5. ASSUME NEW F, Avoids(s, F) PROVE Avoids(t, F)
  BY <1>1, <1>5 DEF PlacedBy, Avoids
<1>6. ASSUME NEW S, Within(s, S) PROVE Within(t, S)
  BY <1>1, <1>6 DEF PlacedBy, Within
<1> QED
  BY <1>2, <1>3, <1>4, <1>5, <1>6

LEMMA OfJoin ==
  ASSUME NEW T, NEW s \in Seq(T), NEW t \in Seq(T)
  PROVE  /\ s \o t \in Seq(T)
         /\ \A C : Ordered(C, s) /\ Ordered(C, t) /\ Follows(C, s, t) => Ordered(C, s \o t)
         /\ \A C, u : Follows(C, u, s) /\ Follows(C, u, t) => Follows(C, u, s \o t)
         /\ \A C, u : Follows(C, s, u) /\ Follows(C, t, u) => Follows(C, s \o t, u)
         /\ \A F : Avoids(s, F) /\ Avoids(t, F) => Avoids(s \o t, F)
<1> DEFINE J == s \o t
<1>1. J \in Seq(T) /\ Len(J) = Len(s) + Len(t) /\ Len(s) \in Nat /\ Len(t) \in Nat
  OBVIOUS
<1>2. /\ \A i \in DOMAIN s : J[i] = s[i]
      /\ \A i \in DOMAIN J : i \notin DOMAIN s =>
           i - Len(s) \in DOMAIN t /\ J[i] = t[i - Len(s)]
  OBVIOUS
<1>3. DOMAIN s = 1 .. Len(s) /\ DOMAIN t = 1 .. Len(t) /\ DOMAIN J = 1 .. Len(s) + Len(t)
  OBVIOUS
<1> HIDE DEF J
<1>4. ASSUME NEW C, Ordered(C, s), Ordered(C, t), Follows(C, s, t) PROVE Ordered(C, J)
  <2> SUFFICES ASSUME NEW i \in DOMAIN J, NEW j \in DOMAIN J, i < j
               PROVE  Before(C, J[i], J[j])
    BY DEF Ordered
  <2>1. CASE j \in DOMAIN s
    <3>1. i \in DOMAIN s
      BY <1>1, <1>3, <2>1
    <3> QED
      BY <1>2, <1>4, <2>1, <3>1 DEF Ordered
  <2>2. CASE i \in DOMAIN s /\ j \notin DOMAIN s
    BY <1>2, <1>4, <2>2 DEF Follows
  <2>3. CASE i \notin DOMAIN s /\ j \notin DOMAIN s
    <3>1. i - Len(s) < j - Len(s)
      BY <1>1, <1>3
    <3> QED
      BY <1>2, <1>4, <2>3, <3>1 DEF Ordered
  <2> QED
    BY <2>1, <2>2, <2>3
<1>5. ASSUME NEW C, NEW u, Follows(C, u, s), Follows(C, u, t) PROVE Follows(C, u, J)
  BY <1>2, <1>5 DEF Follows
<1>6. ASSUME NEW C, NEW u, Follows(C, s, u), Follows(C, t, u) PROVE Follows(C, J, u)
  BY <1>2, <1>6 DEF Follows
<1>7. ASSUME NEW F, Avoids(s, F), Avoids(t, F) PROVE Avoids(J, F)
  BY <1>2, <1>7 DEF Avoids
<1> QED
  BY <1>1, <1>4, <1>5, <1>6, <1>7 DEF J

LEMMA OfNothing ==
  /\ \A C : Ordered(C, <<>>)
  /\ \A C, u : Follows(C, u, <<>>) /\ Follows(C, <<>>, u)
  /\ \A F : Avoids(<<>>, F)
  /\ \A S : Within(<<>>, S)
BY DEF Ordered, Follows, Avoids, Within

\* A new number goes last.
LEMMA OfAppend ==
  ASSUME NEW T, NEW s \in Seq(T), NEW n \in T
  PROVE  /\ Append(s, n) \in Seq(T)
         /\ \A C : Ordered(C, s) /\ Follows(C, s, <<n>>) => Ordered(C, Append(s, n))
         /\ \A C, u : Follows(C, u, s) /\ Follows(C, u, <<n>>) => Follows(C, u, Append(s, n))
         /\ \A C, u : Follows(C, s, u) /\ Follows(C, <<n>>, u) => Follows(C, Append(s, n), u)
         /\ \A F : Avoids(s, F) /\ n \notin F => Avoids(Append(s, n), F)
         /\ \A S : Within(s, S) /\ n \in S => Within(Append(s, n), S)
<1>1. <<n>> \in Seq(T) /\ Append(s, n) = s \o <<n>>
  OBVIOUS
<1>2. \A C : Ordered(C, <<n>>)
  BY DEF Ordered
<1>3. \A F : n \notin F => Avoids(<<n>>, F)
  BY DEF Avoids
<1>4. ASSUME NEW S, Within(s, S), n \in S PROVE Within(Append(s, n), S)
  BY <1>4 DEF Within
<1> DEFINE A == Append(s, n)
           one == <<n>>
<1>5. A = s \o one /\ one \in Seq(T)
  BY <1>1
<1> HIDE DEF A, one
<1>6. /\ A \in Seq(T)
      /\ \A C : Ordered(C, s) /\ Ordered(C, one) /\ Follows(C, s, one) => Ordered(C, A)
      /\ \A C, u : Follows(C, u, s) /\ Follows(C, u, one) => Follows(C, u, A)
      /\ \A C, u : Follows(C, s, u) /\ Follows(C, one, u) => Follows(C, A, u)
      /\ \A F : Avoids(s, F) /\ Avoids(one, F) => Avoids(A, F)
  BY <1>5, OfJoin
<1>7. /\ \A C : Ordered(C, s) /\ Follows(C, s, one) => Ordered(C, A)
      /\ \A F : Avoids(s, F) /\ n \notin F => Avoids(A, F)
  BY <1>2, <1>3, <1>6 DEF one
<1> QED
  BY <1>4, <1>6, <1>7 DEF A, one

-----------------------------------------------------------------------------
(* The frames of a step.                                                   *)

LEMMA FramesInitially == Init => FrameInv
<1> SUFFICES ASSUME Init PROVE FrameInv
  OBVIOUS
<1>1. FrameTypeOK
  BY DEF Init, FrameTypeOK
<1>2. queue = <<>> /\ sent = <<>> /\ forsaken = {} /\ \A p \in Peers : held[p] = <<>>
  BY DEF Init
<1>3. NothingWaits /\ LineInv /\ HeldInv /\ ForsakenInv
  BY <1>2, OfNothing DEF NothingWaits, LineInv, HeldInv, ForsakenInv
<1> QED
  BY <1>1, <1>3 DEF FrameInv

\* A step that leaves the frames where they are and opens no socket.
LEMMA FramesStay ==
  ASSUME FrameInv, UNCHANGED frameVars, UNCHANGED forsaken, Connected' => Connected,
         aged' \in 0 .. Len(given), awaiting' \subseteq Peers, keys' \subseteq Peers
  PROVE  FrameInv'
<1>1. FrameTypeOK'
  BY DEF FrameInv, FrameTypeOK, frameVars
<1>2. Candidates' = Candidates /\ \A p : CandidatesFor(p)' = CandidatesFor(p)
  BY DEF Candidates, CandidatesFor, frameVars
<1>3. NothingWaits' /\ LineInv' /\ HeldInv' /\ ForsakenInv'
  BY <1>2 DEF FrameInv, NothingWaits, LineInv, HeldInv, ForsakenInv, frameVars
<1> QED
  BY <1>1, <1>3 DEF FrameInv

\* The queue of a session ends with it.
LEMMA QueueCleared ==
  ASSUME FrameInv, queue' = <<>>,
         UNCHANGED <<held, given, sent, forsaken, aged, awaiting, keys>>
  PROVE  FrameInv'
<1>1. FrameTypeOK'
  BY DEF FrameInv, FrameTypeOK
<1>2. Candidates' = Candidates /\ \A p : CandidatesFor(p)' = CandidatesFor(p)
  BY DEF Candidates, CandidatesFor
<1>3. NothingWaits'
  BY DEF NothingWaits
<1>4. LineInv' /\ HeldInv' /\ ForsakenInv'
  BY <1>2, OfNothing DEF FrameInv, LineInv, HeldInv, ForsakenInv
<1> QED
  BY <1>1, <1>3, <1>4 DEF FrameInv


\* More numbers may be candidates than before, but none of these.
LEMMA OfMore ==
  ASSUME NEW S, NEW C, NEW D, \A k \in S : k \in C <=> k \in D,
         NEW s \in Seq(S), NEW t \in Seq(S)
  PROVE  /\ Ordered(C, s) => Ordered(D, s)
         /\ Follows(C, s, t) => Follows(D, s, t)
<1>1. (\A i \in DOMAIN s : s[i] \in S) /\ \A i \in DOMAIN t : t[i] \in S
  OBVIOUS
<1> QED
  BY <1>1 DEF Ordered, Follows, Before

LEMMA OfLarger ==
  ASSUME NEW S, NEW U, S \subseteq U, NEW s \in Seq(S)
  PROVE  s \in Seq(U)
OBVIOUS

\* sendMessage(): the message is written, queued or held back.
LEMMA Handed ==
  ASSUME FrameInv, NEW m \in [kind : Kinds, peer : Peers], Hand(m),
         UNCHANGED <<forsaken, aged, keys>>, awaiting' \subseteq Peers,
         Connected' => Connected
  PROVE  FrameInv'
<1> DEFINE n == Len(given) + 1
           C == Candidates
           D == Candidates'
           G == DOMAIN given
           G2 == DOMAIN given'
<1>0. /\ FrameTypeOK /\ NothingWaits /\ LineInv /\ HeldInv /\ ForsakenInv
  BY DEF FrameInv
<1>1. /\ given' = Append(given, m) /\ given' \in Seq([kind : Kinds, peer : Peers])
      /\ n \in G2 /\ n \notin G /\ G \subseteq G2 /\ G2 = G \cup {n}
      /\ \A k \in G : k \in Nat /\ k < n /\ given'[k] = given[k]
      /\ given'[n] = m
  <2>1. given \in Seq([kind : Kinds, peer : Peers]) /\ Len(given) \in Nat
    BY <1>0 DEF FrameTypeOK
  <2>2. given' = Append(given, m)
    BY DEF Hand
  <2>3. given' \in Seq([kind : Kinds, peer : Peers]) /\ Len(given') = n
    BY <2>1, <2>2
  <2>4. G = 1 .. Len(given) /\ G2 = 1 .. n
    BY <2>1, <2>3
  <2>5. given'[n] = m /\ \A k \in 1 .. Len(given) : given'[k] = given[k]
    BY <2>1, <2>2
  <2> HIDE DEF G, G2
  <2> QED
    BY <2>1, <2>2, <2>3, <2>4, <2>5
<1>2. /\ \A k \in G : k \in C <=> k \in D
      /\ n \in D <=> m.kind = "candidate"
      /\ \A p : CandidatesFor(p) \subseteq CandidatesFor(p)'
      /\ m.kind = "candidate" => n \in CandidatesFor(m.peer)'
      /\ \A p : CandidatesFor(p) \subseteq C /\ C \subseteq D
  BY <1>1 DEF Candidates, CandidatesFor
<1>3. /\ queue \in Seq(G) /\ sent \in Seq(G) /\ \A p \in Peers : held[p] \in Seq(G)
      /\ n \notin forsaken /\ n \in Nat
  BY <1>0, <1>1 DEF FrameTypeOK
<1> HIDE DEF n, C, D, G, G2
<1>4. \A s \in Seq(G) : Follows(D, s, <<n>>)
  <2> SUFFICES ASSUME NEW s \in Seq(G) PROVE Follows(D, s, <<n>>)
    OBVIOUS
  <2>1. \A i \in DOMAIN s : s[i] \in G
    OBVIOUS
  <2>2. \A i \in DOMAIN s : Before(D, s[i], n)
    BY <1>1, <2>1 DEF Before
  <2> QED
    BY <2>2 DEF Follows
<1>5. ASSUME NEW p \in Peers
      PROVE  /\ Within(held[p], CandidatesFor(p)) /\ Within(held[p], CandidatesFor(p)')
             /\ Ordered(D, held[p]) /\ Follows(D, sent, held[p])
             /\ Follows(D, queue, held[p]) /\ Follows(D, <<n>>, held[p])
  <2>1. /\ Within(held[p], CandidatesFor(p)) /\ Ordered(C, held[p])
        /\ Follows(C, sent, held[p]) /\ Follows(C, queue, held[p])
    BY <1>0 DEF HeldInv, C
  <2>2. Within(held[p], CandidatesFor(p)')
    BY <2>1, <1>2 DEF Within
  <2>3. Ordered(D, held[p]) /\ Follows(D, sent, held[p]) /\ Follows(D, queue, held[p])
    BY <2>1, <1>2, <1>3, OfMore
  <2>4. \A i \in DOMAIN held[p] : held[p][i] \in D /\ held[p][i] \in G
    BY <2>1, <1>2, <1>3 DEF Within
  <2>5. Follows(D, <<n>>, held[p])
    BY <2>4, <1>1 DEF Follows, Before
  <2> QED
    BY <2>1, <2>2, <2>3, <2>5
<1>6. Ordered(D, sent) /\ Ordered(D, queue) /\ Follows(D, sent, queue)
  BY <1>0, <1>2, <1>3, OfMore DEF LineInv, C
<1>7. Avoids(sent, forsaken) /\ Avoids(queue, forsaken) /\ \A p \in Peers : Avoids(held[p], forsaken)
  BY <1>0 DEF ForsakenInv
<1>8. \A s \in Seq(G) : s \in Seq(G2)
  BY <1>1, OfLarger
<1>9. SUFFICES /\ queue' \in Seq(G2) /\ sent' \in Seq(G2) /\ held' \in [Peers -> Seq(G2)]
               /\ NothingWaits' /\ Ordered(D, sent') /\ Ordered(D, queue')
               /\ Follows(D, sent', queue')
               /\ HeldInv' /\ Avoids(sent', forsaken) /\ Avoids(queue', forsaken)
               /\ \A p \in Peers : Avoids(held'[p], forsaken)
  <2>1. FrameTypeOK'
    <3>1. forsaken' \subseteq G2 /\ aged' \in 0 .. Len(given') /\ keys' \subseteq Peers
      BY <1>0, <1>1 DEF FrameTypeOK, G
    <3> QED
      BY <1>1, <1>9, <3>1 DEF FrameTypeOK, G2
  <2> QED
    BY <1>9, <2>1 DEF FrameInv, LineInv, ForsakenInv, D
<1>10. CASE /\ m.kind = "candidate" /\ held' = [held EXCEPT ![m.peer] = Append(@, n)]
            /\ UNCHANGED <<queue, sent>>
  <2>1. m.peer \in Peers /\ n \in CandidatesFor(m.peer)'
    BY <1>2, <1>10
  <2>2. \A p \in Peers : held'[p] = IF p = m.peer THEN Append(held[p], n) ELSE held[p]
    BY <1>0, <1>10 DEF FrameTypeOK
  <2>3. ASSUME NEW p \in Peers
        PROVE  /\ held'[p] \in Seq(G2) /\ Avoids(held'[p], forsaken)
               /\ Within(held'[p], CandidatesFor(p)') /\ Ordered(D, held'[p])
               /\ Follows(D, sent, held'[p]) /\ Follows(D, queue, held'[p])
    <3>1. CASE p # m.peer
      BY <3>1, <2>2, <1>3, <1>5, <1>7, <1>8
    <3>2. CASE p = m.peer
      <4>1. held[p] \in Seq(G2) /\ n \in G2 /\ held'[p] = Append(held[p], n)
        BY <3>2, <2>2, <1>1, <1>3, <1>8
      <4>2. Follows(D, held[p], <<n>>) /\ Follows(D, sent, <<n>>) /\ Follows(D, queue, <<n>>)
        BY <1>3, <1>4
      <4> QED
        BY <4>1, <4>2, <3>2, <2>1, <1>3, <1>5, <1>7, OfAppend
    <3> QED
      BY <3>1, <3>2
  <2>4. HeldInv'
    BY <2>3, <1>10 DEF HeldInv, D
  <2>5. held' \in [Peers -> Seq(G2)]
    BY <2>3, <1>0, <1>10 DEF FrameTypeOK
  <2>6. NothingWaits'
    BY <1>0, <1>10 DEF NothingWaits
  <2> QED
    BY <1>3, <1>6, <1>7, <1>8, <1>10, <2>3, <2>4, <2>5, <2>6
<1>11. CASE /\ Connected /\ sent' = Append(sent, n) /\ UNCHANGED <<queue, held>>
  <2>1. queue = <<>>
    BY <1>0, <1>11 DEF NothingWaits
  <2>2. /\ sent' \in Seq(G2) /\ Ordered(D, sent') /\ Avoids(sent', forsaken)
        /\ \A p \in Peers : Follows(D, sent', held[p])
    <3>1. sent \in Seq(G2) /\ n \in G2 /\ Follows(D, sent, <<n>>)
      BY <1>1, <1>3, <1>4, <1>8
    <3> QED
      BY <3>1, <1>3, <1>5, <1>6, <1>7, <1>11, OfAppend
  <2>3. HeldInv'
    BY <1>5, <1>11, <2>2 DEF HeldInv, D
  <2>4. Follows(D, sent', queue') /\ NothingWaits'
    BY <1>11, <2>1, OfNothing DEF NothingWaits
  <2>5. held' \in [Peers -> Seq(G2)]
    BY <1>3, <1>8, <1>0, <1>11 DEF FrameTypeOK
  <2> QED
    BY <1>3, <1>6, <1>7, <1>8, <1>11, <2>2, <2>3, <2>4, <2>5
<1>12. CASE /\ ~Connected /\ UNCHANGED <<sent, held>>
            /\ queue' = Append(IF Len(queue) >= MaxQueue THEN Tail(queue) ELSE queue, n)
  <2> DEFINE Q == IF Len(queue) >= MaxQueue THEN Tail(queue) ELSE queue
  <2>1. /\ Q \in Seq(G) /\ Ordered(D, Q) /\ Follows(D, sent, Q) /\ Avoids(Q, forsaken)
        /\ \A p \in Peers : Follows(D, Q, held[p])
    <3>1. CASE Len(queue) >= MaxQueue
      <4>1. queue # <<>>
        BY <3>1, <1>3
      <4>2. Tail(queue) \in Seq(G) /\ Part(Tail(queue), queue)
        BY <4>1, <1>3, TailPart
      <4> QED
        BY <4>2, <3>1, <1>5, <1>6, <1>7, OfPart
    <3>2. CASE ~(Len(queue) >= MaxQueue)
      BY <3>2, <1>3, <1>5, <1>6, <1>7
    <3> QED
      BY <3>1, <3>2
  <2>2. Q \in Seq(G2) /\ n \in G2 /\ Follows(D, Q, <<n>>) /\ Follows(D, sent, <<n>>)
    BY <2>1, <1>1, <1>3, <1>4, <1>8
  <2>3. queue' = Append(Q, n)
    BY <1>12
  <2> HIDE DEF Q
  <2>4. /\ queue' \in Seq(G2) /\ Ordered(D, queue') /\ Avoids(queue', forsaken)
        /\ Follows(D, sent, queue') /\ \A p \in Peers : Follows(D, queue', held[p])
    BY <2>1, <2>2, <2>3, <1>3, <1>5, OfAppend
  <2>5. HeldInv'
    BY <1>5, <1>12, <2>4 DEF HeldInv, D
  <2>6. NothingWaits'
    BY <1>12 DEF NothingWaits
  <2>7. held' \in [Peers -> Seq(G2)]
    BY <1>3, <1>8, <1>0, <1>12 DEF FrameTypeOK
  <2> QED
    BY <1>3, <1>6, <1>7, <1>8, <1>12, <2>4, <2>5, <2>6, <2>7
<1> QED
  BY <1>10, <1>11, <1>12 DEF Hand, n


\* Candidates held back for different peers are different frames.
LEMMA HeldApart ==
  ASSUME HeldInv, FrameTypeOK, NEW p \in Peers, NEW q \in Peers, p # q
  PROVE  Follows(Candidates, held[p], held[q])
BY DEF HeldInv, Within, CandidatesFor, Follows, Before

\* flushQueue(): what is fresh of the queue is written, and the queue is empty.
LEMMA Flushed ==
  ASSUME FrameInv, FlushQueue,
         UNCHANGED <<held, given, forsaken, aged, awaiting, keys>>
  PROVE  FrameInv'
<1> DEFINE F == Fresh(queue)
           G == DOMAIN given
           C == Candidates
<1>0. FrameTypeOK /\ LineInv /\ HeldInv /\ ForsakenInv
  BY DEF FrameInv
<1>1. sent \in Seq(G) /\ queue \in Seq(G)
  BY <1>0 DEF FrameTypeOK
<1>2. F \in Seq(G) /\ Part(F, queue)
  BY <1>1, FilteredPart DEF Fresh
<1>3. sent' = sent \o F /\ queue' = <<>>
  BY DEF FlushQueue
<1> HIDE DEF F
<1>4. /\ Ordered(C, F) /\ Follows(C, sent, F) /\ Avoids(F, forsaken)
      /\ \A p \in Peers : Follows(C, F, held[p])
  BY <1>0, <1>2, OfPart DEF LineInv, HeldInv, ForsakenInv
<1>5. /\ sent' \in Seq(G) /\ Ordered(C, sent') /\ Avoids(sent', forsaken)
      /\ \A p \in Peers : Follows(C, sent', held[p])
  <2>1. /\ Ordered(C, sent) /\ Avoids(sent, forsaken)
        /\ \A p \in Peers : Follows(C, sent, held[p])
    BY <1>0 DEF LineInv, HeldInv, ForsakenInv
  <2> HIDE DEF C, G
  <2> QED
    BY <1>1, <1>2, <1>3, <1>4, <2>1, OfJoin
<1>6. FrameTypeOK'
  BY <1>0, <1>3, <1>5 DEF FrameTypeOK
<1>7. Candidates' = Candidates /\ \A p : CandidatesFor(p)' = CandidatesFor(p)
  BY DEF Candidates, CandidatesFor
<1>8. NothingWaits' /\ LineInv' /\ HeldInv' /\ ForsakenInv'
  BY <1>0, <1>3, <1>5, <1>7, OfNothing DEF NothingWaits, LineInv, HeldInv, ForsakenInv
<1> QED
  BY <1>6, <1>8 DEF FrameInv

\* flushPendingIce(): the candidates of a peer whose key has come are written or queued.
LEMMA KeyReleased ==
  ASSUME FrameInv, NEW p \in Peers, FlushPendingIce(p), UNCHANGED connVars,
         UNCHANGED <<given, forsaken, aged, awaiting>>, keys' \subseteq Peers
  PROVE  FrameInv'
<1> DEFINE F == Fresh(held[p])
           G == DOMAIN given
           C == Candidates
<1>0. FrameTypeOK /\ NothingWaits /\ LineInv /\ HeldInv /\ ForsakenInv
  BY DEF FrameInv
<1>1. sent \in Seq(G) /\ queue \in Seq(G) /\ held \in [Peers -> Seq(G)]
  BY <1>0 DEF FrameTypeOK
<1>2. F \in Seq(G) /\ Part(F, held[p])
  BY <1>1, FilteredPart DEF Fresh
<1>3. /\ \A q \in Peers : held'[q] = IF q = p THEN <<>> ELSE held[q]
      /\ held' \in [Peers -> Seq(G)]
  BY <1>1 DEF FlushPendingIce
<1>4. \/ Connected /\ sent' = sent \o F /\ UNCHANGED queue
      \/ ~Connected /\ queue' = queue \o F /\ UNCHANGED sent
  BY DEF FlushPendingIce
<1> HIDE DEF F
<1>5. /\ Ordered(C, F) /\ Follows(C, sent, F) /\ Follows(C, queue, F)
      /\ Avoids(F, forsaken)
  BY <1>0, <1>2, OfPart DEF HeldInv, ForsakenInv
<1>6. \A q \in Peers \ {p} : Follows(C, F, held[q])
  BY <1>0, <1>2, OfPart, HeldApart
<1>7. /\ Ordered(C, sent) /\ Ordered(C, queue) /\ Follows(C, sent, queue)
      /\ Avoids(sent, forsaken) /\ Avoids(queue, forsaken)
      /\ \A q \in Peers : /\ Follows(C, sent, held[q]) /\ Follows(C, queue, held[q])
                          /\ Within(held[q], CandidatesFor(q)) /\ Ordered(C, held[q])
                          /\ Avoids(held[q], forsaken)
  BY <1>0 DEF LineInv, HeldInv, ForsakenInv
<1>8. Candidates' = C /\ \A q : CandidatesFor(q)' = CandidatesFor(q)
  BY DEF Candidates, CandidatesFor
<1>9. \A q \in Peers : /\ Within(held'[q], CandidatesFor(q)) /\ Ordered(C, held'[q])
                       /\ Avoids(held'[q], forsaken)
  BY <1>3, <1>7, OfNothing
<1>10. /\ sent' \in Seq(G) /\ queue' \in Seq(G)
       /\ Ordered(C, sent') /\ Ordered(C, queue') /\ Follows(C, sent', queue')
       /\ Avoids(sent', forsaken) /\ Avoids(queue', forsaken)
       /\ \A q \in Peers \ {p} : Follows(C, sent', held[q]) /\ Follows(C, queue', held[q])
       /\ NothingWaits'
  <2>1. CASE Connected /\ sent' = sent \o F /\ UNCHANGED queue
    <3>1. queue = <<>>
      BY <1>0, <2>1 DEF NothingWaits
    <3>2. NothingWaits'
      BY <2>1, <3>1 DEF NothingWaits
    <3> HIDE DEF C, G
    <3>3. /\ sent' \in Seq(G) /\ Ordered(C, sent') /\ Avoids(sent', forsaken)
          /\ \A q \in Peers \ {p} : Follows(C, sent', held[q])
      BY <2>1, <1>1, <1>2, <1>5, <1>6, <1>7, OfJoin
    <3> QED
      BY <2>1, <3>1, <3>2, <3>3, <1>1, <1>7, OfNothing
  <2>2. CASE ~Connected /\ queue' = queue \o F /\ UNCHANGED sent
    <3>1. ~Connected'
      BY <2>2 DEF Connected, connVars, socketVars
    <3>2. NothingWaits'
      BY <3>1 DEF NothingWaits
    <3> HIDE DEF C, G
    <3>3. /\ queue' \in Seq(G) /\ Ordered(C, queue') /\ Avoids(queue', forsaken)
          /\ Follows(C, sent, queue')
          /\ \A q \in Peers \ {p} : Follows(C, queue', held[q])
      BY <2>2, <1>1, <1>2, <1>5, <1>6, <1>7, OfJoin
    <3> QED
      BY <2>2, <3>2, <3>3, <1>1, <1>7
  <2> QED
    BY <1>4, <2>1, <2>2
<1>11. \A q \in Peers : Follows(C, sent', held'[q]) /\ Follows(C, queue', held'[q])
  BY <1>3, <1>10, OfNothing
<1>12. FrameTypeOK'
  BY <1>0, <1>3, <1>10 DEF FrameTypeOK
<1>13. LineInv' /\ HeldInv' /\ ForsakenInv'
  BY <1>8, <1>9, <1>10, <1>11 DEF LineInv, HeldInv, ForsakenInv
<1> QED
  BY <1>10, <1>12, <1>13 DEF FrameInv

\* terminateCallConnection(): what is unwritten of the peer's negotiation is forsaken.
LEMMA TornDown ==
  ASSUME FrameInv, NEW p \in Peers, TearDown(p)
  PROVE  FrameInv'
<1> DEFINE N == NegotiationFor(p)
           G == DOMAIN given
           C == Candidates
<1>0. FrameTypeOK /\ NothingWaits /\ LineInv /\ HeldInv /\ ForsakenInv
  BY DEF FrameInv
<1>1. sent \in Seq(G) /\ queue \in Seq(G) /\ held \in [Peers -> Seq(G)]
  BY <1>0 DEF FrameTypeOK
<1>2. /\ queue' = Filtered(queue, G \ N) /\ sent' = sent /\ given' = given
      /\ aged' = aged /\ awaiting' = awaiting /\ keys' = keys /\ Connected' = Connected
      /\ forsaken' = forsaken \cup {n \in N : ~Contains(sent, n)}
  BY DEF TearDown, DiscardQueuedNegotiationFor, connVars, socketVars, Connected
<1>3. /\ \A q \in Peers : held'[q] = IF q = p THEN <<>> ELSE held[q]
      /\ held' \in [Peers -> Seq(G)]
  BY <1>1 DEF TearDown, DiscardQueuedNegotiationFor
<1>4. queue' \in Seq(G) /\ Within(queue', G \ N) /\ Part(queue', queue)
  BY <1>1, <1>2, FilteredPart
<1>5. NothingWaits'
  <2>1. queue = <<>> => queue' = <<>>
    BY <1>1, <1>4 DEF Part, PlacedBy
  <2> QED
    BY <1>0, <1>2, <2>1 DEF NothingWaits
<1>6. Candidates' = C /\ \A q : CandidatesFor(q)' = CandidatesFor(q)
  BY <1>2 DEF Candidates, CandidatesFor
<1>7. Ordered(C, queue') /\ Follows(C, sent, queue') /\ Avoids(queue', forsaken)
  BY <1>0, <1>4, OfPart DEF LineInv, ForsakenInv
<1>8. \A q \in Peers : Follows(C, queue', held[q])
  BY <1>0, <1>4, OfPart DEF HeldInv
<1>9. LineInv'
  BY <1>0, <1>2, <1>6, <1>7 DEF LineInv
<1>10. HeldInv'
  <2>1. \A q \in Peers : /\ Within(held[q], CandidatesFor(q)) /\ Ordered(C, held[q])
                         /\ Follows(C, sent, held[q])
    BY <1>0 DEF HeldInv
  <2>2. \A q \in Peers : /\ Within(held'[q], CandidatesFor(q)) /\ Ordered(C, held'[q])
                         /\ Follows(C, sent, held'[q]) /\ Follows(C, queue', held'[q])
    BY <2>1, <1>3, <1>8, OfNothing
  <2> QED
    BY <2>2, <1>2, <1>6 DEF HeldInv
<1>11. N \subseteq G /\ \A q \in Peers \ {p} : CandidatesFor(q) \cap N = {}
  BY DEF NegotiationFor, CandidatesFor
<1>12. Avoids(sent, forsaken')
  <2>1. \A i \in DOMAIN sent : Contains(sent, sent[i])
    BY <1>1 DEF Contains
  <2> QED
    BY <2>1, <1>0, <1>2 DEF ForsakenInv, Avoids
<1>13. Avoids(queue', forsaken')
  BY <1>2, <1>4, <1>7 DEF Avoids, Within
<1>14. \A q \in Peers : Avoids(held'[q], forsaken')
  <2>1. ASSUME NEW q \in Peers, q # p PROVE Avoids(held[q], forsaken')
    BY <2>1, <1>0, <1>2, <1>11 DEF ForsakenInv, HeldInv, Avoids, Within
  <2> QED
    BY <2>1, <1>3, OfNothing
<1>15. ForsakenInv'
  BY <1>2, <1>12, <1>13, <1>14 DEF ForsakenInv
<1>16. FrameTypeOK'
  <2>1. forsaken' \subseteq G
    BY <1>0, <1>2, <1>11 DEF FrameTypeOK
  <2> QED
    BY <2>1, <1>0, <1>2, <1>3, <1>4 DEF FrameTypeOK
<1> QED
  BY <1>5, <1>9, <1>10, <1>15, <1>16 DEF FrameInv


-----------------------------------------------------------------------------
(* A socket opens in SocketOpens only: whatever else is done to the         *)
(* connection, it was open before if it is open afterwards.                 *)

LEMMA DialIsNotOpen ==
  ASSUME SocketTypeOK, NEW t, NEW e \in Nat, epoch < e, NEW X, Dial(t, e, X)
  PROVE  ~Connected'
BY DEF SocketTypeOK, Dial, CloseSockets, Connected

LEMMA ConnectOpensNothing ==
  ASSUME SocketTypeOK, NEW t, Connect(t)
  PROVE  Connected' => Connected
<1>1. epoch + 1 \in Nat /\ epoch < epoch + 1
  BY DEF SocketTypeOK
<1> QED
  BY <1>1, DialIsNotOpen DEF Connect, Connected, connVars, socketVars

LEMMA EnsureOpensNothing ==
  ASSUME SocketTypeOK, EnsureWsSignaling
  PROVE  Connected' => Connected
BY ConnectOpensNothing DEF EnsureWsSignaling, Connected, connVars, socketVars

LEMMA CloseOpensNothing ==
  ASSUME SocketTypeOK, NEW s, OnClose(s), opened' \subseteq opened
  PROVE  Connected' => Connected
BY DEF SocketTypeOK, OnClose, Connected

-----------------------------------------------------------------------------
(* One step per action.                                                    *)

LEMMA UserFrames ==
  ASSUME SocketTypeOK, FrameInv, UserNext
  PROVE  FrameInv'
<1> USE DEF outVars, serviceVars, worldVars
<1>0. FrameTypeOK
  BY DEF FrameInv
<1>a. UNCHANGED connVars => (Connected' => Connected)
  BY DEF connVars, socketVars, Connected
<1>b. aged \in 0 .. Len(given) /\ awaiting \subseteq Peers /\ keys \subseteq Peers
  BY <1>0 DEF FrameTypeOK
<1>c. \A k \in Kinds, p \in Peers : Message(k, p) \in [kind : Kinds, peer : Peers]
  BY DEF Message
<1>1. CASE Start
  BY <1>1, <1>b, EnsureOpensNothing, FramesStay DEF Start
<1>2. CASE Stop
  BY <1>2, QueueCleared DEF Stop, Disconnect
<1>3. CASE SwitchToLan
  BY <1>3, <1>a, <1>b, QueueCleared, FramesStay DEF SwitchToLan, Disconnect, frameVars
<1>4. CASE SwitchToServer
  BY <1>4, <1>a, <1>b, FramesStay DEF SwitchToServer
<1>5. CASE OpenPublicChat
  BY <1>5, <1>a, <1>b, QueueCleared, FramesStay DEF OpenPublicChat, Disconnect, frameVars
<1>6. ASSUME NEW t \in {0, issued + 1}, SetToken(t)
      PROVE  FrameInv'
  BY <1>6, <1>a, <1>b, QueueCleared, FramesStay DEF SetToken, Disconnect, frameVars
<1>7. ASSUME NEW p \in Peers, NEW k \in Kinds, Send(k, p)
      PROVE  FrameInv'
  BY <1>7, <1>b, <1>c, EnsureOpensNothing, Handed DEF Send
<1>8. ASSUME NEW p \in Peers, SendChat(p)
      PROVE  FrameInv'
  <2>1. Message("chat", p) \in [kind : Kinds, peer : Peers]
    BY <1>c DEF Kinds
  <2>2. Connected' => Connected
    BY <1>8, EnsureOpensNothing DEF SendChat
  <2> QED
    BY <1>8, <1>b, <2>1, <2>2, Handed, FramesStay DEF SendChat
<1>9. ASSUME NEW p \in Peers, AwaitCredential(p)
      PROVE  FrameInv'
  BY <1>9, <1>b, EnsureOpensNothing, FramesStay DEF AwaitCredential
<1>10. ASSUME NEW p \in Peers, TearDown(p)
       PROVE  FrameInv'
  BY <1>10, TornDown
<1> QED
  BY <1>1, <1>2, <1>3, <1>4, <1>5, <1>6, <1>7, <1>8, <1>9, <1>10 DEF UserNext

LEMMA DeviceFrames ==
  ASSUME SocketTypeOK, FrameInv, DeviceNext
  PROVE  FrameInv'
<1> USE DEF outVars, serviceVars, worldVars
<1>a. UNCHANGED connVars => (Connected' => Connected)
  BY DEF connVars, socketVars, Connected
<1>b. aged \in 0 .. Len(given) /\ awaiting \subseteq Peers /\ keys \subseteq Peers
  BY DEF FrameInv, FrameTypeOK
<1>1. CASE LookupEnds
  BY <1>1, <1>a, <1>b, ConnectOpensNothing, FramesStay DEF LookupEnds
<1>2. CASE ReconnectTimer
  BY <1>2, <1>b, ConnectOpensNothing, FramesStay DEF ReconnectTimer
<1>3. CASE Ping
  BY <1>3, <1>b, FramesStay DEF Ping, Connected, socketVars
<1>4. CASE HeartbeatTimeout
  BY <1>4, <1>b, FramesStay DEF HeartbeatTimeout
<1>5. CASE NetworkRegained
  <2>1. epoch + 2 \in Nat /\ epoch < epoch + 2
    BY DEF SocketTypeOK
  <2> QED
    BY <1>5, <2>1, <1>a, <1>b, DialIsNotOpen, FramesStay DEF NetworkRegained
<1>6. ASSUME NEW p \in Peers, CredentialReady(p)
      PROVE  FrameInv'
  <2>1. Message("negotiation", p) \in [kind : Kinds, peer : Peers]
    BY DEF Message, Kinds
  <2>2. awaiting' \subseteq Peers
    BY <1>6, <1>b DEF CredentialReady
  <2> QED
    BY <1>6, <1>a, <2>1, <2>2, Handed DEF CredentialReady
<1>7. ASSUME NEW s \in dialing, SocketOpens(s)
      PROVE  FrameInv'
  BY <1>7, Flushed DEF SocketOpens
<1>8. ASSUME NEW s \in dialing \cup zombie, SocketFails(s)
      PROVE  FrameInv'
  <2>1. Connected' => Connected
    BY <1>8, CloseOpensNothing DEF SocketFails
  <2> QED
    BY <1>8, <1>b, <2>1, FramesStay DEF SocketFails
<1>9. ASSUME NEW s \in closing, SocketClosed(s)
      PROVE  FrameInv'
  <2>1. Connected' => Connected
    BY <1>9, CloseOpensNothing DEF SocketClosed
  <2> QED
    BY <1>9, <1>b, <2>1, FramesStay DEF SocketClosed
<1> QED
  BY <1>1, <1>2, <1>3, <1>4, <1>5, <1>6, <1>7, <1>8, <1>9 DEF DeviceNext

LEMMA WorldFrames ==
  ASSUME SocketTypeOK, FrameInv, WorldNext
  PROVE  FrameInv'
<1> USE DEF outVars, serviceVars, worldVars
<1>a. UNCHANGED connVars => (Connected' => Connected)
  BY DEF connVars, socketVars, Connected
<1>b. aged \in 0 .. Len(given) /\ awaiting \subseteq Peers /\ keys \subseteq Peers
  BY DEF FrameInv, FrameTypeOK
<1>1. CASE NetworkLost
  BY <1>1, <1>b, FramesStay DEF NetworkLost, Connected
<1>2. CASE NetworkBack \/ OutageSeen
  BY <1>2, <1>a, <1>b, FramesStay DEF NetworkBack, OutageSeen
<1>3. CASE TimePasses
  <2>1. aged' \in 0 .. Len(given)
    BY <1>3, <1>b DEF TimePasses, FrameInv, FrameTypeOK
  <2> QED
    BY <1>3, <1>a, <1>b, <2>1, FramesStay DEF TimePasses
<1>4. ASSUME NEW p \in Peers, KeyArrives(p)
      PROVE  FrameInv'
  BY <1>4, <1>b, KeyReleased DEF KeyArrives
<1>5. ASSUME NEW p \in Peers, KeyLearnt(p)
      PROVE  FrameInv'
  BY <1>5, <1>a, <1>b, FramesStay DEF KeyLearnt
<1>6. ASSUME NEW s \in opened, ServerCloses(s)
      PROVE  FrameInv'
  <2>1. Connected' => Connected
    BY <1>6, CloseOpensNothing DEF ServerCloses
  <2> QED
    BY <1>6, <1>b, <2>1, FramesStay DEF ServerCloses
<1> QED
  BY <1>1, <1>2, <1>3, <1>4, <1>5, <1>6 DEF WorldNext

LEMMA FramesStepwise == IInv /\ FrameInv /\ [Next]_vars => FrameInv'
<1>1. ASSUME IInv, FrameInv, Next PROVE FrameInv'
  BY <1>1, UserFrames, DeviceFrames, WorldFrames DEF Next, IInv
<1>2. ASSUME FrameInv, UNCHANGED vars PROVE FrameInv'
  <2>1. /\ UNCHANGED frameVars /\ UNCHANGED <<forsaken, aged, awaiting, keys>>
        /\ UNCHANGED <<socket, opened>>
    BY <1>2 DEF vars, connVars, socketVars, outVars
  <2> QED
    BY <1>2, <2>1, FramesStay DEF Connected, FrameInv, FrameTypeOK
<1> QED
  BY <1>1, <1>2

THEOREM FramesInvariance == Spec => [](IInv /\ FrameInv)
BY Invariance, FramesInitially, FramesStepwise, PTL DEF Spec

-----------------------------------------------------------------------------
(* The numbers of sockets, tokens and frames are ones that were handed out,
   for any number of messages and reconnections. *)
THEOREM TypeCorrect == Spec => []TypeOK
<1>1. IInv /\ FrameInv => TypeOK
  BY DEF IInv, FrameInv, TypeOK
<1> QED
  BY FramesInvariance, <1>1, PTL

(* A frame is written once, and what needs no key in the order in which the
   adapter was given it, however often the connection breaks, the queue
   overflows or expires, and whenever the keys of peers become known. *)
THEOREM WrittenInOrder == Spec => []InOrder
<1>1. ASSUME FrameInv PROVE InOrder
  <2>1. Ordered(Candidates, sent) /\ sent \in Seq(DOMAIN given)
    BY <1>1 DEF FrameInv, LineInv, FrameTypeOK
  <2>2. \A i \in DOMAIN sent :
          sent[i] \in Candidates <=> given[sent[i]].kind = "candidate"
    BY <2>1 DEF Candidates
  <2> QED
    BY <2>1, <2>2 DEF InOrder, Ordered, Before
<1> QED
  BY FramesInvariance, <1>1, PTL

(* What was unwritten of a negotiation when its call was torn down is never
   written, neither from the queue nor when the peer's key comes. *)
THEOREM TornDownIsGone == Spec => []TornDownIsNotReplayed
<1>1. ASSUME FrameInv PROVE TornDownIsNotReplayed
  <2>1. Avoids(sent, forsaken) /\ sent \in Seq(DOMAIN given)
    BY <1>1 DEF FrameInv, ForsakenInv, FrameTypeOK
  <2> QED
    BY <2>1 DEF TornDownIsNotReplayed, Avoids, Contains
<1> QED
  BY FramesInvariance, <1>1, PTL
=============================================================================
