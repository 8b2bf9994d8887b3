----------------------------- MODULE WsSignaling -----------------------------
(***************************************************************************)
(* The device's WebSocket to the server: WsSignalingAdapter with the part  *)
(* of SignalingService, ConnectionService, NetworkConfig, the public chat  *)
(* hook and the mode switch that opens it, closes it and writes to it      *)
(* (mobile-app: features/shared/connection).                               *)
(*                                                                         *)
(* A native socket is numbered by the epoch it was opened in and lives on  *)
(* after the adapter dropped it, until its close event.  A frame is the    *)
(* number of the message given to the adapter.  The TCP route and guests,  *)
(* who have no socket, are left out; what comes in is kept only where it   *)
(* carries a peer's key.                                                   *)
(***************************************************************************)
EXTENDS Integers, Sequences, SequencesExt

CONSTANTS Peers,
          MaxAttempts,  \* maxReconnectAttempts
          MaxQueue,     \* maxQueueSize
          MaxFrames     \* bound on the messages given to the adapter

ASSUME WsSignalingAssumption ==
  MaxAttempts \in Nat /\ MaxQueue \in Nat \ {0} /\ MaxFrames \in Nat

Kinds == {"negotiation", "candidate", "call", "chat"}
States == {"idle", "connecting", "open"}

VARIABLES
  \* the adapter
  socket,     \* the epoch of the socket it holds, 0 for none
  state, epoch,
  pending,    \* connectPromise and pendingConnectReject are set
  timer,      \* reconnectTimer is armed
  attempts,   \* reconnectAttempts
  heartbeat,  \* heartbeatTimer runs
  pongDue,    \* heartbeatTimeoutTimer is armed
  manual,     \* manuallyClosed
  options,    \* lastConnectOptions: the token to connect with, 0 for none
  queue,      \* outboundQueue
  held,       \* pendingIce: candidates that wait for the peer's key
  \* the native sockets
  dialing, opened, closing,
  zombie,     \* those of opened whose path is gone
  \* the services around it
  token,      \* signalingToken, 0 for none
  issued,     \* the last access token the device was given
  allowed,    \* isWebSocketAllowed(): the mode is not LAN
  chatTab,    \* the public chat screen is mounted
  lookup,     \* its getStoredAccessToken() is under way
  awaiting,   \* peers for whom an offer waits for a fresh credential
  keys,       \* peers whose key is known
  \* the world
  up,         \* the network is there
  outageSeen, \* wasNetworkConnected is false
  given,      \* history: the messages given to the adapter
  sent,       \* history: the frames written to a socket
  forsaken,   \* history: frames of a torn down call not written by then
  aged        \* frames up to this one are older than queueTtlMs

socketVars  == <<socket, state, epoch, pending, dialing, opened, closing, zombie>>
retryVars   == <<timer, attempts, manual, options>>
beatVars    == <<heartbeat, pongDue>>
connVars    == <<socketVars, retryVars, beatVars>>
frameVars   == <<queue, held, given, sent>>
outVars     == <<frameVars, forsaken, aged, awaiting, keys>>
serviceVars == <<token, issued, allowed, chatTab, lookup>>
worldVars   == <<up, outageSeen>>
vars == <<connVars, outVars, serviceVars, worldVars>>

Init ==
  /\ socket = 0 /\ state = "idle" /\ epoch = 0 /\ pending = FALSE
  /\ dialing = {} /\ opened = {} /\ closing = {} /\ zombie = {}
  /\ timer = FALSE /\ attempts = 0 /\ manual = FALSE /\ options = 0
  /\ heartbeat = FALSE /\ pongDue = FALSE
  /\ queue = <<>> /\ held = [p \in Peers |-> <<>>]
  /\ given = <<>> /\ sent = <<>> /\ forsaken = {} /\ aged = 0
  /\ awaiting = {} /\ keys = {}
  /\ token = 0 /\ issued = 0 /\ allowed = TRUE
  /\ chatTab = FALSE /\ lookup = FALSE
  /\ up = TRUE /\ outageSeen = FALSE

-----------------------------------------------------------------------------
(* The connection.                                                         *)

Connected == socket \in opened    \* isConnected

\* socket.close() on the sockets C that are not closing yet
CloseSockets(C) ==
  /\ opened' = opened \ C /\ zombie' = zombie \ C
  /\ closing' = closing \cup (C \cap (dialing \cup opened))

StopTimers == timer' = FALSE /\ heartbeat' = FALSE /\ pongDue' = FALSE

\* new WebSocket(url) in epoch e, in place of the sockets C
Dial(t, e, C) ==
  /\ StopTimers /\ manual' = FALSE /\ options' = t
  /\ epoch' = e /\ socket' = e /\ state' = "connecting" /\ pending' = TRUE
  /\ CloseSockets(C) /\ dialing' = (dialing \ C) \cup {e}

UnderWay == \/ state = "connecting" /\ pending
            \/ state = "open" /\ Connected

Connect(t) ==
  \/ /\ UnderWay
     /\ UNCHANGED connVars
  \/ /\ ~UnderWay
     /\ Dial(t, epoch + 1, IF state = "idle" THEN {} ELSE {socket})
     /\ UNCHANGED attempts

Configured == allowed /\ token # 0

EnsureWsSignaling ==
  \/ Configured /\ ~Connected /\ Connect(token)
  \/ (~Configured \/ Connected) /\ UNCHANGED connVars

\* disconnect() without the end of the session's queue
DropSocket ==
  /\ StopTimers /\ manual' = TRUE /\ pending' = FALSE
  /\ CloseSockets({socket}) /\ dialing' = dialing \ {socket}
  /\ socket' = 0 /\ state' = "idle"
  /\ attempts' = 0 /\ options' = 0
  /\ UNCHANGED epoch

Disconnect == DropSocket /\ queue' = <<>>

\* mutant: only a connection that was open is opened again
ReconnectIfOpened ==
  \/ /\ ~manual /\ options # 0 /\ attempts < MaxAttempts /\ heartbeat
     /\ attempts' = attempts + 1 /\ timer' = TRUE
  \/ /\ manual \/ options = 0 \/ attempts >= MaxAttempts \/ ~heartbeat
     /\ UNCHANGED <<attempts, timer>>

TryReconnect ==
  \/ /\ ~manual /\ options # 0 /\ attempts < MaxAttempts
     /\ attempts' = attempts + 1 /\ timer' = TRUE
  \/ /\ manual \/ options = 0 \/ attempts >= MaxAttempts    \* "reconnect-failed"
     /\ UNCHANGED <<attempts, timer>>

\* mutant: the events of a replaced socket are not told apart
AnySocket(s) == TRUE

IsCurrent(s) == s = socket

\* onclose, after onerror if the socket failed
OnClose(s) ==
  \/ /\ IsCurrent(s)
     /\ heartbeat' = FALSE /\ pongDue' = FALSE
     /\ socket' = 0 /\ state' = "idle"
     /\ TryReconnect
  \/ /\ ~IsCurrent(s)
     /\ UNCHANGED <<heartbeat, pongDue, socket, state, attempts, timer>>

-----------------------------------------------------------------------------
(* The frames.                                                             *)

\* Array.filter(): what of s is in S, in its order
Filtered(s, S) ==
  LET f[i \in 0 .. Len(s)] ==
        IF i = 0 THEN <<>>
        ELSE IF s[i] \in S THEN Append(f[i - 1], s[i]) ELSE f[i - 1]
  IN  f[Len(s)]

Fresh(s) == Filtered(s, aged + 1 .. Len(given))

\* sendMessage() of a message m; n is its number
Hand(m) ==
  LET n == Len(given) + 1
      full == Len(queue) >= MaxQueue
  IN  /\ given' = Append(given, m)
      /\ \/ /\ m.kind = "candidate" /\ m.peer \notin keys
            /\ held' = [held EXCEPT ![m.peer] = Append(@, n)]
            /\ UNCHANGED <<queue, sent>>
         \/ /\ m.kind = "candidate" => m.peer \in keys
            /\ Connected /\ sent' = Append(sent, n)
            /\ UNCHANGED <<queue, held>>
         \/ /\ m.kind = "candidate" => m.peer \in keys
            /\ ~Connected
            /\ queue' = Append(IF full THEN Tail(queue) ELSE queue, n)
            /\ UNCHANGED <<sent, held>>

\* mutant: what has expired is skipped and stays
FlushFresh ==
  sent' = sent \o Fresh(queue) /\ queue' = Filtered(queue, 1 .. aged)

\* mutant: the newest frame goes first
FlushNewestFirst == sent' = sent \o Reverse(Fresh(queue)) /\ queue' = <<>>

\* flushQueue() when the socket has opened
FlushQueue == sent' = sent \o Fresh(queue) /\ queue' = <<>>

FlushPendingIce(p) ==
  /\ held' = [held EXCEPT ![p] = <<>>]
  /\ \/ Connected /\ sent' = sent \o Fresh(held[p]) /\ UNCHANGED queue
     \/ ~Connected /\ queue' = queue \o Fresh(held[p]) /\ UNCHANGED sent

Negotiation(n) == given[n].kind \in {"negotiation", "candidate"}
NegotiationFor(p) == {n \in DOMAIN given : given[n].peer = p /\ Negotiation(n)}

\* mutant: the candidates held back for the peer's key are forgotten
DiscardQueuedOnly(p) ==
  /\ queue' = Filtered(queue, DOMAIN given \ NegotiationFor(p))
  /\ UNCHANGED held

DiscardQueuedNegotiationFor(p) ==
  /\ queue' = Filtered(queue, DOMAIN given \ NegotiationFor(p))
  /\ held' = [held EXCEPT ![p] = <<>>]

Message(k, p) == [kind |-> k, peer |-> p]
MayGive == Len(given) + Cardinality(awaiting) < MaxFrames

-----------------------------------------------------------------------------
(* What the services do with it.                                           *)

\* ConnectionService.start(), and every other call of ensureWsSignaling()
Start == EnsureWsSignaling /\ UNCHANGED <<outVars, serviceVars, worldVars>>

\* setSignalingToken(): the user signs in or out, or the token is refreshed
SetToken(t) ==
  /\ t # token /\ t \in {0, issued + 1}
  /\ token' = t /\ issued' = IF t = 0 THEN issued ELSE t
  /\ \/ Connected /\ (~allowed \/ t = 0) /\ Disconnect
     \/ /\ ~(Connected /\ (~allowed \/ t = 0))
        /\ UNCHANGED <<connVars, queue>>
  /\ UNCHANGED <<held, given, sent, forsaken, aged, awaiting, keys, allowed,
                 chatTab, lookup, worldVars>>

\* ConnectionService.stop()
Stop ==
  /\ Disconnect
  /\ UNCHANGED <<held, given, sent, forsaken, aged, awaiting, keys,
                 serviceVars, worldVars>>

\* The mode is set to LAN; the public chat closes the socket if it is mounted.
SwitchToLan ==
  /\ allowed /\ allowed' = FALSE
  /\ \/ chatTab /\ Disconnect
     \/ ~chatTab /\ UNCHANGED <<connVars, queue>>
  /\ UNCHANGED <<held, given, sent, forsaken, aged, awaiting, keys, token,
                 issued, chatTab, lookup, worldVars>>

SwitchToServer ==
  /\ ~allowed /\ allowed' = TRUE
  /\ lookup' = (lookup \/ (chatTab /\ ~Connected))
  /\ UNCHANGED <<connVars, outVars, token, issued, chatTab, worldVars>>

\* usePublicChat() mounts: it looks for the stored token, ...
OpenPublicChat ==
  /\ ~chatTab /\ chatTab' = TRUE
  /\ \/ allowed /\ lookup' = ~Connected /\ UNCHANGED <<connVars, queue>>
     \/ ~allowed /\ Disconnect /\ UNCHANGED lookup
  /\ UNCHANGED <<held, given, sent, forsaken, aged, awaiting, keys, token,
                 issued, allowed, worldVars>>

\* ... and connects with what it finds, whatever the mode is by then.
LookupEnds ==
  /\ lookup /\ lookup' = FALSE
  /\ \/ token # 0 /\ Connect(token)
     \/ token = 0 /\ UNCHANGED connVars
  /\ UNCHANGED <<outVars, token, issued, allowed, chatTab, worldVars>>

\* sendCallMessage(), and sendSignalingMessage() with nothing to wait for
Send(k, p) ==
  /\ k # "chat" /\ Configured /\ MayGive
  /\ EnsureWsSignaling /\ Hand(Message(k, p))
  /\ UNCHANGED <<forsaken, aged, awaiting, keys, serviceVars, worldVars>>

\* sendChatMessage(), sendAckMessage() and sendSeenMessage(): only when open
SendChat(p) ==
  /\ Configured /\ MayGive
  /\ EnsureWsSignaling
  /\ \/ Connected /\ Hand(Message("chat", p))
     \/ ~Connected /\ UNCHANGED frameVars
  /\ UNCHANGED <<forsaken, aged, awaiting, keys, serviceVars, worldVars>>

\* sendSignalingMessage() of an offer whose credential is about to expire ...
AwaitCredential(p) ==
  /\ Configured /\ MayGive /\ p \notin awaiting
  /\ EnsureWsSignaling /\ awaiting' = awaiting \cup {p}
  /\ UNCHANGED <<frameVars, forsaken, aged, keys, serviceVars, worldVars>>

\* ... and its end: the adapter is given the offer in whatever state it is.
CredentialReady(p) ==
  /\ p \in awaiting /\ awaiting' = awaiting \ {p}
  /\ Hand(Message("negotiation", p))
  /\ UNCHANGED <<connVars, forsaken, aged, keys, serviceVars, worldVars>>

\* ConnectionService.terminateCallConnection()
TearDown(p) ==
  /\ DiscardQueuedNegotiationFor(p)
  /\ forsaken' = forsaken \cup {n \in NegotiationFor(p) : ~Contains(sent, n)}
  /\ UNCHANGED <<connVars, given, sent, aged, awaiting, keys, serviceVars, worldVars>>

\* A credential comes with a signal of p, over the socket or over TCP.
KeyArrives(p) ==
  /\ p \notin keys /\ keys' = keys \cup {p} /\ FlushPendingIce(p)
  /\ UNCHANGED <<connVars, given, forsaken, aged, awaiting, serviceVars, worldVars>>

\* The key is learnt in a TCP handshake or with the contacts: nothing is flushed.
KeyLearnt(p) ==
  /\ p \notin keys /\ keys' = keys \cup {p}
  /\ UNCHANGED <<connVars, frameVars, forsaken, aged, awaiting, serviceVars, worldVars>>

-----------------------------------------------------------------------------
(* The native sockets and the timers.                                      *)

\* mutant: the heartbeat is not started
SocketOpensUnwatched(s) ==
  /\ s \in dialing /\ up /\ IsCurrent(s)
  /\ dialing' = dialing \ {s} /\ opened' = opened \cup {s}
  /\ attempts' = 0 /\ state' = "open" /\ pending' = FALSE
  /\ FlushQueue
  /\ UNCHANGED <<beatVars, socket, epoch, closing, zombie, timer, manual,
                 options, held, given, forsaken, aged, awaiting, keys,
                 serviceVars, worldVars>>

\* onopen
SocketOpens(s) ==
  /\ s \in dialing /\ up /\ IsCurrent(s)
  /\ dialing' = dialing \ {s} /\ opened' = opened \cup {s}
  /\ attempts' = 0 /\ state' = "open" /\ pending' = FALSE
  /\ FlushQueue
  /\ heartbeat' = TRUE /\ pongDue' = FALSE
  /\ UNCHANGED <<socket, epoch, closing, zombie, timer, manual, options, held,
                 given, forsaken, aged, awaiting, keys, serviceVars, worldVars>>

\* onerror and onclose: no network, a token that was replaced, a dead path
SocketFails(s) ==
  /\ \/ s \in dialing /\ (~up \/ options # issued)
     \/ s \in zombie
  /\ dialing' = dialing \ {s} /\ opened' = opened \ {s} /\ zombie' = zombie \ {s}
  /\ pending' = (pending /\ ~IsCurrent(s))
  /\ OnClose(s)
  /\ UNCHANGED <<epoch, closing, manual, options, outVars, serviceVars, worldVars>>

\* The server ends a connection that works.
ServerCloses(s) ==
  /\ s \in opened \ zombie /\ opened' = opened \ {s}
  /\ OnClose(s)
  /\ UNCHANGED <<epoch, pending, dialing, closing, zombie, manual, options,
                 outVars, serviceVars, worldVars>>

\* The close event of a socket the device has closed.
SocketClosed(s) ==
  /\ s \in closing /\ closing' = closing \ {s}
  /\ OnClose(s)
  /\ UNCHANGED <<epoch, pending, dialing, opened, zombie, manual, options,
                 outVars, serviceVars, worldVars>>

ReconnectTimer ==
  /\ timer /\ ~manual
  /\ Connect(options)
  /\ UNCHANGED <<outVars, serviceVars, worldVars>>

\* A ping; on a path that works its pong comes in time and changes nothing.
Ping ==
  /\ heartbeat /\ socket \in zombie /\ ~pongDue
  /\ pongDue' = TRUE
  /\ UNCHANGED <<socketVars, retryVars, heartbeat, outVars, serviceVars, worldVars>>

HeartbeatTimeout ==
  /\ pongDue /\ pongDue' = FALSE
  /\ Connected /\ CloseSockets({socket})
  /\ UNCHANGED <<socket, state, epoch, pending, dialing, retryVars, heartbeat,
                 outVars, serviceVars, worldVars>>

NetworkLost ==
  /\ up /\ up' = FALSE /\ zombie' = opened
  /\ UNCHANGED <<socket, state, epoch, pending, dialing, opened, closing,
                 retryVars, beatVars, outVars, serviceVars, outageSeen>>

NetworkBack ==
  /\ ~up /\ up' = TRUE
  /\ UNCHANGED <<connVars, outVars, serviceVars, outageSeen>>

\* NetInfo reports the outage, if it lasts long enough to be seen.
OutageSeen ==
  /\ ~up /\ ~outageSeen /\ outageSeen' = TRUE
  /\ UNCHANGED <<connVars, outVars, serviceVars, up>>

\* restartWsSignalingAfterNetworkRegain(): the reset and the new connection
NetworkRegained ==
  /\ up /\ outageSeen /\ outageSeen' = FALSE
  /\ \/ Configured /\ Dial(token, epoch + 2, {socket}) /\ attempts' = 0
     \/ ~Configured /\ UNCHANGED connVars
  /\ UNCHANGED <<outVars, serviceVars, up>>

\* 20 s pass for the oldest messages.
TimePasses ==
  /\ \E n \in aged + 1 .. Len(given) : aged' = n
  /\ UNCHANGED <<connVars, frameVars, forsaken, awaiting, keys, serviceVars, worldVars>>

-----------------------------------------------------------------------------
UserNext ==
  \/ Start \/ Stop \/ SwitchToLan \/ SwitchToServer \/ OpenPublicChat
  \/ \E t \in {0, issued + 1} : SetToken(t)
  \/ \E p \in Peers : \/ \E k \in Kinds : Send(k, p)
                      \/ SendChat(p) \/ AwaitCredential(p) \/ TearDown(p)

DeviceNext ==
  \/ LookupEnds \/ ReconnectTimer \/ Ping \/ HeartbeatTimeout \/ NetworkRegained
  \/ \E p \in Peers : CredentialReady(p)
  \/ \E s \in dialing : SocketOpens(s)
  \/ \E s \in dialing \cup zombie : SocketFails(s)
  \/ \E s \in closing : SocketClosed(s)

WorldNext ==
  \/ NetworkLost \/ NetworkBack \/ OutageSeen \/ TimePasses
  \/ \E p \in Peers : KeyArrives(p) \/ KeyLearnt(p)
  \/ \E s \in opened : ServerCloses(s)

Next == UserNext \/ DeviceNext \/ WorldNext
Spec == Init /\ [][Next]_vars

\* Timers fire and events arrive; users and the network need not do anything.
Fairness ==
  /\ WF_vars(LookupEnds) /\ WF_vars(ReconnectTimer) /\ WF_vars(NetworkRegained)
  /\ WF_vars(Ping) /\ WF_vars(HeartbeatTimeout)
  /\ WF_vars(\E p \in Peers : CredentialReady(p))
  /\ WF_vars(\E s \in dialing : SocketOpens(s) \/ SocketFails(s))
  /\ WF_vars(\E s \in closing : SocketClosed(s))

-----------------------------------------------------------------------------
(* Type correctness: numbers of sockets and frames are ones handed out. *)
SocketTypeOK ==
  /\ epoch \in Nat /\ socket \in 0 .. epoch /\ state \in States
  /\ attempts \in 0 .. MaxAttempts /\ options \in 0 .. issued
  /\ token \in {0, issued} /\ issued \in Nat
  /\ dialing \subseteq 1 .. epoch /\ opened \subseteq 1 .. epoch
  /\ closing \subseteq 1 .. epoch /\ zombie \subseteq opened

FlagTypeOK ==
  /\ pending \in BOOLEAN /\ timer \in BOOLEAN /\ manual \in BOOLEAN
  /\ heartbeat \in BOOLEAN /\ pongDue \in BOOLEAN
  /\ allowed \in BOOLEAN /\ chatTab \in BOOLEAN /\ lookup \in BOOLEAN
  /\ up \in BOOLEAN /\ outageSeen \in BOOLEAN

FrameTypeOK ==
  /\ awaiting \subseteq Peers /\ keys \subseteq Peers
  /\ given \in Seq([kind : Kinds, peer : Peers])
  /\ queue \in Seq(DOMAIN given) /\ held \in [Peers -> Seq(DOMAIN given)]
  /\ sent \in Seq(DOMAIN given) /\ forsaken \subseteq DOMAIN given
  /\ aged \in 0 .. Len(given)

TypeOK == SocketTypeOK /\ FlagTypeOK /\ FrameTypeOK

(* Of the sockets the device has opened only the one the adapter holds is
   not closed: connect(), the reset after an outage and disconnect() close
   the one they replace, or it would stay open on the server beside its
   successor. *)
NoOrphanSocket == dialing \cup opened \subseteq {socket}

GaveUp == socket = 0 /\ ~timer /\ attempts = MaxAttempts

(* An adapter that is to be connected and has no socket has a reconnect
   ahead of it, or has used up its attempts and said so: no late event of
   an older socket takes the timer or the socket of the newer one away. *)
NeverStranded == options # 0 /\ socket = 0 => timer \/ GaveUp

(* What was waiting to be written to a peer when the call with it was torn
   down is never written: neither what is queued nor the candidates held
   back for its key. *)
TornDownIsNotReplayed == \A n \in forsaken : ~Contains(sent, n)

(* No frame is written twice, and those that need no key are written in the
   order in which the adapter was given them, across reconnects, overflow and
   expiry of the queue. *)
InOrder ==
  \A i, j \in DOMAIN sent : i < j =>
    /\ sent[i] # sent[j]
    /\ "candidate" \notin {given[sent[i]].kind, given[sent[j]].kind}
         => sent[i] < sent[j]

(* A socket whose path is gone does not stay the adapter's socket: its
   heartbeat finds out, or the operating system, or NetInfo. *)
ZombieIsReplaced == (socket \in zombie) ~> (socket \notin zombie)

(* What is queued is written or dropped, unless the adapter gives up or is
   disconnected: it is not left waiting for a connection nobody opens. *)
QueuedIsSettled ==
  (queue # <<>>) ~> (queue = <<>> \/ GaveUp \/ options = 0)
=============================================================================
