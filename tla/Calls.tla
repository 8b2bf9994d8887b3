-------------------------------- MODULE Calls --------------------------------
(***************************************************************************)
(* Calls between phones, from the first tap to the released call:          *)
(* CallService, the call part of ConnectionService, CallMessageRouter and  *)
(* the hooks and screens that own the ring and the call room               *)
(* (mobile-app: features/call, features/shared/connection, app/.../call).  *)
(*                                                                         *)
(* An async function is a task of its device; what it does between two     *)
(* awaits is one step, and events come in between.  Media and negotiation  *)
(* are a connection that comes up or does not.  Of what is stored of a     *)
(* call its row's status is kept; its log message is not.                  *)
(***************************************************************************)
EXTENDS Integers, Sequences, FiniteSets

CONSTANTS Users, NoUser, NoCall,
          rank,       \* the order of the user ids
          MaxCalls,   \* bound on the calls a device makes an id for
          MaxTaps,    \* bound on what each user does
          MaxLosses   \* bound on lost messages, failed calls and outages

Calls == Users \X (1 .. MaxCalls)

ASSUME CallsAssumption ==
  /\ NoUser \notin Users /\ NoCall \notin Calls
  /\ rank \in [Users -> Nat]
  /\ \A u, p \in Users : rank[u] = rank[p] => u = p
  /\ MaxCalls \in Nat /\ MaxTaps \in Nat /\ MaxLosses \in Nat

VARIABLES
  session,    \* callSessions of each device, by peer
  marker,     \* activeCallPeerId: with whom the device is busy
  glare,      \* glareAcceptedPeers
  listener,   \* the peer whose call-ready the service waits for
  ring,       \* incomingCall: the ring under way
  shown,      \* the ring the incoming-call screen was last opened for
  rung,       \* registeredRingRef: the last ring registered
  room,       \* the call room: useCallLifecycle()
  connected,  \* connectedStateByPeer
  wire,       \* peers the device has a WebRTC connection with
  media,      \* peers whose stream is about to arrive
  stream,     \* remoteStream: the service holds a stream
  rows,       \* the status of each call in the device's database
  made,       \* the calls the device has made an id for
  tasks,      \* the async functions under way
  net,        \* messages on their way, by sender and receiver
  answered,   \* history: the calls a callee accepted
  started,    \* history: the calls a negotiation was started for
  invites,    \* history: how often the device prepared for a call-ready
  starts,     \* history: how often the device started a negotiation
  elsewhere,  \* history: <<u, p>> when u, in a call with a third phone, told p so
  taps, losses

callVars   == <<session, marker, glare, listener, connected>>
ringVars   == <<ring, shown, rung>>
screenVars == <<ringVars, room>>
linkVars   == <<wire, media, stream>>
storeVars  == <<rows, made>>
historyVars == <<answered, started, invites, starts, elsewhere>>
vars == <<callVars, screenVars, linkVars, storeVars, tasks, net, historyVars,
          taps, losses>>

NoSession == [call |-> NoCall, incoming |-> FALSE, answered |-> FALSE]
NoRing    == [from |-> NoUser, call |-> NoCall]
Room(p, state) == [peer |-> p, state |-> state, terminated |-> FALSE,
                   rejected |-> FALSE]

Init ==
  /\ session = [u \in Users |-> [p \in Users |-> NoSession]]
  /\ marker = [u \in Users |-> NoUser] /\ glare = [u \in Users |-> {}]
  /\ listener = [u \in Users |-> NoUser]
  /\ ring = [u \in Users |-> NoRing] /\ rung = [u \in Users |-> NoRing]
  /\ shown = [u \in Users |-> NoRing] /\ stream = [u \in Users |-> FALSE]
  /\ room = [u \in Users |-> Room(NoUser, "none")]
  /\ connected = [u \in Users |-> {}]
  /\ wire = [u \in Users |-> {}] /\ media = [u \in Users |-> {}]
  /\ rows = [u \in Users |-> [c \in Calls |-> "none"]]
  /\ made = [u \in Users |-> 0] /\ tasks = [u \in Users |-> {}]
  /\ net = [u \in Users |-> [p \in Users |-> <<>>]]
  /\ answered = {} /\ started = {} /\ elsewhere = {}
  /\ invites = [u \in Users |-> 0] /\ starts = [u \in Users |-> 0]
  /\ taps = [u \in Users |-> 0] /\ losses = 0

\* op: the function and the await it is at; ui: what the screen does at its end.
Task(op, p, c, status, ui) ==
  [op |-> op, peer |-> p, call |-> c, status |-> status, ui |-> ui]
Message(type, c, status) == [type |-> type, call |-> c, status |-> status]

Active(u, p) == session[u][p] # NoSession

Taps(u)  == taps[u] < MaxTaps /\ taps' = [taps EXCEPT ![u] = @ + 1]
Fails    == losses < MaxLosses /\ losses' = losses + 1
Becomes(u, t, more) == tasks' = [tasks EXCEPT ![u] = (@ \ {t}) \cup more]
Adds(u, more) == tasks' = [tasks EXCEPT ![u] = @ \cup more]
Send(u, p, m) == net' = [net EXCEPT ![u][p] = Append(@, m)]
Hear(u, p)    == net' = [net EXCEPT ![p][u] = Tail(@)]

-----------------------------------------------------------------------------
(* CallService: sessions                                                   *)

\* The end of ensureSession(): the row is saved, the session stored, whatever
\* was stored since it looked.
Store(u, p, c, incoming, accepted) ==
  /\ rows' = [rows EXCEPT ![u][c] = "initiating"]
  /\ session' = [session EXCEPT ![u][p] =
       [call |-> c, incoming |-> incoming, answered |-> accepted]]

\* The id of a call that comes without one.
Fresh(u, c) ==
  /\ made[u] < MaxCalls /\ made' = [made EXCEPT ![u] = @ + 1]
  /\ c = <<u, made[u] + 1>>

\* mutant: a call that was not answered counts as completed
FinalStatusCompleted(reason, s) == IF reason # "none" THEN reason ELSE "completed"

\* resolveFinalStatus()
FinalStatus(reason, s) ==
  IF reason # "none" THEN reason
  ELSE IF s.answered THEN "completed" ELSE "missed"

\* terminateCallConnection() of CallService up to the await of
\* finalizeSession(); the media and the connection go at once.
Ending(u, p, reason, ui) ==
  Task("end", p, session[u][p].call, FinalStatus(reason, session[u][p]), ui)

TearDown(u, p, live) ==
  LET gone == IF live \/ p \in connected[u] THEN {p} ELSE {}
  IN  /\ wire' = [wire EXCEPT ![u] = @ \ gone]
      /\ media' = [media EXCEPT ![u] = @ \ gone] /\ UNCHANGED stream

\* peer-disconnected: emitted for the active call when its adapter is evicted;
\* a room that is not terminated looks again after 1.5 seconds.
Dropping(u, p) ==
  IF marker[u] = p /\ room[u].peer = p /\ ~room[u].terminated
    THEN {Task("drop", p, NoCall, "none", FALSE)} ELSE {}

\* mutant: the teardown does not release the marker
NotReleased(u, p) == marker[u]

\* clearActiveCall(): only of the peer that owns the marker.
Released(u, p) == IF marker[u] = p THEN NoUser ELSE marker[u]

\* releasePerCallResources(): the finally of every teardown.
Release(u, p) ==
  /\ listener' = [listener EXCEPT ![u] = NoUser]
  /\ connected' = [connected EXCEPT ![u] = @ \ {p}]
  /\ stream' = [stream EXCEPT ![u] = FALSE]

\* setActiveCall(null) empties the set of accepted glares.
GlareKept(u, m) == IF m = marker[u] THEN glare[u] ELSE {}

\* The sessions of u when one with p is retired.
Retired(u, t) == IF t.call = NoCall THEN session[u]
                 ELSE [session[u] EXCEPT ![t.peer] = NoSession]

Settled(u, t) ==
  rows' = IF t.call = NoCall THEN rows
          ELSE [rows EXCEPT ![u][t.call] = t.status]

\* The cleanup of the ring's effect: a live call keeps the marker.
OutOfRing(u, s, m) ==
  IF m = ring[u].from /\ m # NoUser /\ s[m] = NoSession THEN NoUser ELSE m

\* clearIncomingCall(), and the incoming-call screen that registers what it was
\* opened for in the meantime; m is the marker, s the sessions.
RingCleared(u, s, m) ==
  LET next == IF shown[u] # rung[u] THEN shown[u] ELSE NoRing
      left == OutOfRing(u, s, m)
  IN  /\ ring' = [ring EXCEPT ![u] = next]
      /\ rung' = [rung EXCEPT ![u] = shown[u]]
      /\ glare' = [glare EXCEPT ![u] = GlareKept(u, left)]
      /\ marker' = [marker EXCEPT ![u] = IF next = NoRing THEN left ELSE next.from]
      /\ UNCHANGED shown

\* finalizeSession() is done: the session is deleted, the peer told, the rest
\* released; the ring's owner clears the ring.
EndDone(u, t) ==
  /\ t.op = "end" /\ Becomes(u, t, {})
  /\ session' = [session EXCEPT ![u] = Retired(u, t)] /\ Settled(u, t)
  /\ Send(u, t.peer, Message("ended", t.call, t.status))
  /\ Release(u, t.peer)
  /\ LET m == Released(u, t.peer)
     IN  IF t.ui THEN RingCleared(u, Retired(u, t), m)
         ELSE /\ marker' = [marker EXCEPT ![u] = m]
              /\ glare' = [glare EXCEPT ![u] = GlareKept(u, m)]
              /\ UNCHANGED ringVars
  /\ UNCHANGED <<room, wire, media, made, historyVars, taps, losses>>

\* handleRemoteCallEnded() is done; the room shows what became of the call.
RemoteEndDone(u, t) ==
  /\ t.op = "ended" /\ Becomes(u, t, {})
  /\ session' = [session EXCEPT ![u] = Retired(u, t)] /\ Settled(u, t)
  /\ Release(u, t.peer)
  /\ LET m == Released(u, t.peer)
     IN  /\ marker' = [marker EXCEPT ![u] = m]
         /\ glare' = [glare EXCEPT ![u] = GlareKept(u, m)]
  /\ room' = [room EXCEPT ![u].state =
       IF ~t.ui \/ room[u].rejected THEN @
       ELSE IF t.status = "missed" THEN "no-answer" ELSE "ended"]
  /\ UNCHANGED <<ringVars, wire, media, made, net, historyVars, taps, losses>>

-----------------------------------------------------------------------------
(* The caller                                                              *)

\* informPeerForIncomingCall() up to its first await.
Informs(u, p, ui) ==
  /\ p # u
  /\ \A t \in tasks[u] : t.op \notin {"inform", "invite"}
  /\ IF Active(u, p)
       THEN /\ marker' = [marker EXCEPT ![u] = p]
            /\ Adds(u, {Task("invite", p, session[u][p].call, "none", ui)})
            /\ UNCHANGED stream
       ELSE /\ Adds(u, {Task("inform", p, NoCall, "none", ui)})
            /\ stream' = [stream EXCEPT ![u] = FALSE] /\ UNCHANGED marker
  /\ UNCHANGED <<session, glare, listener, connected, ringVars, wire, media,
                 storeVars, net, historyVars, losses>>

\* resetCallState(): the room is the new call's, and takes over a stream that is
\* there already.
Opened(u, p) == Room(p, IF stream[u] THEN "connected" ELSE "calling")

\* useInformCall(): the room opens, then the call is prepared.
PlaceCall(u, p) ==
  /\ Taps(u) /\ Informs(u, p, FALSE)
  /\ room' = [room EXCEPT ![u] = Opened(u, p)]

\* handleCallAgain()
CallAgain(u) ==
  /\ room[u].state \in {"no-answer", "busy"}
  /\ \E p \in Users : room[u].peer = p /\ Taps(u) /\ Informs(u, p, TRUE)
  /\ UNCHANGED room

InformStored(u, t) ==
  /\ t.op = "inform"
  /\ \E c \in Calls : /\ Fresh(u, c) /\ Store(u, t.peer, c, FALSE, FALSE)
                      /\ Becomes(u, t, {[t EXCEPT !.op = "invite", !.call = c]})
  /\ marker' = [marker EXCEPT ![u] = t.peer]
  /\ UNCHANGED <<glare, listener, connected, screenVars, linkVars, net,
                 historyVars, taps, losses>>

\* The handlers of the peer's answer are registered.
Prepares(u, t) ==
  /\ listener' = [listener EXCEPT ![u] = t.peer]
  /\ invites' = [invites EXCEPT ![u] = @ + 1]
  /\ UNCHANGED <<answered, started, starts, elsewhere>>

\* The transport is ready: the invitation goes out.
Invite(u, t) ==
  /\ t.op = "invite" /\ Becomes(u, t, {}) /\ Prepares(u, t)
  /\ Send(u, t.peer, Message("call", t.call, "none"))
  /\ room' = [room EXCEPT ![u] = IF t.ui THEN Room(@.peer, "calling") ELSE @]
  /\ UNCHANGED <<session, marker, glare, connected, ringVars, linkVars,
                 storeVars, taps, losses>>

\* No transport: the preparation throws, or the send does and the call ends.
InviteFails(u, t) ==
  /\ t.op = "invite" /\ Fails
  /\ \/ Becomes(u, t, {}) /\ UNCHANGED <<linkVars, listener, historyVars>>
     \/ /\ Becomes(u, t, {Ending(u, t.peer, "missed", FALSE)} \cup Dropping(u, t.peer))
        /\ TearDown(u, t.peer, Active(u, t.peer)) /\ Prepares(u, t)
  /\ UNCHANGED <<session, marker, glare, connected, screenVars, storeVars, net,
                 taps>>

\* mutant: the call-ready handler stays registered
ListenerStays(u) == listener[u]

ListenerAfterReady(u) == NoUser

\* mutant: the call-ready of any call starts this one
ReadyOfAnyCall(u, p, c) == listener[u] = p /\ Active(u, p)

\* The callReadyHandler: its peer, a session, and the session's call.
ReadyAccepted(u, p, c) ==
  listener[u] = p /\ Active(u, p) /\ session[u][p].call = c

\* Then startCall(), up to connect(), unless the call is connected already.
HearReady(u, p, m) ==
  /\ m.type = "ready" /\ Hear(u, p)
  /\ IF ReadyAccepted(u, p, m.call)
       THEN /\ listener' = [listener EXCEPT ![u] = ListenerAfterReady(u)]
            /\ IF p \in connected[u] \cap wire[u] THEN UNCHANGED <<tasks, started, starts>>
               ELSE LET c == session[u][p].call
                    IN  /\ Adds(u, {Task("start", p, c, "none", FALSE)})
                        /\ started' = started \cup {c}
                        /\ starts' = [starts EXCEPT ![u] = @ + 1]
       ELSE UNCHANGED <<listener, tasks, started, starts>>
  /\ UNCHANGED <<session, marker, glare, connected, screenVars, linkVars,
                 storeVars, answered, invites, elsewhere, taps, losses>>

\* connect(), initializeStream() and renegotiate() succeed.
StartConnects(u, t) ==
  /\ t.op = "start" /\ Becomes(u, t, {})
  /\ wire' = [wire EXCEPT ![u] = @ \cup {t.peer}, ![t.peer] = @ \cup {u}]
  /\ media' = [media EXCEPT ![u] = @ \cup {t.peer}, ![t.peer] = @ \cup {u}]
  /\ session' = [session EXCEPT ![u][t.peer].answered =
                   @ \/ session[u][t.peer].call = t.call]
  /\ connected' = [connected EXCEPT ![u] = @ \cup {t.peer}]
  /\ UNCHANGED <<marker, glare, listener, screenVars, stream, storeVars, net,
                 historyVars, taps, losses>>

StartFails(u, t) ==
  /\ t.op = "start" /\ Fails
  /\ IF t.peer \in connected[u] THEN Becomes(u, t, {}) /\ UNCHANGED linkVars
     ELSE /\ Becomes(u, t, {Ending(u, t.peer, "missed", FALSE)} \cup Dropping(u, t.peer))
          /\ TearDown(u, t.peer, Active(u, t.peer))
  /\ UNCHANGED <<callVars, screenVars, storeVars, net, historyVars, taps>>

-----------------------------------------------------------------------------
(* The callee                                                              *)

\* mutant: no tie-break, both sides of a glare reject
BusyWithAnyone(u, p) == marker[u] # NoUser

\* shouldBusyRejectIncomingCall()
BusyFor(u, p) == marker[u] # NoUser /\ (marker[u] # p \/ rank[u] > rank[p])

HearCall(u, p, m) ==
  /\ m.type = "call"
  /\ IF BusyFor(u, p)
       THEN /\ net' = [net EXCEPT ![p][u] = Tail(@),
                      ![u][p] = Append(@, Message("rejected", m.call, "busy"))]
            /\ elsewhere' = elsewhere \cup
                 (IF marker[u] = p THEN {} ELSE {<<u, p>>})
            /\ UNCHANGED tasks
       ELSE /\ Adds(u, {Task("notify", p, m.call, "none", FALSE)}) /\ Hear(u, p)
            /\ UNCHANGED elsewhere
  /\ UNCHANGED <<callVars, screenVars, linkVars, storeVars, answered, started,
                 invites, starts, taps, losses>>

Accepting(u) == \E t \in tasks[u] : t.op \in {"answer", "media", "channel"}

\* The notification is posted; the event opens the incoming-call screen unless
\* it is the screen in front, and the screen registers its ring once.
Notified(u, t) ==
  /\ t.op = "notify" /\ Becomes(u, t, {})
  /\ LET asked  == [from |-> t.peer, call |-> t.call]
         glares == IF marker[u] = t.peer THEN {t.peer} ELSE {}
     IN  /\ glare' = [glare EXCEPT ![u] = @ \cup glares]
         /\ \/ /\ ring[u] # NoRing /\ ~Accepting(u)
               /\ UNCHANGED <<ringVars, marker>>
            \/ /\ shown' = [shown EXCEPT ![u] = asked]
               /\ IF ring[u] = NoRing /\ rung[u] # asked
                    THEN /\ ring' = [ring EXCEPT ![u] = asked]
                         /\ rung' = [rung EXCEPT ![u] = asked]
                         /\ marker' = [marker EXCEPT ![u] = t.peer]
                    ELSE UNCHANGED <<ring, rung, marker>>
  /\ UNCHANGED <<session, listener, connected, room, linkVars, storeVars, net,
                 historyVars, taps, losses>>

\* answerCall() with the session stored: media first, then call-ready.
Answers(u, p) == Task("media", p, session[u][p].call, "none", FALSE)

\* handleAccept() up to the first await of answerCall(); the room opens.
Accept(u) ==
  LET p == shown[u].from IN
  /\ ring[u] # NoRing /\ Taps(u)
  /\ \A t \in tasks[u] : t.op \notin {"answer", "media", "channel", "reject"}
  /\ room' = [room EXCEPT ![u] = Opened(u, p)]
  /\ IF Active(u, p)
       THEN /\ session' = [session EXCEPT ![u][p].answered = TRUE]
            /\ marker' = [marker EXCEPT ![u] = p] /\ Adds(u, {Answers(u, p)})
            /\ answered' = answered \cup {session[u][p].call} /\ UNCHANGED stream
       ELSE /\ Adds(u, {Task("answer", p, shown[u].call, "none", FALSE)})
            /\ stream' = [stream EXCEPT ![u] = FALSE]
            /\ UNCHANGED <<session, marker, answered>>
  /\ UNCHANGED <<glare, listener, connected, ringVars, wire, media, storeVars,
                 net, started, invites, starts, elsewhere, losses>>

\* A call whose row exists cannot be created again: the answer fails.
AnswerStored(u, t) ==
  /\ t.op = "answer"
  /\ IF rows[u][t.call] = "none"
       THEN /\ Store(u, t.peer, t.call, TRUE, TRUE)
            /\ marker' = [marker EXCEPT ![u] = t.peer]
            /\ Becomes(u, t, {[t EXCEPT !.op = "media"]})
            /\ answered' = answered \cup {t.call}
       ELSE Becomes(u, t, {}) /\ UNCHANGED <<session, marker, rows, answered>>
  /\ UNCHANGED <<glare, listener, connected, screenVars, linkVars, made, net,
                 started, invites, starts, elsewhere, taps, losses>>

Ready(u, t) ==
  /\ t.op = "media"
  /\ \/ /\ Send(u, t.peer, Message("ready", t.call, "none"))
        /\ Becomes(u, t, {[t EXCEPT !.op = "channel"]})
        /\ UNCHANGED losses
     \/ Fails /\ Becomes(u, t, {}) /\ UNCHANGED net
  /\ UNCHANGED <<callVars, screenVars, linkVars, storeVars, historyVars, taps>>

\* The data channel opened in time, or did not: then the ring is shown again.
Channel(u, t) ==
  /\ t.op = "channel" /\ Becomes(u, t, {})
  /\ \/ /\ t.peer \in wire[u]
        /\ connected' = [connected EXCEPT ![u] = @ \cup {t.peer}]
        /\ RingCleared(u, session[u], marker[u])
     \/ /\ t.peer \notin wire[u]
        /\ UNCHANGED <<connected, ringVars, marker, glare>>
  /\ UNCHANGED <<session, listener, room, linkVars, storeVars, net, historyVars,
                 taps, losses>>

\* rejectIncomingCall() and markMissedIncomingCall() with a session at hand.
Declined(u, op, p, t, c) ==
  /\ TearDown(u, p, TRUE)
  /\ LET status == IF op = "reject" THEN "rejected" ELSE "missed"
     IN  Becomes(u, t, {Task("end", p, c, status, TRUE)} \cup Dropping(u, p))
  /\ IF op = "reject" THEN Send(u, p, Message("rejected", NoCall, "declined"))
     ELSE UNCHANGED net

Declines(u, op, p) ==
  LET t == Task(op, p, NoCall, "none", TRUE) IN
  /\ ring[u] # NoRing
  /\ \A other \in tasks[u] : other.op # op /\ ~(other.op = "end" /\ other.ui)
  /\ IF Active(u, p) THEN Declined(u, op, p, t, session[u][p].call)
     ELSE /\ Adds(u, {t}) /\ stream' = [stream EXCEPT ![u] = FALSE]
          /\ UNCHANGED <<wire, media, net>>
  /\ UNCHANGED <<callVars, screenVars, storeVars, historyVars, losses>>

Reject(u) == Taps(u) /\ ~Accepting(u) /\ Declines(u, "reject", shown[u].from)

\* The ring's timer of 30 seconds.
RingTimeout(u) == Declines(u, "miss", ring[u].from) /\ UNCHANGED taps

\* The session that is declined is made for it, unless a call is there by now.
DeclineStored(u, t) ==
  /\ t.op \in {"reject", "miss"}
  /\ \E c \in Calls : /\ Fresh(u, c) /\ Store(u, t.peer, c, TRUE, FALSE)
                      /\ Declined(u, t.op, t.peer, t, c)
  /\ UNCHANGED <<marker, glare, listener, connected, screenVars, historyVars,
                 taps, losses>>

-----------------------------------------------------------------------------
(* The end of a call, and the room                                         *)

\* useCallLifecycle(): the end of a call that is not the one under way.
Stale(u, p, m) ==
  m.call # NoCall /\ Active(u, p) /\ m.call # session[u][p].call

\* The listeners of call-ended: the ring's, the room's, and the global one,
\* which leaves a peer with a session to the others.
HearEnded(u, p, m) ==
  LET rings  == ring[u].from = p
      inRoom == room[u].peer = p /\ ~Stale(u, p, m)
      ends   == Task("ended", p, session[u][p].call, m.status, inRoom)
  IN
  /\ m.type = "ended" /\ Hear(u, p)
  /\ marker' = [marker EXCEPT ![u] = IF rings THEN NoUser ELSE @]
  /\ glare' = [glare EXCEPT ![u] = IF rings THEN {} ELSE @]
  /\ Adds(u, (IF rings THEN {Task("dismiss", p, NoCall, "none", TRUE)} ELSE {})
             \cup (IF inRoom \/ ~Active(u, p) THEN {ends} ELSE {}))
  /\ IF inRoom /\ Active(u, p) THEN TearDown(u, p, TRUE) ELSE UNCHANGED linkVars
  /\ room' = [room EXCEPT ![u].terminated = @ \/ inRoom]
  /\ UNCHANGED <<session, listener, connected, ringVars, storeVars, historyVars,
                 taps, losses>>

\* The ring's owner has put the notification away.
Dismissed(u, t) ==
  /\ t.op = "dismiss" /\ Becomes(u, t, {})
  /\ RingCleared(u, session[u], marker[u])
  /\ UNCHANGED <<session, listener, connected, room, linkVars, storeVars, net,
                 historyVars, taps, losses>>

\* Busy, unless the caller accepted a glare; or declined.
HearRejected(u, p, m) ==
  /\ m.type = "rejected" /\ Hear(u, p)
  /\ room' = [room EXCEPT ![u] =
       IF @.peer # p THEN @
       ELSE IF m.status = "declined"
              THEN [@ EXCEPT !.state = "rejected", !.rejected = TRUE, !.terminated = TRUE]
       ELSE IF p \in glare[u] THEN @
       ELSE [@ EXCEPT !.state = "busy"]]
  /\ UNCHANGED <<callVars, ringVars, linkVars, storeVars, tasks, historyVars,
                 taps, losses>>

\* terminate(): once for a room.
Terminates(u, p, state, reason) ==
  /\ room[u].peer = p
  /\ room' = [room EXCEPT ![u].state = state, ![u].terminated = TRUE]
  /\ IF room[u].terminated THEN UNCHANGED <<tasks, linkVars>>
     ELSE /\ Adds(u, {Ending(u, p, reason, FALSE)})
          /\ TearDown(u, p, Active(u, p))
  /\ UNCHANGED <<callVars, ringVars, storeVars, net, historyVars, losses>>

\* The room's timer of 30 seconds.
NoAnswer(u) ==
  /\ room[u].state = "calling" /\ UNCHANGED taps
  /\ \E p \in Users : Terminates(u, p, "no-answer", "missed")

HangUp(u) ==
  /\ room[u].state \in {"calling", "connected", "reconnecting"} /\ Taps(u)
  /\ \E p \in Users : Terminates(u, p, "ended", "none")

\* The stream of the peer arrives: the room is connected.
MediaArrives(u, p) ==
  /\ p \in media[u] /\ media' = [media EXCEPT ![u] = @ \ {p}]
  /\ stream' = [stream EXCEPT ![u] = TRUE]
  /\ room' = [room EXCEPT ![u].state = "connected"]
  /\ UNCHANGED <<callVars, ringVars, wire, storeVars, tasks, net, historyVars,
                 taps, losses>>

\* mutant: a call that rings can be reconnecting
MayReconnectAlways(u) == {"calling", "connected", "reconnecting"}

MayReconnect(u) == {"connected", "reconnecting"}

\* call-reconnecting: of the connection, or of a retry before there is one.
Reconnecting(u) ==
  /\ Fails /\ room[u].state \in MayReconnect(u)
  /\ room' = [room EXCEPT ![u].state = "reconnecting"]
  /\ UNCHANGED <<callVars, ringVars, linkVars, storeVars, tasks, net, historyVars,
                 taps>>

\* peer-reconnected
Reconnected(u, p) ==
  /\ p \in wire[u] /\ u \in wire[p]
  /\ room[u].peer = p /\ room[u].state = "reconnecting"
  /\ room' = [room EXCEPT ![u].state = "connected"]
  /\ UNCHANGED <<callVars, ringVars, linkVars, storeVars, tasks, net, historyVars,
                 taps, losses>>

\* The retries of a connection failed: the peer is gone, or the network is.
Disconnected(u, p) ==
  /\ p \in wire[u] /\ (IF u \in wire[p] THEN Fails ELSE UNCHANGED losses)
  /\ wire' = [wire EXCEPT ![u] = @ \ {p}] /\ media' = [media EXCEPT ![u] = @ \ {p}]
  /\ Adds(u, Dropping(u, p))
  /\ UNCHANGED <<callVars, screenVars, stream, storeVars, net, historyVars, taps>>

\* 1.5 seconds later; terminateCallConnection() of the room's peer.
Dropped(u, t) ==
  /\ t.op = "drop"
  /\ IF room[u].terminated THEN Becomes(u, t, {}) /\ UNCHANGED <<room, linkVars>>
     ELSE /\ Becomes(u, t, {Ending(u, t.peer, "missed", FALSE)})
          /\ TearDown(u, t.peer, Active(u, t.peer))
          /\ room' = [room EXCEPT ![u].state = "ended", ![u].terminated = TRUE]
  /\ UNCHANGED <<callVars, ringVars, storeVars, net, historyVars, taps, losses>>

\* A message is lost with the transport it was given to.
Lose(u, p) ==
  /\ net[u][p] # <<>> /\ Fails /\ net' = [net EXCEPT ![u][p] = Tail(@)]
  /\ UNCHANGED <<callVars, screenVars, linkVars, storeVars, tasks, historyVars, taps>>

-----------------------------------------------------------------------------
TaskStep(u) ==
  \E t \in tasks[u] :
    \/ InformStored(u, t) \/ Invite(u, t) \/ InviteFails(u, t)
    \/ StartConnects(u, t) \/ StartFails(u, t)
    \/ Notified(u, t) \/ AnswerStored(u, t) \/ Ready(u, t) \/ Channel(u, t)
    \/ DeclineStored(u, t) \/ Dismissed(u, t) \/ Dropped(u, t)
    \/ EndDone(u, t) \/ RemoteEndDone(u, t)

Receive(u, p) ==
  /\ net[p][u] # <<>>
  /\ LET m == Head(net[p][u])
     IN  \/ HearCall(u, p, m) \/ HearReady(u, p, m)
         \/ HearEnded(u, p, m) \/ HearRejected(u, p, m)

UserStep(u) ==
  (\E p \in Users : PlaceCall(u, p)) \/ CallAgain(u) \/ Accept(u) \/ Reject(u)
    \/ HangUp(u)

LinkStep(u, p) == Reconnected(u, p) \/ Disconnected(u, p)

Next ==
  \E u \in Users :
    \/ UserStep(u) \/ TaskStep(u) \/ NoAnswer(u) \/ RingTimeout(u) \/ Reconnecting(u)
    \/ \E p \in Users : Receive(u, p) \/ MediaArrives(u, p) \/ LinkStep(u, p) \/ Lose(u, p)

Spec == Init /\ [][Next]_vars

\* Promises settle, timers fire, and a connection that is broken is found out; a
\* message need not arrive.
Fairness ==
  \A u \in Users :
    /\ WF_vars(TaskStep(u)) /\ WF_vars(NoAnswer(u)) /\ WF_vars(RingTimeout(u))
    /\ \A p \in Users \ {u} : WF_vars(LinkStep(u, p))

FairSpec == Spec /\ Fairness

-----------------------------------------------------------------------------
(* Properties                                                              *)

Peers    == Users \cup {NoUser}
CallIds  == Calls \cup {NoCall}
Sessions == {NoSession} \cup [call : Calls, incoming : BOOLEAN, answered : BOOLEAN]
RingsOf  == {NoRing} \cup [from : Users, call : Calls]
RoomState == {"none", "calling", "connected", "reconnecting", "ended", "no-answer",
              "busy", "rejected"}
Rooms    == [peer : Peers, state : RoomState, terminated : BOOLEAN, rejected : BOOLEAN]
Status   == {"none", "initiating", "missed", "rejected", "completed"}
Ended    == {"rejected", "missed", "completed"}
CallOps  == {"invite", "start", "notify", "answer", "media", "channel"}
Ops      == {"inform", "reject", "miss", "dismiss", "drop"}
Messages ==
  [type : {"call", "ready"}, call : Calls, status : {"none"}]
    \cup [type : {"ended"}, call : CallIds, status : Ended]
    \cup [type : {"rejected"}, call : CallIds, status : {"busy", "declined"}]
Tasks ==
  [op : CallOps, peer : Users, call : Calls, status : {"none"}, ui : BOOLEAN]
    \cup [op : Ops, peer : Users, call : {NoCall}, status : {"none"}, ui : BOOLEAN]
    \cup [op : {"end", "ended"}, peer : Users, call : CallIds, status : Ended,
          ui : BOOLEAN]

\* The state of a device's calls is well formed.
TypeOK ==
  /\ session \in [Users -> [Users -> Sessions]]
  /\ marker \in [Users -> Peers] /\ glare \in [Users -> SUBSET Users]
  /\ listener \in [Users -> Peers] /\ connected \in [Users -> SUBSET Users]
  /\ ring \in [Users -> RingsOf] /\ shown \in [Users -> RingsOf]
  /\ rung \in [Users -> RingsOf] /\ room \in [Users -> Rooms]
  /\ wire \in [Users -> SUBSET Users] /\ media \in [Users -> SUBSET Users]
  /\ stream \in [Users -> BOOLEAN]
  /\ rows \in [Users -> [Calls -> Status]] /\ made \in [Users -> 0 .. MaxCalls]
  /\ tasks \in [Users -> SUBSET Tasks]
  /\ net \in [Users -> [Users -> Seq(Messages)]]
  /\ answered \subseteq Calls /\ started \subseteq Calls
  /\ invites \in [Users -> Nat] /\ starts \in [Users -> Nat]
  /\ elsewhere \subseteq Users \X Users
  /\ taps \in [Users -> 0 .. MaxTaps] /\ losses \in 0 .. MaxLosses

\* The busy marker of a device belongs to a call it has a session for or to the
\* ring on its screen, whatever ends, fails or rings at the same time: a marker
\* without an owner would reject every later caller as busy.
MarkerHasOwner ==
  \A u, p \in Users : marker[u] = p => Active(u, p) \/ ring[u].from = p

\* A device starts a negotiation at most once for each time it prepared for an
\* answer, however many call-ready arrive and whatever is retried.  Of one call
\* that is not true: both sides of a glare may start it.
StartedOnce == \A u \in Users : starts[u] <= invites[u]

\* Negotiation starts only for a call its callee accepted, also when both called
\* and when a call-ready of an earlier call arrives late.
StartedWasAnswered == started \subseteq answered

\* Of two phones that call each other one gives way: they are told of each other
\* that they are busy only where one of them was busy with a third phone.
NotBothBusy ==
  \A u, p \in Users :
    /\ room[u].peer = p /\ room[u].state = "busy"
    /\ room[p].peer = u /\ room[p].state = "busy"
    => <<u, p>> \in elsewhere \/ <<p, u>> \in elsewhere

\* A call that is kept as completed was accepted by somebody.
CompletedWasAnswered ==
  \A u \in Users, c \in Calls : rows[u][c] = "completed" => c \in answered

\* A ring stops, a room does not keep calling, and the room of the call a device
\* is busy with does not keep reconnecting, whoever stopped answering and
\* whatever was lost.
Waiting(u) ==
  \/ ring[u] # NoRing \/ room[u].state = "calling"
  \/ /\ room[u].state = "reconnecting" /\ ~room[u].terminated
     /\ marker[u] = room[u].peer

AttemptsEnd == \A u \in Users : Waiting(u) ~> ~Waiting(u)
=============================================================================
