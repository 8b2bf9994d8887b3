---------------------------- MODULE ChatDelivery ----------------------------
(***************************************************************************)
(* Direct messages of one conversation, from the phone that writes them to  *)
(* the phone that reads them: ChatMessageService, ChatReceiveService and    *)
(* DiscoveryService of the mobile app over the server's relay and over a    *)
(* WebRTC data channel (features/chat/services, features/shared/connection).*)
(***************************************************************************)
EXTENDS ServerRelay

CONSTANTS
  sender, receiver, Messages, conversation,
  MaxRetries,   \* bound on the times unsent messages are picked up
  MaxChannels,  \* bound on the data channels opened
  MaxSeens,     \* bound on the times the receiver opens the conversation
  MaxStops      \* bound on the times an app is killed

ASSUME ChatAssumption ==
  /\ Users = {sender, receiver} /\ sender # receiver
  /\ conversation \notin Messages

VARIABLES
  status,     \* the sender's MessageStatus of a message
  created,    \* messages in the database, their first attempt to come
  timer,      \* messages with an acknowledgement timer: MessageAckTracker
  unsent,     \* messages picked up to be sent again
  marked,     \* those set to SENDING by tryResendMessage(), not sent yet
  inbox,      \* messages saved by the receiver
  receiving,  \* handlers between the look for a duplicate and the save
  channel,    \* the WebRTC data channel is open
  peer,       \* frames on their way over it, to each user
  retries, channels, seens, stops

chatVars == <<status, created, timer, unsent, marked, inbox, receiving, channel,
              peer, retries, channels, seens, stops>>
vars == <<relayVars, chatVars>>

Init ==
  /\ RelayInit
  /\ status = [m \in Messages |-> "none"]
  /\ created = {} /\ timer = {} /\ unsent = {} /\ marked = {} /\ inbox = {}
  /\ receiving = [m \in Messages |-> 0]
  /\ channel = FALSE /\ peer = [u \in Users |-> <<>>]
  /\ retries = 0 /\ channels = 0 /\ seens = 0 /\ stops = 0

RelayOnly == UNCHANGED <<open, home, local, setup, presence, queue, relaying,
                         accepted, drops>>
BoundsOnly == UNCHANGED <<retries, channels, seens, stops>>

Chat(m) == Frame("chat", m, sender, receiver)
Ack(m)  == Frame("ack", m, receiver, sender)

Seen == Frame("seen", conversation, receiver, sender)

\* sendChatMessage(), sendAckMessage(), sendSeenMessage() of ConnectionService:
\* the data channel if it is open, else the socket, else an exception.
Route(u) == IF channel THEN "webrtc" ELSE IF u \in open THEN "ws" ELSE "none"

\* p: what is on its way over the channel before.
Carry(u, f, p) ==
  /\ peer' = IF Route(u) = "webrtc" THEN [p EXCEPT ![f.to] = Append(@, f)] ELSE p
  /\ up' = IF Route(u) = "ws" /\ Live(u)
             THEN [up EXCEPT ![u] = Append(@, f)] ELSE up

-----------------------------------------------------------------------------
(* The sender                                                              *)

SenderOnly == UNCHANGED <<down, inbox, receiving, channel>> /\ RelayOnly

\* sendChatMessage(): message and status are committed, an await, ...
CreateMessage(m) ==
  /\ status[m] = "none" /\ status' = [status EXCEPT ![m] = "sending"]
  /\ created' = created \cup {m}
  /\ UNCHANGED <<up, peer, timer, unsent, marked>> /\ BoundsOnly /\ SenderOnly

\* ... the timer armed and the message sent.  Over the socket the status is
\* left to the acknowledgement.
SendAndTrack(m) ==
  /\ m \in created /\ created' = created \ {m}
  /\ Carry(sender, Chat(m), peer)
  /\ timer' = timer \cup {m}
  /\ status' = [status EXCEPT ![m] = CASE Route(sender) = "webrtc" -> "sent"
                                       [] Route(sender) = "ws" -> @
                                       [] Route(sender) = "none" -> "not_sent"]
  /\ UNCHANGED <<unsent, marked>> /\ BoundsOnly /\ SenderOnly

\* updateToNotSentIfStillPending...: 12 s without an acknowledgement.
AckTimeout(m) ==
  /\ m \in timer /\ timer' = timer \ {m}
  /\ status' = [status EXCEPT ![m] =
       IF @ \in {"sending", "sent"} THEN "not_sent" ELSE @]
  /\ UNCHANGED <<up, peer, created, unsent, marked>> /\ BoundsOnly /\ SenderOnly

\* performResendMessagesForPeer(): the peer was discovered or its data channel
\* opened; the list is read once and worked through.
PickUnsent ==
  /\ retries < MaxRetries /\ retries' = retries + 1
  /\ unsent' = unsent \cup {m \in Messages : status[m] \in {"not_sent", "sent"}}
  /\ UNCHANGED <<up, peer, status, created, timer, marked, channels, seens,
                 stops>>
  /\ SenderOnly

\* The resend button of a message NOT_SENT.
UserResends(m) ==
  /\ retries < MaxRetries /\ retries' = retries + 1
  /\ status[m] = "not_sent" /\ unsent' = unsent \cup {m}
  /\ UNCHANGED <<up, peer, status, created, timer, marked, channels, seens,
                 stops>>
  /\ SenderOnly

\* tryResendMessage(): SENDING is written, an await, ...
ResendMarks(m) ==
  /\ m \in unsent /\ unsent' = unsent \ {m} /\ marked' = marked \cup {m}
  /\ status' = [status EXCEPT ![m] = "sending"]
  /\ UNCHANGED <<up, peer, created, timer>> /\ BoundsOnly /\ SenderOnly

\* ... and the message sent.  The catch logs and throws.
ResendSends(m) ==
  /\ m \in marked /\ marked' = marked \ {m}
  /\ Carry(sender, Chat(m), peer)
  /\ status' = IF Route(sender) = "webrtc"
                 THEN [status EXCEPT ![m] = "sent"] ELSE status
  /\ timer' = IF Route(sender) = "ws" THEN timer \cup {m} ELSE timer
  /\ UNCHANGED <<created, unsent>> /\ BoundsOnly /\ SenderOnly

\* handleServerAck(), handleAckMessage(), handleSeenMessage(); of a "seen" the
\* socket's parser knows nothing.
SenderHears(f, over) ==
  /\ timer' = IF f.type \in {"server-ack", "ack"} THEN timer \ {f.id} ELSE timer
  /\ status' = [m \in Messages |->
       CASE f.type = "ack" /\ m = f.id -> "delivered"
         [] f.type = "server-ack" /\ m = f.id -> "sent"
         [] f.type = "seen" /\ over = "webrtc"
              /\ status[m] \in {"delivered", "sent"} -> "read"
         [] OTHER -> status[m]]
  /\ UNCHANGED <<up, inbox, receiving>>

-----------------------------------------------------------------------------
(* The receiver                                                            *)

\* mutant: a message whose save is under way counts as a duplicate
KnownOrComing(m) == m \in inbox \/ receiving[m] > 0

\* queryMessageById(): the message is there.
Known(m) == m \in inbox

\* handleIncomingChatMessage(): a duplicate is acknowledged again.
ReceiverHears(f, p) ==
  /\ UNCHANGED <<status, timer>>
  /\ \/ /\ f.type = "chat" /\ Known(f.id)
        /\ Carry(receiver, Ack(f.id), p) /\ UNCHANGED <<inbox, receiving>>
     \/ /\ f.type = "chat" /\ ~Known(f.id)
        /\ receiving' = [receiving EXCEPT ![f.id] = @ + 1]
        /\ peer' = p /\ UNCHANGED <<up, inbox>>
     \/ /\ f.type # "chat" /\ peer' = p /\ UNCHANGED <<up, inbox, receiving>>

\* Conversation, key, then the write; a second insert of an id fails and
\* throws past the acknowledgement.
SaveIncoming(m) ==
  /\ receiving[m] > 0 /\ receiving' = [receiving EXCEPT ![m] = @ - 1]
  /\ IF m \in inbox THEN UNCHANGED <<inbox, up, peer>>
     ELSE inbox' = inbox \cup {m} /\ Carry(receiver, Ack(m), peer)
  /\ UNCHANGED <<down, status, created, timer, unsent, marked, channel>>
  /\ BoundsOnly /\ RelayOnly

\* markConversationAsRead() of the conversation on the screen.
MarkConversationAsRead ==
  /\ seens < MaxSeens /\ seens' = seens + 1
  /\ inbox # {} /\ Carry(receiver, Seen, peer)
  /\ UNCHANGED <<down, status, created, timer, unsent, marked, inbox, receiving,
                 channel, retries, channels, stops>>
  /\ RelayOnly

-----------------------------------------------------------------------------
(* Frames arrive, the channel and the apps come and go                     *)

HearSocket(u) ==
  /\ u \in open /\ down[u] # <<>>
  /\ down' = [down EXCEPT ![u] = Tail(@)]
  /\ \/ u = sender /\ SenderHears(Head(down[u]), "ws") /\ UNCHANGED peer
     \/ u = receiver /\ ReceiverHears(Head(down[u]), peer)
  /\ UNCHANGED <<created, unsent, marked, channel>> /\ BoundsOnly /\ RelayOnly

HearPeer(u) ==
  /\ peer[u] # <<>>
  /\ LET rest == [peer EXCEPT ![u] = Tail(@)]
     IN  \/ u = sender /\ SenderHears(Head(peer[u]), "webrtc") /\ peer' = rest
         \/ u = receiver /\ ReceiverHears(Head(peer[u]), rest)
  /\ UNCHANGED <<down, created, unsent, marked, channel>> /\ BoundsOnly
  /\ RelayOnly

ChannelOpens ==
  /\ ~channel /\ channels < MaxChannels /\ channels' = channels + 1
  /\ channel' = TRUE
  /\ UNCHANGED <<relayVars, status, created, timer, unsent, marked, inbox,
                 receiving, peer, retries, seens, stops>>

ChannelCloses ==
  /\ channel /\ channel' = FALSE /\ peer' = [u \in Users |-> <<>>]
  /\ UNCHANGED <<relayVars, status, created, timer, unsent, marked, inbox,
                 receiving>>
  /\ BoundsOnly

\* The database stays; timers and handlers are gone.
AppStops(u) ==
  /\ stops < MaxStops /\ stops' = stops + 1
  /\ LoseSocket(u) /\ UNCHANGED drops
  /\ channel' = FALSE /\ peer' = [v \in Users |-> <<>>]
  /\ IF u = sender
       THEN /\ created' = {} /\ timer' = {} /\ unsent' = {} /\ marked' = {}
            /\ UNCHANGED receiving
       ELSE /\ receiving' = [m \in Messages |-> 0]
            /\ UNCHANGED <<created, timer, unsent, marked>>
  /\ UNCHANGED <<status, inbox, retries, channels, seens>>

ChatStep(m) ==
  \/ SendAndTrack(m) \/ AckTimeout(m) \/ ResendMarks(m) \/ ResendSends(m)
  \/ SaveIncoming(m)

Next ==
  \/ RelayNext /\ UNCHANGED chatVars
  \/ \E m \in Messages : CreateMessage(m) \/ UserResends(m) \/ ChatStep(m)
  \/ \E u \in Users : HearSocket(u) \/ HearPeer(u) \/ AppStops(u)
  \/ PickUnsent \/ MarkConversationAsRead \/ ChannelOpens \/ ChannelCloses

Spec == Init /\ [][Next]_vars

\* The server's tasks and the apps' handlers and timers run, a dead socket is
\* noticed by its heartbeat, and a device without a socket connects again.
Fairness ==
  /\ \A m \in Messages :
       /\ WF_vars(SendAndTrack(m))
       /\ WF_vars(AckTimeout(m)) /\ WF_vars(ResendMarks(m))
       /\ WF_vars(ResendSends(m)) /\ WF_vars(SaveIncoming(m))
  /\ \A u \in Users :
       /\ WF_vars(HearSocket(u)) /\ WF_vars(HearPeer(u))
       /\ WF_vars(ServerStep(u) /\ UNCHANGED chatVars)
       /\ WF_vars(DeviceNotices(u) /\ UNCHANGED chatVars)
       /\ WF_vars((\E w \in Workers : Accept(u, w)) /\ UNCHANGED chatVars)

FairSpec == Spec /\ Fairness

-----------------------------------------------------------------------------
Statuses == {"none", "sending", "sent", "not_sent", "delivered", "read"}
IsFrame(f) == /\ f.type \in {"chat", "ack", "seen", "server-ack", "noted"}
              /\ f.id \in Messages \cup {conversation}
              /\ f.from \in Users /\ f.to \in Users

\* Every variable keeps its type.
TypeOK ==
  /\ open \subseteq Users /\ home \in [Users -> Workers]
  /\ local \in [Workers -> [Users -> {"none", "live", "stale"}]]
  /\ setup \in [Users -> {"none", "accepted", "present", "subscribed", "serving"}]
  /\ presence \subseteq Users /\ accepted \subseteq Messages
  /\ \A f \in queue : IsFrame(f)
  /\ \A u \in Users : /\ \A i \in DOMAIN up[u] : IsFrame(up[u][i])
                      /\ \A i \in DOMAIN down[u] : IsFrame(down[u][i])
                      /\ \A i \in DOMAIN peer[u] : IsFrame(peer[u][i])
                      /\ relaying[u] # Idle => IsFrame(relaying[u].frame)
  /\ status \in [Messages -> Statuses] /\ receiving \in [Messages -> Nat]
  /\ created \cup timer \cup unsent \cup marked \cup inbox \subseteq Messages
  /\ channel \in BOOLEAN

\* A message shown as delivered is in the receiver's database, whatever was
\* sent twice, lost or late on the way.
DeliveredIsSaved ==
  \A m \in Messages : status[m] = "delivered" => m \in inbox

Queued(m) == Chat(m) \in queue

\* "No message is dropped as long as the sender's push to the server
\* succeeds": once the server has taken a message and acknowledged it, it stays
\* in the queue until the receiver has saved it, over broken connections and
\* workers and apps that stop.
AcceptedIsKept == \A m \in accepted : Queued(m) \/ m \in inbox

\* A message queued while its receiver is away reaches the receiver's database
\* after the reconnection, over further broken connections and stops (as long as
\* what is queued fits in one drain, see DrainLimit).
AwayIsCaughtUp ==
  \A m \in Messages : (Queued(m) /\ receiver \notin open) ~> m \in inbox
=============================================================================
