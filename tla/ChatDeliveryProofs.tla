------------------------- MODULE ChatDeliveryProofs -------------------------
(***************************************************************************)
(* What holds of messages, acknowledgements and the server's queue for any  *)
(* number of messages and worker processes, any limit of the drain and any  *)
(* number of failures, resends and channels.                                *)
(*                                                                         *)
(* The argument: an acknowledgement is only ever made of a message that is  *)
(* saved, and saved messages stay saved; so every frame that is under way   *)
(* or in the queue, wherever a failure leaves it, is a chat, a seen, or the *)
(* acknowledgement of a saved message (FramesInv).                          *)
(***************************************************************************)
EXTENDS ChatDelivery, TLAPS, SequenceTheorems, FiniteSetTheorems

\* What the two apps may have sent when the messages of `saved` are saved.
Sent(saved) == {Chat(m) : m \in Messages} \cup {Ack(m) : m \in saved} \cup {Seen}

\* What a device may get.
Got(saved) == Sent(saved) \cup {ServerAck(f) : f \in Sent(saved)}

Pending(saved) == [frame : Sent(saved), at : Workers, online : BOOLEAN]

TypeInv ==
  /\ open \subseteq Users /\ home \in [Users -> Workers]
  /\ local \in [Workers -> [Users -> {"none", "live", "stale"}]]
  /\ setup \in [Users -> {"none", "accepted", "present", "subscribed", "serving"}]
  /\ presence \subseteq Users /\ accepted \subseteq Messages
  /\ status \in [Messages -> Statuses] /\ receiving \in [Messages -> Nat]
  /\ created \subseteq Messages /\ timer \subseteq Messages
  /\ unsent \subseteq Messages /\ marked \subseteq Messages
  /\ inbox \subseteq Messages /\ channel \in BOOLEAN

FramesInv ==
  /\ up \in [Users -> Seq(Sent(inbox))]
  /\ down \in [Users -> Seq(Got(inbox))]
  /\ peer \in [Users -> Seq(Sent(inbox))]
  /\ queue \subseteq Sent(inbox) /\ IsFiniteSet(queue)
  /\ relaying \in [Users -> {Idle} \cup Pending(inbox)]

IInv == TypeInv /\ FramesInv /\ DeliveredIsSaved /\ AcceptedIsKept

-----------------------------------------------------------------------------
(* Frames and channels                                                     *)

LEMMA SentFacts ==
  ASSUME NEW saved \in SUBSET Messages, NEW f \in Sent(saved)
  PROVE  /\ f.type \in {"chat", "ack", "seen"} /\ IsFrame(f)
         /\ f.type = "chat" => f.id \in Messages /\ f = Chat(f.id)
         /\ f.type = "ack" => f.id \in saved /\ f = Ack(f.id)
         /\ f.type = "seen" => f = Seen
BY ChatAssumption DEF Sent, Chat, Ack, Seen, Frame, IsFrame

LEMMA GotFacts ==
  ASSUME NEW saved \in SUBSET Messages, NEW f \in Got(saved)
  PROVE  /\ f \in Sent(saved) \/ f.type \in {"server-ack", "noted"}
         /\ IsFrame(f)
         /\ f.type = "ack" => f.id \in saved
         /\ f.type = "chat" => f.id \in Messages
<1>1. CASE f \in Sent(saved)
  BY <1>1, SentFacts
<1>2. CASE f \notin Sent(saved)
  <2>1. PICK g \in Sent(saved) : f = ServerAck(g)
    BY <1>2 DEF Got
  <2>2. IsFrame(g)
    BY SentFacts
  <2>3. QED BY <2>1, <2>2 DEF ServerAck, Frame, IsFrame
<1>3. QED BY <1>1, <1>2

LEMMA SentGrows ==
  ASSUME NEW A, NEW B, A \subseteq B
  PROVE  /\ Sent(A) \subseteq Sent(B) /\ Got(A) \subseteq Got(B)
         /\ Pending(A) \subseteq Pending(B)
<1>1. Sent(A) \subseteq Sent(B)
  BY DEF Sent
<1>2. QED BY <1>1 DEF Got, Pending

LEMMA ChannelGrows ==
  ASSUME NEW S, NEW T, S \subseteq T, NEW q \in [Users -> Seq(S)]
  PROVE  q \in [Users -> Seq(T)]
<1>1. \A u \in Users : q[u] \in Seq(T)
  BY SeqMonotonic
<1>2. QED BY <1>1

LEMMA Enqueue ==
  ASSUME NEW S, NEW q \in [Users -> Seq(S)], NEW u \in Users, NEW f \in S
  PROVE  [q EXCEPT ![u] = Append(@, f)] \in [Users -> Seq(S)]
<1>1. Append(q[u], f) \in Seq(S)
  BY AppendProperties
<1>2. QED BY <1>1

LEMMA Dequeue ==
  ASSUME NEW S, NEW q \in [Users -> Seq(S)], NEW u \in Users, q[u] # <<>>
  PROVE  /\ Head(q[u]) \in S
         /\ [q EXCEPT ![u] = Tail(@)] \in [Users -> Seq(S)]
<1>1. Head(q[u]) \in S /\ Tail(q[u]) \in Seq(S)
  BY HeadTailProperties
<1>2. QED BY <1>1

LEMMA Empty ==
  ASSUME NEW S, NEW q \in [Users -> Seq(S)], NEW V
  PROVE  /\ [v \in Users |-> IF v \in V THEN <<>> ELSE q[v]] \in [Users -> Seq(S)]
         /\ \A u \in Users : [q EXCEPT ![u] = <<>>] \in [Users -> Seq(S)]
         /\ [v \in Users |-> <<>>] \in [Users -> Seq(S)]
<1>1. <<>> \in Seq(S)
  OBVIOUS
<1>2. QED BY <1>1

LEMMA CarryKeeps ==
  ASSUME NEW S, up \in [Users -> Seq(S)], NEW p \in [Users -> Seq(S)],
         NEW u \in Users, NEW f \in S, f.to \in Users, Carry(u, f, p)
  PROVE  up' \in [Users -> Seq(S)] /\ peer' \in [Users -> Seq(S)]
<1>1. [p EXCEPT ![f.to] = Append(@, f)] \in [Users -> Seq(S)]
  BY Enqueue
<1>2. [up EXCEPT ![u] = Append(@, f)] \in [Users -> Seq(S)]
  BY Enqueue
<1>3. QED BY <1>1, <1>2 DEF Carry

LEMMA SendKeeps ==
  ASSUME NEW S, down \in [Users -> Seq(S)], TypeInv,
         NEW w \in Workers, NEW v \in Users, NEW f \in S,
         SendPersonalMessage(w, v, f)
  PROVE  /\ down' \in [Users -> Seq(S)] /\ presence' \subseteq Users
         /\ local' \in [Workers -> [Users -> {"none", "live", "stale"}]]
<1>1. [down EXCEPT ![v] = Append(@, f)] \in [Users -> Seq(S)]
  BY Enqueue
<1>2. down' \in [Users -> Seq(S)]
  BY <1>1 DEF SendPersonalMessage, Publish
<1>3. presence' \subseteq Users
  BY DEF SendPersonalMessage, TypeInv
<1>4. local' \in [Workers -> [Users -> {"none", "live", "stale"}]]
  <2>1. local' = local \/ local' = [local EXCEPT ![w][v] = "none"]
    BY DEF SendPersonalMessage
  <2>2. [local EXCEPT ![w][v] = "none"] \in
          [Workers -> [Users -> {"none", "live", "stale"}]]
    BY DEF TypeInv
  <2>3. QED BY <2>1, <2>2 DEF TypeInv
<1>5. QED BY <1>2, <1>3, <1>4

-----------------------------------------------------------------------------
(* Steps of the server and of the connections                              *)

LEMMA LoseKeeps ==
  ASSUME TypeInv, FramesInv, NEW u \in Users, LoseSocket(u)
  PROVE  /\ open' \subseteq Users
         /\ local' \in [Workers -> [Users -> {"none", "live", "stale"}]]
         /\ setup' \in [Users -> {"none", "accepted", "present", "subscribed",
                                  "serving"}]
         /\ up' \in [Users -> Seq(Sent(inbox))]
         /\ down' \in [Users -> Seq(Got(inbox))]
<1>1. up' \in [Users -> Seq(Sent(inbox))]
  BY Empty DEF LoseSocket, FramesInv
<1>2. down' \in [Users -> Seq(Got(inbox))]
  BY Empty DEF LoseSocket, FramesInv
<1>3. local' \in [Workers -> [Users -> {"none", "live", "stale"}]]
  <2>1. [local EXCEPT ![home[u]][u] = "stale"] \in
          [Workers -> [Users -> {"none", "live", "stale"}]]
    BY DEF TypeInv
  <2>2. QED BY <2>1 DEF LoseSocket, TypeInv
<1>4. QED BY <1>1, <1>2, <1>3 DEF LoseSocket, TypeInv

LEMMA DrainKeeps ==
  ASSUME TypeInv, FramesInv, NEW u \in Users, Drain(u)
  PROVE  /\ down' \in [Users -> Seq(Got(inbox))]
         /\ queue' \subseteq queue /\ IsFiniteSet(queue')
         /\ \A r \in queue \ queue' : r.type # "chat"
<1>1. PICK got \in SUBSET queue :
        /\ queue' = queue \ {r \in got : SpentByDrain(r)}
        /\ LET sent == {r \in got : r.type # "ack"}
           IN \E order \in [1 .. Cardinality(sent) -> sent] :
                down' = [down EXCEPT ![u] = @ \o order]
  BY DEF Drain
<1>2. queue' \subseteq queue /\ IsFiniteSet(queue')
  BY <1>1, FS_Subset DEF FramesInv
<1>3. \A r \in queue \ queue' : r.type # "chat"
  BY <1>1 DEF SpentByDrain
<1>4. down' \in [Users -> Seq(Got(inbox))]
  <2> DEFINE sent == {r \in got : r.type # "ack"}
  <2>1. PICK order \in [1 .. Cardinality(sent) -> sent] :
          down' = [down EXCEPT ![u] = @ \o order]
    BY <1>1
  <2>2. Cardinality(sent) \in Nat
    BY FS_Subset, FS_CardinalityType DEF FramesInv
  <2>3. sent \subseteq Got(inbox)
    BY DEF FramesInv, Got
  <2>4. order \in Seq(Got(inbox))
    <3>1. order \in [1 .. Cardinality(sent) -> Got(inbox)]
      BY <2>3
    <3>2. QED BY <2>2, <3>1, SeqDef
  <2>5. down[u] \o order \in Seq(Got(inbox))
    BY <2>4, ConcatProperties DEF FramesInv
  <2>6. QED BY <2>1, <2>5 DEF FramesInv
<1>5. QED BY <1>2, <1>3, <1>4

LEMMA RelayKeeps ==
  ASSUME TypeInv, FramesInv, NEW u \in Users, Relay(u)
  PROVE  /\ presence' \subseteq Users
         /\ local' \in [Workers -> [Users -> {"none", "live", "stale"}]]
         /\ up' \in [Users -> Seq(Sent(inbox))]
         /\ down' \in [Users -> Seq(Got(inbox))]
         /\ relaying' \in [Users -> {Idle} \cup Pending(inbox)]
         /\ queue' \subseteq queue /\ IsFiniteSet(queue')
<1> DEFINE f == Head(up[u])
           w == home[u]
<1>1. f \in Sent(inbox) /\ up' \in [Users -> Seq(Sent(inbox))]
  BY Dequeue DEF FramesInv, Relay
<1>2. IsFrame(f) /\ f \in Got(inbox)
  BY <1>1, SentFacts DEF TypeInv, Got
<1>3. w \in Workers /\ f.to \in Users
  BY <1>2 DEF TypeInv, IsFrame
<1>4. queue' \subseteq queue /\ IsFiniteSet(queue')
  BY FS_Subset DEF Relay, FramesInv
<1>5. CASE local[w][f.to] # "none"
  <2>1. SendPersonalMessage(w, f.to, f) /\ UNCHANGED relaying
    BY <1>5 DEF Relay
  <2>2. /\ down' \in [Users -> Seq(Got(inbox))] /\ presence' \subseteq Users
        /\ local' \in [Workers -> [Users -> {"none", "live", "stale"}]]
    BY <1>2, <1>3, <2>1, SendKeeps DEF FramesInv
  <2>3. QED BY <1>1, <1>4, <2>1, <2>2 DEF FramesInv
<1>6. CASE local[w][f.to] = "none"
  <2>1. /\ relaying' = [relaying EXCEPT ![u] =
                          [frame |-> f, at |-> w, online |-> f.to \in presence]]
        /\ UNCHANGED <<down, local, presence>>
    BY <1>6 DEF Relay
  <2>2. [frame |-> f, at |-> w, online |-> f.to \in presence] \in Pending(inbox)
    BY <1>1, <1>3 DEF Pending
  <2>3. QED BY <1>1, <1>4, <2>1, <2>2 DEF FramesInv, TypeInv
<1>7. QED BY <1>5, <1>6

LEMMA RelayOnKeeps ==
  ASSUME TypeInv, FramesInv, NEW u \in Users, RelayOn(u)
  PROVE  /\ presence' \subseteq Users /\ accepted' \subseteq Messages
         /\ local' \in [Workers -> [Users -> {"none", "live", "stale"}]]
         /\ down' \in [Users -> Seq(Got(inbox))]
         /\ relaying' \in [Users -> {Idle} \cup Pending(inbox)]
         /\ queue' \subseteq Sent(inbox) /\ IsFiniteSet(queue')
<1> DEFINE f == relaying[u].frame
           w == relaying[u].at
<1>1. f \in Sent(inbox) /\ w \in Workers
  BY DEF FramesInv, RelayOn, Pending
<1>2. IsFrame(f) /\ f \in Got(inbox) /\ ServerAck(f) \in Got(inbox)
  BY <1>1, SentFacts DEF TypeInv, Got
<1>3. f.to \in Users /\ f.from \in Users
  BY <1>2 DEF IsFrame
<1>4. relaying' \in [Users -> {Idle} \cup Pending(inbox)]
  BY DEF RelayOn, FramesInv
<1>5. CASE relaying[u].online
  <2>1. SendPersonalMessage(w, f.to, f) /\ UNCHANGED <<queue, accepted>>
    BY <1>5 DEF RelayOn
  <2>2. /\ down' \in [Users -> Seq(Got(inbox))] /\ presence' \subseteq Users
        /\ local' \in [Workers -> [Users -> {"none", "live", "stale"}]]
    BY <1>1, <1>2, <1>3, <2>1, SendKeeps DEF FramesInv
  <2>3. QED BY <1>4, <2>1, <2>2 DEF FramesInv, TypeInv
<1>6. CASE ~relaying[u].online
  <2>1. /\ queue' = queue \/ queue' = queue \cup {f}
        /\ accepted' = IF f.type = "chat" THEN accepted \cup {f.id} ELSE accepted
        /\ SendPersonalMessage(w, f.from, ServerAck(f))
    BY <1>6 DEF RelayOn
  <2>2. /\ down' \in [Users -> Seq(Got(inbox))] /\ presence' \subseteq Users
        /\ local' \in [Workers -> [Users -> {"none", "live", "stale"}]]
    BY <1>1, <1>2, <1>3, <2>1, SendKeeps DEF FramesInv
  <2>3. accepted' \subseteq Messages
    BY <1>1, <2>1, SentFacts DEF TypeInv
  <2>4. queue' \subseteq Sent(inbox) /\ IsFiniteSet(queue')
    <3>1. queue' \subseteq Sent(inbox)
      BY <1>1, <2>1 DEF FramesInv
    <3>2. IsFiniteSet(queue) /\ IsFiniteSet(queue \cup {f})
      BY FS_AddElement DEF FramesInv
    <3>3. QED BY <2>1, <3>1, <3>2
  <2>5. QED BY <1>4, <2>2, <2>3, <2>4
<1>7. QED BY <1>5, <1>6

LEMMA ServerSteps ==
  ASSUME TypeInv, FramesInv, RelayNext, UNCHANGED chatVars
  PROVE  TypeInv' /\ FramesInv'
<1>0. UNCHANGED <<status, created, timer, unsent, marked, inbox, receiving,
                  channel, peer>>
  BY DEF chatVars
<1>1. ASSUME NEW u \in Users, NEW w \in Workers, Accept(u, w)
      PROVE  TypeInv' /\ FramesInv'
  <2>1. [local EXCEPT ![w][u] = "live"] \in
          [Workers -> [Users -> {"none", "live", "stale"}]]
    BY DEF TypeInv
  <2>2. TypeInv'
    BY <1>0, <1>1, <2>1 DEF Accept, TypeInv
  <2>3. FramesInv'
    BY <1>0, <1>1 DEF Accept, FramesInv
  <2>4. QED BY <2>2, <2>3
<1>2. ASSUME NEW u \in Users, SetPresence(u)
      PROVE  TypeInv' /\ FramesInv'
  BY <1>0, <1>2 DEF SetPresence, TypeInv, FramesInv
<1>3. ASSUME NEW u \in Users, Subscribe(u)
      PROVE  TypeInv' /\ FramesInv'
  BY <1>0, <1>3 DEF Subscribe, TypeInv, FramesInv
<1>4. ASSUME NEW u \in Users, Drain(u)
      PROVE  TypeInv' /\ FramesInv'
  <2>1. TypeInv'
    BY <1>0, <1>4 DEF Drain, TypeInv
  <2>2. FramesInv'
    BY <1>0, <1>4, DrainKeeps DEF Drain, FramesInv
  <2>3. QED BY <2>1, <2>2
<1>5. ASSUME NEW u \in Users, Relay(u)
      PROVE  TypeInv' /\ FramesInv'
  <2>1. UNCHANGED <<open, home, setup, accepted, drops>>
    BY <1>5 DEF Relay
  <2>2. TypeInv'
    BY <1>0, <1>5, <2>1, RelayKeeps DEF TypeInv
  <2>3. FramesInv'
    BY <1>0, <1>5, RelayKeeps DEF FramesInv
  <2>4. QED BY <2>2, <2>3
<1>6. ASSUME NEW u \in Users, RelayOn(u)
      PROVE  TypeInv' /\ FramesInv'
  <2>1. UNCHANGED <<open, home, setup, up, drops>>
    BY <1>6 DEF RelayOn
  <2>2. TypeInv'
    BY <1>0, <1>6, <2>1, RelayOnKeeps DEF TypeInv
  <2>3. FramesInv'
    BY <1>0, <1>6, <2>1, RelayOnKeeps DEF FramesInv
  <2>4. QED BY <2>2, <2>3
<1>7. ASSUME NEW u \in Users, Heartbeat(u) \/ PresenceExpires(u)
      PROVE  TypeInv' /\ FramesInv'
  BY <1>0, <1>7 DEF Heartbeat, PresenceExpires, TypeInv, FramesInv
<1>8. ASSUME NEW u \in Users, DeviceBreaks(u) \/ DeviceNotices(u)
      PROVE  TypeInv' /\ FramesInv'
  <2>1. LoseSocket(u)
    BY <1>8 DEF DeviceBreaks, DeviceNotices
  <2>2. UNCHANGED <<home, presence, queue, relaying, accepted>>
    BY <2>1 DEF LoseSocket
  <2>3. TypeInv'
    BY <1>0, <2>1, <2>2, LoseKeeps DEF TypeInv
  <2>4. FramesInv'
    BY <1>0, <2>1, <2>2, LoseKeeps DEF FramesInv
  <2>5. QED BY <2>3, <2>4
<1>9. ASSUME NEW u \in Users, NEW w \in Workers, ServerNotices(w, u)
      PROVE  TypeInv' /\ FramesInv'
  <2>1. [local EXCEPT ![w][u] = "none"] \in
          [Workers -> [Users -> {"none", "live", "stale"}]]
    BY DEF TypeInv
  <2>2. TypeInv'
    BY <1>0, <1>9, <2>1 DEF ServerNotices, TypeInv
  <2>3. FramesInv'
    BY <1>0, <1>9 DEF ServerNotices, FramesInv
  <2>4. QED BY <2>2, <2>3
<1>10. ASSUME NEW w \in Workers, WorkerStops(w)
       PROVE  TypeInv' /\ FramesInv'
  <2>1. [local EXCEPT ![w] = [u \in Users |-> "none"]] \in
          [Workers -> [Users -> {"none", "live", "stale"}]]
    BY DEF TypeInv
  <2>2. TypeInv'
    BY <1>0, <1>10, <2>1 DEF WorkerStops, TypeInv
  <2>3. up' \in [Users -> Seq(Sent(inbox))]
    BY <1>10, Empty DEF WorkerStops, FramesInv
  <2>4. relaying' \in [Users -> {Idle} \cup Pending(inbox)]
    BY <1>10 DEF WorkerStops, FramesInv
  <2>5. UNCHANGED <<queue, down>>
    BY <1>10 DEF WorkerStops
  <2>6. FramesInv'
    BY <1>0, <2>3, <2>4, <2>5 DEF FramesInv
  <2>7. QED BY <2>2, <2>6
<1>11. QED BY <1>1, <1>2, <1>3, <1>4, <1>5, <1>6, <1>7, <1>8, <1>9, <1>10
           DEF RelayNext, ServerStep

-----------------------------------------------------------------------------
(* Steps of the apps                                                       *)

LEMMA OwnFrames ==
  ASSUME NEW saved \in SUBSET Messages
  PROVE  /\ \A m \in Messages : Chat(m) \in Sent(saved)
         /\ \A m \in saved : Ack(m) \in Sent(saved)
         /\ Seen \in Sent(saved)
         /\ \A f \in Sent(saved) : f.to \in Users
<1>1. \A f \in Sent(saved) : f.to \in Users
  BY SentFacts DEF IsFrame
<1>2. QED BY <1>1 DEF Sent

LEMMA SenderHearsKeeps ==
  ASSUME TypeInv, DeliveredIsSaved, NEW f \in Got(inbox), NEW over,
         SenderHears(f, over)
  PROVE  /\ status' \in [Messages -> Statuses] /\ timer' \subseteq Messages
         /\ UNCHANGED <<up, inbox, receiving>> /\ DeliveredIsSaved'
<1>1. f.type = "ack" => f.id \in inbox
  BY GotFacts DEF TypeInv
<1>2. UNCHANGED <<up, inbox, receiving>> /\ timer' \subseteq Messages
  BY DEF SenderHears, TypeInv
<1>3. \A m \in Messages :
        /\ status'[m] \in Statuses
        /\ status'[m] = "delivered" => status[m] = "delivered" \/ m \in inbox
  BY <1>1 DEF SenderHears, TypeInv, Statuses
<1>4. status' \in [Messages -> Statuses]
  BY <1>3 DEF SenderHears
<1>5. DeliveredIsSaved'
  BY <1>2, <1>3 DEF DeliveredIsSaved
<1>6. QED BY <1>2, <1>4, <1>5

LEMMA ReceiverHearsKeeps ==
  ASSUME TypeInv, FramesInv, NEW f \in Got(inbox),
         NEW p \in [Users -> Seq(Sent(inbox))], ReceiverHears(f, p)
  PROVE  /\ UNCHANGED <<status, timer, inbox>>
         /\ receiving' \in [Messages -> Nat]
         /\ up' \in [Users -> Seq(Sent(inbox))]
         /\ peer' \in [Users -> Seq(Sent(inbox))]
<1>1. UNCHANGED <<status, timer, inbox>>
  BY DEF ReceiverHears
<1>2. receiver \in Users
  BY ChatAssumption
<1>3. CASE f.type = "chat" /\ Known(f.id)
  <2>1. Carry(receiver, Ack(f.id), p) /\ UNCHANGED receiving
    BY <1>3 DEF ReceiverHears
  <2>2. Ack(f.id) \in Sent(inbox) /\ Ack(f.id).to \in Users
    BY <1>3, OwnFrames DEF Known, TypeInv
  <2>3. up' \in [Users -> Seq(Sent(inbox))] /\ peer' \in [Users -> Seq(Sent(inbox))]
    BY <1>2, <2>1, <2>2, CarryKeeps DEF FramesInv
  <2>4. QED BY <1>1, <2>1, <2>3 DEF TypeInv
<1>4. CASE f.type = "chat" /\ ~Known(f.id)
  <2>1. /\ receiving' = [receiving EXCEPT ![f.id] = @ + 1]
        /\ peer' = p /\ UNCHANGED up
    BY <1>4 DEF ReceiverHears
  <2>2. f.id \in Messages
    BY <1>4, GotFacts DEF TypeInv
  <2>3. QED BY <1>1, <2>1, <2>2 DEF TypeInv, FramesInv
<1>5. CASE f.type # "chat"
  BY <1>1, <1>5 DEF ReceiverHears, TypeInv, FramesInv
<1>6. QED BY <1>3, <1>4, <1>5

LEMMA SaveKeeps ==
  ASSUME TypeInv, FramesInv, DeliveredIsSaved,
         NEW m \in Messages, SaveIncoming(m)
  PROVE  TypeInv' /\ FramesInv' /\ DeliveredIsSaved'
<1>1. inbox \subseteq inbox' /\ inbox' \subseteq Messages
  BY DEF SaveIncoming, TypeInv
<1>2. /\ UNCHANGED <<down, status, created, timer, unsent, marked, channel>>
      /\ UNCHANGED <<open, home, local, setup, presence, queue, relaying, accepted>>
  BY DEF SaveIncoming, RelayOnly
<1>3. receiving' \in [Messages -> Nat]
  BY DEF SaveIncoming, TypeInv
<1>4. TypeInv'
  BY <1>1, <1>2, <1>3 DEF TypeInv
<1>5. /\ Sent(inbox) \subseteq Sent(inbox') /\ Got(inbox) \subseteq Got(inbox')
      /\ Pending(inbox) \subseteq Pending(inbox')
  BY <1>1, SentGrows
<1>6. up' \in [Users -> Seq(Sent(inbox'))] /\ peer' \in [Users -> Seq(Sent(inbox'))]
  <2>1. up \in [Users -> Seq(Sent(inbox'))] /\ peer \in [Users -> Seq(Sent(inbox'))]
    BY <1>5, ChannelGrows DEF FramesInv
  <2>2. CASE m \in inbox
    BY <2>1, <2>2 DEF SaveIncoming
  <2>3. CASE m \notin inbox
    <3>1. Carry(receiver, Ack(m), peer) /\ m \in inbox'
      BY <2>3 DEF SaveIncoming
    <3>2. Ack(m) \in Sent(inbox') /\ Ack(m).to \in Users /\ receiver \in Users
      BY <1>1, <3>1, OwnFrames, ChatAssumption
    <3>3. QED BY <2>1, <3>1, <3>2, CarryKeeps
  <2>4. QED BY <2>2, <2>3
<1>7. down' \in [Users -> Seq(Got(inbox'))]
  BY <1>2, <1>5, ChannelGrows DEF FramesInv
<1>8. FramesInv'
  BY <1>2, <1>5, <1>6, <1>7 DEF FramesInv
<1>9. DeliveredIsSaved'
  BY <1>1, <1>2 DEF DeliveredIsSaved
<1>10. QED BY <1>4, <1>8, <1>9

\* The steps in which the sender's app sends, and the seen of the receiver's.
LEMMA SendingKeeps ==
  ASSUME TypeInv, FramesInv, DeliveredIsSaved,
         \/ \E m \in Messages : SendAndTrack(m) \/ ResendSends(m)
         \/ MarkConversationAsRead
  PROVE  TypeInv' /\ FramesInv' /\ DeliveredIsSaved'
<1>1. /\ UNCHANGED <<open, home, local, setup, presence, queue, relaying, accepted>>
      /\ UNCHANGED <<down, inbox, receiving, channel>>
  BY DEF SendAndTrack, ResendSends, MarkConversationAsRead, SenderOnly, RelayOnly
<1>2. \E u \in Users, f \in Sent(inbox) : f.to \in Users /\ Carry(u, f, peer)
  BY OwnFrames, ChatAssumption
     DEF SendAndTrack, ResendSends, MarkConversationAsRead, TypeInv
<1>3. up' \in [Users -> Seq(Sent(inbox))] /\ peer' \in [Users -> Seq(Sent(inbox))]
  BY <1>2, CarryKeeps DEF FramesInv
<1>4. /\ created' \subseteq Messages /\ timer' \subseteq Messages
      /\ unsent' \subseteq Messages /\ marked' \subseteq Messages
  BY DEF SendAndTrack, ResendSends, MarkConversationAsRead, TypeInv
<1>5. /\ status' \in [Messages -> Statuses]
      /\ \A m \in Messages : status'[m] = "delivered" => status[m] = "delivered"
  <2>1. \/ UNCHANGED status
        \/ \E m \in Messages : \E s \in {"sent", "not_sent", status[m]} :
             status' = [status EXCEPT ![m] = s]
    <3>1. CASE \E m \in Messages : SendAndTrack(m)
      <4>1. PICK m \in Messages : SendAndTrack(m)
        BY <3>1
      <4>2. Route(sender) \in {"webrtc", "ws", "none"}
        BY DEF Route
      <4>3. CASE Route(sender) = "webrtc"
        BY <4>1, <4>3 DEF SendAndTrack
      <4>4. CASE Route(sender) = "ws"
        BY <4>1, <4>4 DEF SendAndTrack
      <4>5. CASE Route(sender) = "none"
        BY <4>1, <4>5 DEF SendAndTrack
      <4>6. QED BY <4>2, <4>3, <4>4, <4>5
    <3>2. CASE \E m \in Messages : ResendSends(m)
      BY <3>2 DEF ResendSends
    <3>3. CASE MarkConversationAsRead
      BY <3>3 DEF MarkConversationAsRead
    <3>4. QED BY <3>1, <3>2, <3>3
  <2>2. QED BY <2>1 DEF TypeInv, Statuses
<1>6. TypeInv'
  BY <1>1, <1>4, <1>5 DEF TypeInv
<1>7. FramesInv'
  BY <1>1, <1>3 DEF FramesInv
<1>8. DeliveredIsSaved'
  BY <1>1, <1>5 DEF DeliveredIsSaved
<1>9. QED BY <1>6, <1>7, <1>8

\* The sender's steps between one sending and the next.
LEMMA BookkeepingKeeps ==
  ASSUME TypeInv, FramesInv, DeliveredIsSaved,
         \/ \E m \in Messages : \/ CreateMessage(m) \/ UserResends(m)
                               \/ AckTimeout(m) \/ ResendMarks(m)
         \/ PickUnsent
  PROVE  TypeInv' /\ FramesInv' /\ DeliveredIsSaved'
<1>1. /\ UNCHANGED <<open, home, local, setup, presence, queue, relaying, accepted>>
      /\ UNCHANGED <<up, down, peer, inbox, receiving, channel>>
  BY DEF CreateMessage, UserResends, AckTimeout, ResendMarks, PickUnsent,
         SenderOnly, RelayOnly
<1>2. /\ created' \subseteq Messages /\ timer' \subseteq Messages
      /\ unsent' \subseteq Messages /\ marked' \subseteq Messages
  BY DEF CreateMessage, UserResends, AckTimeout, ResendMarks, PickUnsent, TypeInv
<1>3. \/ UNCHANGED status
      \/ \E m \in Messages : \E s \in {"sending", "not_sent", status[m]} :
           status' = [status EXCEPT ![m] = s]
  <2>1. CASE \E m \in Messages : CreateMessage(m) \/ ResendMarks(m)
    BY <2>1 DEF CreateMessage, ResendMarks
  <2>2. CASE PickUnsent \/ \E m \in Messages : UserResends(m)
    BY <2>2 DEF PickUnsent, UserResends
  <2>3. CASE \E m \in Messages : AckTimeout(m)
    BY <2>3 DEF AckTimeout
  <2>4. QED BY <2>1, <2>2, <2>3
<1>4. /\ status' \in [Messages -> Statuses]
      /\ \A m \in Messages : status'[m] = "delivered" => status[m] = "delivered"
  BY <1>3 DEF TypeInv, Statuses
<1>5. TypeInv'
  BY <1>1, <1>2, <1>4 DEF TypeInv
<1>6. FramesInv'
  BY <1>1 DEF FramesInv
<1>7. DeliveredIsSaved'
  BY <1>1, <1>4 DEF DeliveredIsSaved
<1>8. QED BY <1>5, <1>6, <1>7

LEMMA SocketKeeps ==
  ASSUME TypeInv, FramesInv, DeliveredIsSaved, NEW u \in Users, HearSocket(u)
  PROVE  TypeInv' /\ FramesInv' /\ DeliveredIsSaved' /\ UNCHANGED inbox
<1>1. /\ UNCHANGED <<open, home, local, setup, presence, queue, relaying, accepted>>
      /\ UNCHANGED <<created, unsent, marked, channel>>
      /\ down' = [down EXCEPT ![u] = Tail(@)] /\ down[u] # <<>>
  BY DEF HearSocket, RelayOnly
<1>2. /\ Head(down[u]) \in Got(inbox)
      /\ down' \in [Users -> Seq(Got(inbox))]
  BY <1>1, Dequeue DEF FramesInv
<1>3. CASE u = sender /\ SenderHears(Head(down[u]), "ws") /\ UNCHANGED peer
  <2>1. /\ status' \in [Messages -> Statuses] /\ timer' \subseteq Messages
        /\ UNCHANGED <<up, inbox, receiving>> /\ DeliveredIsSaved'
    BY <1>2, <1>3, SenderHearsKeeps
  <2>2. TypeInv'
    BY <1>1, <2>1 DEF TypeInv
  <2>3. FramesInv'
    BY <1>1, <1>2, <1>3, <2>1 DEF FramesInv
  <2>4. QED BY <2>1, <2>2, <2>3
<1>4. CASE u = receiver /\ ReceiverHears(Head(down[u]), peer)
  <2>1. /\ UNCHANGED <<status, timer, inbox>>
        /\ receiving' \in [Messages -> Nat]
        /\ up' \in [Users -> Seq(Sent(inbox))]
        /\ peer' \in [Users -> Seq(Sent(inbox))]
    BY <1>2, <1>4, ReceiverHearsKeeps DEF FramesInv
  <2>2. TypeInv'
    BY <1>1, <2>1 DEF TypeInv
  <2>3. FramesInv'
    BY <1>1, <1>2, <2>1 DEF FramesInv
  <2>4. DeliveredIsSaved'
    BY <2>1 DEF DeliveredIsSaved
  <2>5. QED BY <2>1, <2>2, <2>3, <2>4
<1>5. QED BY <1>3, <1>4 DEF HearSocket

LEMMA PeerKeeps ==
  ASSUME TypeInv, FramesInv, DeliveredIsSaved, NEW u \in Users, HearPeer(u)
  PROVE  TypeInv' /\ FramesInv' /\ DeliveredIsSaved' /\ UNCHANGED inbox
<1> DEFINE rest == [peer EXCEPT ![u] = Tail(@)]
<1>1. /\ UNCHANGED <<open, home, local, setup, presence, queue, relaying, accepted>>
      /\ UNCHANGED <<down, created, unsent, marked, channel>> /\ peer[u] # <<>>
  BY DEF HearPeer, RelayOnly
<1>2. /\ Head(peer[u]) \in Got(inbox)
      /\ rest \in [Users -> Seq(Sent(inbox))]
  BY <1>1, Dequeue DEF FramesInv, Got
<1>3. CASE u = sender /\ SenderHears(Head(peer[u]), "webrtc") /\ peer' = rest
  <2>1. /\ status' \in [Messages -> Statuses] /\ timer' \subseteq Messages
        /\ UNCHANGED <<up, inbox, receiving>> /\ DeliveredIsSaved'
    BY <1>2, <1>3, SenderHearsKeeps
  <2>2. TypeInv'
    BY <1>1, <2>1 DEF TypeInv
  <2>3. FramesInv'
    BY <1>1, <1>2, <1>3, <2>1 DEF FramesInv
  <2>4. QED BY <2>1, <2>2, <2>3
<1>4. CASE u = receiver /\ ReceiverHears(Head(peer[u]), rest)
  <2>1. /\ UNCHANGED <<status, timer, inbox>>
        /\ receiving' \in [Messages -> Nat]
        /\ up' \in [Users -> Seq(Sent(inbox))]
        /\ peer' \in [Users -> Seq(Sent(inbox))]
    BY <1>2, <1>4, ReceiverHearsKeeps
  <2>2. TypeInv'
    BY <1>1, <2>1 DEF TypeInv
  <2>3. FramesInv'
    BY <1>1, <2>1 DEF FramesInv
  <2>4. DeliveredIsSaved'
    BY <2>1 DEF DeliveredIsSaved
  <2>5. QED BY <2>1, <2>2, <2>3, <2>4
<1>5. QED BY <1>3, <1>4 DEF HearPeer

LEMMA EndsKeep ==
  ASSUME TypeInv, FramesInv, DeliveredIsSaved,
         ChannelOpens \/ ChannelCloses \/ \E u \in Users : AppStops(u)
  PROVE  TypeInv' /\ FramesInv' /\ DeliveredIsSaved' /\ UNCHANGED inbox
<1>1. CASE ChannelOpens
  BY <1>1 DEF ChannelOpens, relayVars, TypeInv, FramesInv, DeliveredIsSaved
<1>2. CASE ChannelCloses
  <2>1. peer' \in [Users -> Seq(Sent(inbox))]
    BY <1>2, Empty DEF ChannelCloses, FramesInv
  <2>2. QED BY <1>2, <2>1
            DEF ChannelCloses, relayVars, TypeInv, FramesInv, DeliveredIsSaved
<1>3. CASE \E u \in Users : AppStops(u)
  <2>1. PICK u \in Users : AppStops(u)
    BY <1>3
  <2>2. /\ LoseSocket(u) /\ UNCHANGED <<status, inbox>>
        /\ UNCHANGED <<home, presence, queue, relaying, accepted>>
        /\ channel' = FALSE
    BY <2>1 DEF AppStops, LoseSocket
  <2>3. /\ created' \subseteq Messages /\ timer' \subseteq Messages
        /\ unsent' \subseteq Messages /\ marked' \subseteq Messages
        /\ receiving' \in [Messages -> Nat]
    BY <2>1 DEF AppStops, TypeInv
  <2>4. peer' \in [Users -> Seq(Sent(inbox))]
    BY <2>1, Empty DEF AppStops, FramesInv
  <2>5. TypeInv'
    BY <2>2, <2>3, LoseKeeps DEF TypeInv
  <2>6. FramesInv'
    BY <2>2, <2>4, LoseKeeps DEF FramesInv
  <2>7. DeliveredIsSaved'
    BY <2>2 DEF DeliveredIsSaved
  <2>8. QED BY <2>2, <2>5, <2>6, <2>7
<1>4. QED BY <1>1, <1>2, <1>3

-----------------------------------------------------------------------------
(* The queue                                                               *)

LEMMA DrainSpares ==
  ASSUME TypeInv, FramesInv, AcceptedIsKept, UNCHANGED inbox,
         NEW u \in Users, Drain(u)
  PROVE  AcceptedIsKept'
<1>1. \A r \in queue \ queue' : r.type # "chat"
  BY DrainKeeps
<1>2. UNCHANGED accepted
  BY DEF Drain
<1>3. \A m \in Messages : Chat(m).type = "chat"
  BY DEF Chat, Frame
<1>4. QED BY <1>1, <1>2, <1>3 DEF AcceptedIsKept, Queued, TypeInv

LEMMA RelaySpares ==
  ASSUME TypeInv, FramesInv, AcceptedIsKept, UNCHANGED inbox,
         NEW u \in Users, Relay(u)
  PROVE  AcceptedIsKept'
<1> DEFINE f == Head(up[u])
<1>1. f \in Sent(inbox)
  BY Dequeue DEF FramesInv, Relay
<1>2. f.type = "ack" => f.id \in inbox
  BY <1>1, SentFacts DEF TypeInv
<1>3. /\ queue' = queue \ {r \in queue : /\ f.type = "ack"
                                        /\ r.id = f.id /\ r.to = f.from}
      /\ UNCHANGED accepted
  BY DEF Relay
<1>4. \A m \in Messages : Chat(m).id = m
  BY DEF Chat, Frame
<1>5. QED BY <1>2, <1>3, <1>4 DEF AcceptedIsKept, Queued, TypeInv

LEMMA RelayOnKeepsChats ==
  ASSUME TypeInv, FramesInv, AcceptedIsKept, UNCHANGED inbox,
         NEW u \in Users, RelayOn(u)
  PROVE  AcceptedIsKept'
<1>1. PICK f \in Sent(inbox) : f = relaying[u].frame
  BY DEF FramesInv, RelayOn, Pending
<1>2. f.type = "chat" => f.id \in Messages /\ f = Chat(f.id)
  BY <1>1, SentFacts DEF TypeInv
<1>3. CASE relaying[u].online
  BY <1>3 DEF RelayOn, AcceptedIsKept, Queued
<1>4. CASE ~relaying[u].online
  <2>1. /\ queue' = IF \E r \in queue : r.id = f.id /\ r.to = f.to
                      THEN queue ELSE queue \cup {f}
        /\ accepted' = IF f.type = "chat" THEN accepted \cup {f.id} ELSE accepted
    BY <1>1, <1>4 DEF RelayOn
  <2>2. \A m \in accepted : Queued(m)' \/ m \in inbox'
    BY <2>1 DEF AcceptedIsKept, Queued
  <2>3. f.type = "chat" => Queued(f.id)'
    <3>1. SUFFICES ASSUME f.type = "chat" PROVE f \in queue'
      BY <1>2 DEF Queued
    <3>2. \A r \in queue : r.id = f.id /\ r.to = f.to => r = f
      <4>1. TAKE r \in queue
      <4>2. r \in Sent(inbox)
        BY DEF FramesInv
      <4>3. f.to = receiver
        BY <1>2, <3>1 DEF Chat, Frame
      <4>4. r.to = receiver => r.type = "chat"
        BY <4>2, SentFacts, ChatAssumption DEF TypeInv, Ack, Seen, Frame
      <4>5. r.type = "chat" => r = Chat(r.id)
        BY <4>2, SentFacts DEF TypeInv
      <4>6. QED BY <1>2, <3>1, <4>3, <4>4, <4>5
    <3>3. QED BY <2>1, <3>2
  <2>4. QED BY <2>1, <2>2, <2>3 DEF AcceptedIsKept
<1>5. QED BY <1>3, <1>4

LEMMA ServerSpares ==
  ASSUME TypeInv, FramesInv, AcceptedIsKept, RelayNext, UNCHANGED chatVars
  PROVE  AcceptedIsKept'
<1>1. UNCHANGED inbox
  BY DEF chatVars
<1>2. CASE UNCHANGED <<queue, accepted>>
  BY <1>1, <1>2 DEF AcceptedIsKept, Queued
<1>3. \/ UNCHANGED <<queue, accepted>>
      \/ \E u \in Users : Drain(u) \/ Relay(u) \/ RelayOn(u)
  BY DEF RelayNext, ServerStep, SetPresence, Subscribe, Heartbeat,
         PresenceExpires, DeviceBreaks, DeviceNotices, LoseSocket, Accept,
         ServerNotices, WorkerStops
<1>4. QED BY <1>1, <1>2, <1>3, DrainSpares, RelaySpares, RelayOnKeepsChats

\* The steps of the apps and of the data channel leave the server's queue alone.
LEMMA ChatSpares ==
  ASSUME AcceptedIsKept, inbox \subseteq inbox', UNCHANGED <<queue, accepted>>
  PROVE  AcceptedIsKept'
BY DEF AcceptedIsKept, Queued

-----------------------------------------------------------------------------
(* The theorems                                                            *)

LEMMA InitIInv == Init => IInv
<1>1. SUFFICES ASSUME Init PROVE IInv
  OBVIOUS
<1>2. TypeInv
  <2>1. (CHOOSE w \in Workers : TRUE) \in Workers
    BY RelayAssumption
  <2>2. QED BY <1>1, <2>1 DEF Init, RelayInit, TypeInv, Statuses
<1>3. FramesInv
  <2>1. \A S : [u \in Users |-> <<>>] \in [Users -> Seq(S)]
    OBVIOUS
  <2>2. IsFiniteSet(queue)
    BY <1>1, FS_EmptySet DEF Init, RelayInit
  <2>3. QED BY <1>1, <2>1, <2>2 DEF Init, RelayInit, FramesInv
<1>4. DeliveredIsSaved /\ AcceptedIsKept
  BY <1>1 DEF Init, RelayInit, DeliveredIsSaved, AcceptedIsKept
<1>5. QED BY <1>2, <1>3, <1>4 DEF IInv

LEMMA StepIInv == IInv /\ [Next]_vars => IInv'
<1>1. SUFFICES ASSUME TypeInv, FramesInv, DeliveredIsSaved, AcceptedIsKept,
                      [Next]_vars
               PROVE  TypeInv' /\ FramesInv' /\ DeliveredIsSaved' /\ AcceptedIsKept'
  BY DEF IInv
<1>2. CASE RelayNext /\ UNCHANGED chatVars
  <2>1. DeliveredIsSaved'
    BY <1>1, <1>2 DEF chatVars, DeliveredIsSaved
  <2>2. QED BY <1>1, <1>2, <2>1, ServerSteps, ServerSpares
<1>3. CASE \E m \in Messages : SaveIncoming(m)
  <2>1. inbox \subseteq inbox' /\ UNCHANGED <<queue, accepted>>
    BY <1>3 DEF SaveIncoming, RelayOnly
  <2>2. QED BY <1>1, <1>3, <2>1, SaveKeeps, ChatSpares
<1>4. CASE \/ \E m \in Messages : SendAndTrack(m) \/ ResendSends(m)
           \/ MarkConversationAsRead
  <2>1. UNCHANGED <<inbox, queue, accepted>>
    BY <1>4 DEF SendAndTrack, ResendSends, MarkConversationAsRead, SenderOnly,
                RelayOnly
  <2>2. QED BY <1>1, <1>4, <2>1, SendingKeeps, ChatSpares
<1>5. CASE \/ \E m \in Messages : \/ CreateMessage(m) \/ UserResends(m)
                                 \/ AckTimeout(m) \/ ResendMarks(m)
           \/ PickUnsent
  <2>1. UNCHANGED <<inbox, queue, accepted>>
    BY <1>5 DEF CreateMessage, UserResends, AckTimeout, ResendMarks, PickUnsent,
                SenderOnly, RelayOnly
  <2>2. QED BY <1>1, <1>5, <2>1, BookkeepingKeeps, ChatSpares
<1>6. CASE \E u \in Users : HearSocket(u) \/ HearPeer(u)
  <2>1. UNCHANGED <<queue, accepted>>
    BY <1>6 DEF HearSocket, HearPeer, RelayOnly
  <2>2. QED BY <1>1, <1>6, <2>1, SocketKeeps, PeerKeeps, ChatSpares
<1>7. CASE ChannelOpens \/ ChannelCloses \/ \E u \in Users : AppStops(u)
  <2>1. UNCHANGED <<queue, accepted>>
    BY <1>7 DEF ChannelOpens, ChannelCloses, AppStops, LoseSocket, relayVars
  <2>2. QED BY <1>1, <1>7, <2>1, EndsKeep, ChatSpares
<1>8. CASE UNCHANGED vars
  BY <1>1, <1>8 DEF vars, relayVars, chatVars, TypeInv, FramesInv,
                    DeliveredIsSaved, AcceptedIsKept, Queued
<1>9. QED BY <1>1, <1>2, <1>3, <1>4, <1>5, <1>6, <1>7, <1>8 DEF Next, ChatStep

LEMMA IInvTypeOK == IInv => TypeOK
<1>1. SUFFICES ASSUME TypeInv, FramesInv PROVE TypeOK
  BY DEF IInv
<1>2. inbox \in SUBSET Messages
  BY <1>1 DEF TypeInv
<1>3. /\ \A f \in Sent(inbox) : IsFrame(f)
      /\ \A f \in Got(inbox) : IsFrame(f)
  BY <1>2, SentFacts, GotFacts
<1>4. \A u \in Users :
        /\ \A i \in DOMAIN up[u] : IsFrame(up[u][i])
        /\ \A i \in DOMAIN down[u] : IsFrame(down[u][i])
        /\ \A i \in DOMAIN peer[u] : IsFrame(peer[u][i])
  <2>1. TAKE u \in Users
  <2>2. /\ up[u] \in Seq(Sent(inbox)) /\ down[u] \in Seq(Got(inbox))
        /\ peer[u] \in Seq(Sent(inbox))
    BY <1>1 DEF FramesInv
  <2>3. /\ \A i \in DOMAIN up[u] : up[u][i] \in Sent(inbox)
        /\ \A i \in DOMAIN down[u] : down[u][i] \in Got(inbox)
        /\ \A i \in DOMAIN peer[u] : peer[u][i] \in Sent(inbox)
    BY <2>2, ElementOfSeq, LenProperties
  <2>4. QED BY <1>3, <2>3
<1>5. \A u \in Users : relaying[u] # Idle => IsFrame(relaying[u].frame)
  BY <1>1, <1>3 DEF FramesInv, Pending
<1>6. \A f \in queue : IsFrame(f)
  BY <1>1, <1>3 DEF FramesInv
<1>7. QED BY <1>1, <1>4, <1>5, <1>6 DEF TypeInv, TypeOK

\* In every reachable state the types hold, whatever is under way or queued is
\* a chat, a seen or the acknowledgement of a saved message, a message shown as
\* delivered is saved and an accepted one is queued or saved.
THEOREM Invariance == Spec => []IInv
<1>1. QED BY InitIInv, StepIInv, PTL DEF Spec

\* Every variable of the relay and of the two apps keeps its type.
THEOREM TypeCorrectness == Spec => []TypeOK
<1>1. QED BY Invariance, IInvTypeOK, PTL

\* A message the sender's app shows as delivered is in the receiver's database,
\* for any number of messages, workers, failures and resends.
THEOREM DeliveredOnlyIfSaved == Spec => []DeliveredIsSaved
<1>1. IInv => DeliveredIsSaved
  BY DEF IInv
<1>2. QED BY Invariance, <1>1, PTL

\* A message relay_message() queued and acknowledged stays in the Queue table
\* until the receiver's app has saved it, whatever breaks or stops on the way.
THEOREM AcceptedStaysQueued == Spec => []AcceptedIsKept
<1>1. IInv => AcceptedIsKept
  BY DEF IInv
<1>2. QED BY Invariance, <1>1, PTL
=============================================================================
