----------------------------- MODULE ServerRelay -----------------------------
(***************************************************************************)
(* The WebSocket relay of the server: the workers' ConnectionManagers with  *)
(* the presence they share in Redis, main_web_socket(), relay_message() and *)
(* the Queue table (src/server/app/db_operations/connection_manager.py,     *)
(* db_operations/websockets.py, api/peer_connection.py).  What the devices  *)
(* do is left to the module that extends this one.                          *)
(***************************************************************************)
EXTENDS Naturals, Sequences, FiniteSets

CONSTANTS
  Users, Workers,
  DrainLimit,   \* rows a new connection is given; 100 in the code
  MaxDrops      \* bound on the connections that break

ASSUME RelayAssumption == Workers # {} /\ DrainLimit \in Nat \ {0}

VARIABLES
  open,      \* users whose device takes its socket for open
  home,      \* the worker a user last connected to
  local,     \* _local of each worker: the device's socket, an older one, none
  setup,     \* how far the server is with a user's connection
  presence,  \* the sorted set ws:online_users
  queue,     \* the Queue table
  up, down,  \* frames on their way from and to a user's device
  relaying,  \* per sender, a frame whose target is not in _local
  accepted,  \* history: messages queued with a server-ack
  drops

relayVars == <<open, home, local, setup, presence, queue, up, down, relaying,
               accepted, drops>>

Idle == [frame |-> "none"]

RelayInit ==
  /\ open = {} /\ home = [u \in Users |-> CHOOSE w \in Workers : TRUE]
  /\ local = [w \in Workers |-> [u \in Users |-> "none"]]
  /\ setup = [u \in Users |-> "none"]
  /\ presence = {} /\ queue = {} /\ accepted = {} /\ drops = 0
  /\ up = [u \in Users |-> <<>>] /\ down = [u \in Users |-> <<>>]
  /\ relaying = [u \in Users |-> Idle]

Frame(type, id, from, to) == [type |-> type, id |-> id, from |-> from, to |-> to]

Live(u) == local[home[u]][u] = "live"

-----------------------------------------------------------------------------
(* ConnectionManager                                                       *)

\* connect(): accept and the entry in _local; an older entry is overwritten.
Accept(u, w) ==
  /\ u \notin open /\ open' = open \cup {u}
  /\ home' = [home EXCEPT ![u] = w]
  /\ local' = [local EXCEPT ![w][u] = "live"]
  /\ setup' = [setup EXCEPT ![u] = "accepted"]
  /\ UNCHANGED <<presence, queue, up, down, relaying, accepted, drops>>

SetPresence(u) ==
  /\ setup[u] = "accepted" /\ setup' = [setup EXCEPT ![u] = "present"]
  /\ presence' = presence \cup {u}
  /\ UNCHANGED <<open, home, local, queue, up, down, relaying, accepted, drops>>

Subscribe(u) ==
  /\ setup[u] = "present" /\ setup' = [setup EXCEPT ![u] = "subscribed"]
  /\ UNCHANGED <<open, home, local, presence, queue, up, down, relaying,
                 accepted, drops>>

\* The refresh of the score every 30 s, for whatever socket the worker holds.
Heartbeat(u) ==
  /\ \E w \in Workers : local[w][u] # "none"
  /\ setup[u] # "accepted" /\ u \notin presence
  /\ presence' = presence \cup {u}
  /\ UNCHANGED <<open, home, local, setup, queue, up, down, relaying, accepted,
                 drops>>

\* 90 s without a refresh.
PresenceExpires(u) ==
  /\ \A w \in Workers : local[w][u] = "none"
  /\ u \in presence /\ presence' = presence \ {u}
  /\ UNCHANGED <<open, home, local, setup, queue, up, down, relaying, accepted,
                 drops>>

\* publish() on the user's channel: the socket subscribed gets it, if any.
Publish(v, f) ==
  down' = IF setup[v] \in {"subscribed", "serving"}
            THEN [down EXCEPT ![v] = Append(@, f)] ELSE down

\* send_personal_message(): an old socket swallows the frame, or its failure
\* ends in disconnect(), with the user's presence, and a publish().
SendPersonalMessage(w, v, f) ==
  \/ /\ local[w][v] = "live"
     /\ down' = [down EXCEPT ![v] = Append(@, f)]
     /\ UNCHANGED <<local, presence>>
  \/ local[w][v] = "stale" /\ UNCHANGED <<down, local, presence>>
  \/ /\ local[w][v] = "stale" /\ Publish(v, f)
     /\ local' = [local EXCEPT ![w][v] = "none"]
     /\ presence' = presence \ {v}
  \/ local[w][v] = "none" /\ Publish(v, f) /\ UNCHANGED <<local, presence>>

-----------------------------------------------------------------------------
(* main_web_socket() and relay_message()                                   *)

\* mutant: chats leave the queue as they are sent
SpentOnceSent(r) == TRUE

\* Rows that go with the drain; a chat stays until it is acknowledged.
SpentByDrain(r) == r.type \in {"ack", "seen"}

\* mutant: one row short of the limit
BatchBelowLimit(n) == IF n < DrainLimit THEN n ELSE DrainLimit - 1

\* .limit(limit)
Batch(n) == IF n < DrainLimit THEN n ELSE DrainLimit

\* get_queued_messages() has no order; queued acks are deleted unsent.
Drain(u) ==
  /\ setup[u] = "subscribed" /\ setup' = [setup EXCEPT ![u] = "serving"]
  /\ LET rows == {r \in queue : r.to = u}
     IN \E got \in SUBSET rows :
          /\ Cardinality(got) = Batch(Cardinality(rows))
          /\ queue' = queue \ {r \in got : SpentByDrain(r)}
          /\ LET sent == {r \in got : r.type # "ack"}
             IN \E order \in [1 .. Cardinality(sent) -> sent] :
                  /\ \A r \in sent : \E i \in DOMAIN order : order[i] = r
                  /\ down' = [down EXCEPT ![u] = @ \o order]
  /\ UNCHANGED <<open, home, local, presence, up, relaying, accepted, drops>>

\* The receive loop takes a frame.  An ack frees the rows it answers.  For a
\* target not in _local the presence is asked of Redis, an await.
Relay(u) ==
  /\ setup[u] = "serving" /\ relaying[u] = Idle /\ up[u] # <<>>
  /\ LET f == Head(up[u])
         w == home[u]
     IN  /\ up' = [up EXCEPT ![u] = Tail(@)]
         /\ queue' = queue \ {r \in queue : /\ f.type = "ack"
                                            /\ r.id = f.id /\ r.to = f.from}
         /\ IF local[w][f.to] # "none"
              THEN SendPersonalMessage(w, f.to, f) /\ UNCHANGED relaying
              ELSE /\ relaying' = [relaying EXCEPT ![u] =
                       [frame |-> f, at |-> w, online |-> f.to \in presence]]
                   /\ UNCHANGED <<down, local, presence>>
  /\ UNCHANGED <<open, home, setup, accepted, drops>>

\* The device looks at the server-ack of a chat only.
ServerAck(f) == Frame(IF f.type = "chat" THEN "server-ack" ELSE "noted",
                      f.id, f.from, f.to)

\* The answer of Redis is there, and may be old.
RelayOn(u) ==
  /\ relaying[u] # Idle
  /\ LET f == relaying[u].frame
         w == relaying[u].at
     IN  \/ /\ relaying[u].online
            /\ SendPersonalMessage(w, f.to, f)
            /\ UNCHANGED <<queue, accepted>>
         \/ /\ ~relaying[u].online
            /\ queue' = IF \E r \in queue : r.id = f.id /\ r.to = f.to
                          THEN queue ELSE queue \cup {f}
            /\ accepted' = IF f.type = "chat" THEN accepted \cup {f.id}
                           ELSE accepted
            /\ SendPersonalMessage(w, f.from, ServerAck(f))
  /\ relaying' = [relaying EXCEPT ![u] = Idle]
  /\ UNCHANGED <<open, home, setup, up, drops>>

-----------------------------------------------------------------------------
(* Connections end                                                         *)

\* The device gives its socket up; what was on its way is lost.
LoseSocket(u) ==
  /\ open' = open \ {u}
  /\ local' = IF Live(u) THEN [local EXCEPT ![home[u]][u] = "stale"] ELSE local
  /\ setup' = [setup EXCEPT ![u] = "none"]
  /\ up' = [up EXCEPT ![u] = <<>>] /\ down' = [down EXCEPT ![u] = <<>>]
  /\ UNCHANGED <<home, presence, queue, relaying, accepted>>

DeviceBreaks(u) ==
  /\ u \in open /\ Live(u) /\ LoseSocket(u)
  /\ drops < MaxDrops /\ drops' = drops + 1

\* The heartbeat of a device whose socket the server has dropped.
DeviceNotices(u) ==
  u \in open /\ ~Live(u) /\ LoseSocket(u) /\ UNCHANGED drops

\* WebSocketDisconnect and disconnect(): the presence goes with the socket,
\* be it an older one.
ServerNotices(w, u) ==
  /\ local[w][u] = "stale"
  /\ local' = [local EXCEPT ![w][u] = "none"]
  /\ presence' = presence \ {u}
  /\ UNCHANGED <<open, home, setup, queue, up, down, relaying, accepted, drops>>

\* A worker stops, or is recycled after --max-requests; Redis keeps presence.
WorkerStops(w) ==
  /\ drops < MaxDrops /\ drops' = drops + 1
  /\ LET here == {u \in Users : home[u] = w /\ Live(u)}
     IN  /\ setup' = [u \in Users |-> IF u \in here THEN "none" ELSE setup[u]]
         /\ up' = [u \in Users |-> IF u \in here THEN <<>> ELSE up[u]]
  /\ local' = [local EXCEPT ![w] = [u \in Users |-> "none"]]
  /\ relaying' = [u \in Users |->
       IF relaying[u] # Idle /\ relaying[u].at = w THEN Idle ELSE relaying[u]]
  /\ UNCHANGED <<open, home, presence, queue, down, accepted>>

ServerStep(u) ==
  \/ SetPresence(u) \/ Subscribe(u) \/ Drain(u) \/ Relay(u) \/ RelayOn(u)

RelayNext ==
  \/ \E u \in Users :
       \/ ServerStep(u) \/ Heartbeat(u) \/ PresenceExpires(u)
       \/ DeviceBreaks(u) \/ DeviceNotices(u)
       \/ \E w \in Workers : Accept(u, w) \/ ServerNotices(w, u)
  \/ \E w \in Workers : WorkerStops(w)
=============================================================================
