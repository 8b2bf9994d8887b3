----------------------------- MODULE CallsProofs -----------------------------
(***************************************************************************)
(* What holds of calls for any number of users and calls and any number of  *)
(* taps, timers, lost messages and outages: the state stays well formed, a  *)
(* device is only busy with a peer it has a session with or rings for, it   *)
(* starts no more negotiations than it prepared for, and what is started or *)
(* kept as completed was accepted.  That one of two phones gives way holds  *)
(* for two phones only, which that theorem assumes.                         *)
(***************************************************************************)
EXTENDS Calls, TLAPS

USE CallsAssumption

\* A ring was opened for some screen: the screen's parameters are a ring's.
RingWasShown == \A u \in Users : ring[u] # NoRing => shown[u] # NoRing

LEMMA TaskType ==
  ASSUME NEW p \in Users, NEW ui \in BOOLEAN
  PROVE  /\ \A op \in CallOps, c \in Calls : Task(op, p, c, "none", ui) \in Tasks
         /\ \A op \in Ops : Task(op, p, NoCall, "none", ui) \in Tasks
         /\ \A op \in {"end", "ended"}, c \in CallIds, s \in Ended :
              Task(op, p, c, s, ui) \in Tasks
BY DEF Task, Tasks, CallOps, Ops

LEMMA TaskFacts ==
  ASSUME NEW t \in Tasks
  PROVE  /\ t.peer \in Users /\ t.call \in CallIds /\ t.ui \in BOOLEAN
         /\ t.op \in CallOps => t.call \in Calls
         /\ t.op \in {"end", "ended"} => t.status \in Ended
         /\ t.op \notin {"end", "ended"} => t.status = "none"
BY DEF Tasks, CallOps, Ops, CallIds

LEMMA SessionFacts ==
  ASSUME NEW s \in Sessions
  PROVE  /\ s.call \in CallIds /\ s.answered \in BOOLEAN
         /\ s # NoSession => s.call \in Calls
<1>1. CASE s = NoSession
  BY <1>1 DEF NoSession, CallIds
<1>2. CASE s \in [call : Calls, incoming : BOOLEAN, answered : BOOLEAN]
  BY <1>2 DEF CallIds
<1> QED
  BY <1>1, <1>2 DEF Sessions

LEMMA EndingType ==
  ASSUME TypeOK, NEW u \in Users, NEW p \in Users, NEW ui \in BOOLEAN,
         NEW reason \in Ended \cup {"none"}
  PROVE  Ending(u, p, reason, ui) \in Tasks
<1>1. session[u][p] \in Sessions
  BY DEF TypeOK
<1>2. session[u][p].call \in CallIds
  BY <1>1, SessionFacts
<1>3. FinalStatus(reason, session[u][p]) \in Ended
  BY DEF FinalStatus, Ended
<1> QED
  BY <1>2, <1>3, TaskType DEF Ending

LEMMA DroppingType ==
  ASSUME NEW u \in Users, NEW p \in Users
  PROVE  Dropping(u, p) \subseteq Tasks
BY TaskType DEF Dropping, Ops

LEMMA TasksUpdated ==
  ASSUME TypeOK, NEW u \in Users, NEW t, NEW more \in SUBSET Tasks,
         Becomes(u, t, more) \/ Adds(u, more)
  PROVE  tasks' \in [Users -> SUBSET Tasks]
<1>1. tasks \in [Users -> SUBSET Tasks]
  BY DEF TypeOK
<1>2. (tasks[u] \ {t}) \cup more \in SUBSET Tasks /\ tasks[u] \cup more \in SUBSET Tasks
  BY <1>1
<1>3. \/ tasks' = [tasks EXCEPT ![u] = (tasks[u] \ {t}) \cup more]
      \/ tasks' = [tasks EXCEPT ![u] = tasks[u] \cup more]
  BY DEF Becomes, Adds
<1> QED
  BY <1>1, <1>2, <1>3

LEMMA TasksGained ==
  ASSUME TypeOK, NEW u \in Users, NEW t, NEW new \in Tasks,
         Becomes(u, t, {}) \/ Becomes(u, t, {new}) \/ Adds(u, {new}) \/ tasks' = tasks
  PROVE  tasks' \in [Users -> SUBSET Tasks]
<1>1. {} \in SUBSET Tasks /\ {new} \in SUBSET Tasks
  OBVIOUS
<1>2. CASE tasks' = tasks
  BY <1>2 DEF TypeOK
<1> QED
  BY <1>1, <1>2, TasksUpdated

LEMMA MessageType ==
  /\ \A c \in Calls : Message("call", c, "none") \in Messages
  /\ \A c \in Calls : Message("ready", c, "none") \in Messages
  /\ \A c \in CallIds, s \in Ended : Message("ended", c, s) \in Messages
  /\ \A c \in CallIds : Message("rejected", c, "busy") \in Messages
  /\ \A c \in CallIds : Message("rejected", c, "declined") \in Messages
BY DEF Message, Messages, CallIds

LEMMA MessageFacts ==
  ASSUME NEW m \in Messages
  PROVE  /\ m.call \in CallIds
         /\ m.type \in {"call", "ready"} => m.call \in Calls
         /\ m.type = "ended" => m.status \in Ended
BY DEF Messages, CallIds

LEMMA NetSent ==
  ASSUME TypeOK, NEW u \in Users, NEW p \in Users, NEW m \in Messages, Send(u, p, m)
  PROVE  net' \in [Users -> [Users -> Seq(Messages)]]
<1>1. Append(net[u][p], m) \in Seq(Messages)
  BY DEF TypeOK
<1> QED
  BY <1>1 DEF TypeOK, Send

LEMMA NetHeard ==
  ASSUME TypeOK, NEW u \in Users, NEW p \in Users, net[p][u] # <<>>
  PROVE  /\ Head(net[p][u]) \in Messages
         /\ Hear(u, p) => net' \in [Users -> [Users -> Seq(Messages)]]
<1>1. net[p][u] \in Seq(Messages)
  BY DEF TypeOK
<1>2. Head(net[p][u]) \in Messages /\ Tail(net[p][u]) \in Seq(Messages)
  BY <1>1
<1>3. net \in [Users -> [Users -> Seq(Messages)]]
  BY DEF TypeOK
<1>4. [net[p] EXCEPT ![u] = Tail(net[p][u])] \in [Users -> Seq(Messages)]
  BY <1>2, <1>3
<1>5. Hear(u, p) => net' = [net EXCEPT ![p] = [net[p] EXCEPT ![u] = Tail(net[p][u])]]
  BY DEF Hear
<1> QED
  BY <1>2, <1>3, <1>4, <1>5

LEMMA TapsCounted ==
  ASSUME TypeOK, NEW u \in Users
  PROVE  /\ Taps(u) => taps' \in [Users -> 0 .. MaxTaps]
         /\ Fails => losses' \in 0 .. MaxLosses
<1>1. taps \in [Users -> 0 .. MaxTaps] /\ losses \in 0 .. MaxLosses
  BY DEF TypeOK
<1>2. taps[u] < MaxTaps => taps[u] + 1 \in 0 .. MaxTaps
  BY <1>1, CallsAssumption
<1>3. losses < MaxLosses => losses + 1 \in 0 .. MaxLosses
  BY <1>1, CallsAssumption
<1> QED
  BY <1>1, <1>2, <1>3 DEF Taps, Fails

LEMMA LinksTornDown ==
  ASSUME TypeOK, NEW u \in Users, NEW p \in Users, NEW live \in BOOLEAN,
         TearDown(u, p, live)
  PROVE  /\ wire' \in [Users -> SUBSET Users] /\ media' \in [Users -> SUBSET Users]
         /\ stream' \in [Users -> BOOLEAN]
BY DEF TypeOK, TearDown

LEMMA SessionStored ==
  ASSUME TypeOK, NEW u \in Users, NEW p \in Users, NEW c \in Calls,
         NEW incoming \in BOOLEAN, NEW accepted \in BOOLEAN,
         Store(u, p, c, incoming, accepted)
  PROVE  /\ session' \in [Users -> [Users -> Sessions]]
         /\ rows' \in [Users -> [Calls -> Status]]
<1>1. [call |-> c, incoming |-> incoming, answered |-> accepted] \in Sessions
  BY DEF Sessions
<1>2. session' \in [Users -> [Users -> Sessions]]
  BY <1>1 DEF TypeOK, Store
<1>3. rows' \in [Users -> [Calls -> Status]]
  BY DEF TypeOK, Store, Status
<1> QED
  BY <1>2, <1>3

LEMMA SessionRetired ==
  ASSUME TypeOK, NEW u \in Users, NEW t \in Tasks, t.op \in {"end", "ended"},
         session' = [session EXCEPT ![u] = Retired(u, t)], Settled(u, t)
  PROVE  /\ Retired(u, t) \in [Users -> Sessions]
         /\ session' \in [Users -> [Users -> Sessions]]
         /\ rows' \in [Users -> [Calls -> Status]]
<1>1. t.peer \in Users /\ t.status \in Ended /\ t.call \in CallIds
  BY TaskFacts
<1>2. Retired(u, t) \in [Users -> Sessions]
  BY <1>1 DEF TypeOK, Retired, Sessions
<1>3. t.status \in Status
  BY <1>1 DEF Ended, Status
<1>4. rows' \in [Users -> [Calls -> Status]]
  BY <1>1, <1>3 DEF TypeOK, Settled, CallIds
<1> QED
  BY <1>2, <1>4 DEF TypeOK

LEMMA Freed ==
  ASSUME TypeOK, NEW u \in Users, NEW p \in Users, Release(u, p)
  PROVE  /\ listener' \in [Users -> Peers] /\ connected' \in [Users -> SUBSET Users]
         /\ stream' \in [Users -> BOOLEAN]
         /\ Released(u, p) \in Peers
         /\ \A m : GlareKept(u, m) \in SUBSET Users
BY DEF TypeOK, Release, Released, GlareKept, Peers

LEMMA RingClearedType ==
  ASSUME TypeOK, NEW u \in Users, NEW s, NEW m \in Peers, RingCleared(u, s, m)
  PROVE  /\ marker' \in [Users -> Peers] /\ glare' \in [Users -> SUBSET Users]
         /\ ring' \in [Users -> RingsOf] /\ rung' \in [Users -> RingsOf]
         /\ shown' = shown
         /\ RingWasShown => RingWasShown'
<1> DEFINE next == IF shown[u] # rung[u] THEN shown[u] ELSE NoRing
           left == OutOfRing(u, s, m)
<1>1. next \in RingsOf /\ shown[u] \in RingsOf
  BY DEF TypeOK, RingsOf
<1>2. left \in Peers
  BY DEF OutOfRing, Peers
<1>3. (IF next = NoRing THEN left ELSE next.from) \in Peers
  BY <1>1, <1>2 DEF RingsOf, Peers
<1>4. GlareKept(u, left) \in SUBSET Users
  BY DEF GlareKept, TypeOK
<1>5. /\ ring' = [ring EXCEPT ![u] = next] /\ rung' = [rung EXCEPT ![u] = shown[u]]
      /\ glare' = [glare EXCEPT ![u] = GlareKept(u, left)]
      /\ marker' = [marker EXCEPT ![u] = IF next = NoRing THEN left ELSE next.from]
      /\ shown' = shown
  BY DEF RingCleared
<1>6. RingWasShown => RingWasShown'
  BY <1>5 DEF TypeOK, RingWasShown
<1> HIDE DEF next, left
<1> QED
  BY <1>1, <1>3, <1>4, <1>5, <1>6 DEF TypeOK

LEMMA Advanced ==
  ASSUME NEW t \in Tasks, t.op \notin {"end", "ended"}, NEW op \in CallOps
  PROVE  /\ \A c \in Calls : [t EXCEPT !.op = op, !.call = c] \in Tasks
         /\ t.op \in CallOps => [t EXCEPT !.op = op] \in Tasks
BY DEF Tasks, CallOps, Ops

LEMMA FreshType ==
  ASSUME TypeOK, NEW u \in Users, NEW c, Fresh(u, c)
  PROVE  made' \in [Users -> 0 .. MaxCalls]
<1>1. made \in [Users -> 0 .. MaxCalls] /\ made[u] + 1 \in 0 .. MaxCalls
  BY CallsAssumption DEF TypeOK, Fresh
<1> QED
  BY <1>1 DEF Fresh

LEMMA RoomFacts ==
  ASSUME NEW r \in Rooms
  PROVE  /\ \A p \in Users : Room(p, "calling") \in Rooms /\ Room(p, "connected") \in Rooms
         /\ Room(r.peer, "calling") \in Rooms
         /\ \A st \in RoomState, b \in BOOLEAN, d \in BOOLEAN :
              /\ [r EXCEPT !.state = st] \in Rooms
              /\ [r EXCEPT !.state = st, !.terminated = b] \in Rooms
              /\ [r EXCEPT !.terminated = b] \in Rooms
              /\ [r EXCEPT !.state = st, !.rejected = d, !.terminated = b] \in Rooms
BY DEF Rooms, Room, Peers, RoomState

-----------------------------------------------------------------------------
(* Every step keeps the state well formed                                  *)

TypeInv == TypeOK /\ RingWasShown

LEMMA TaskOf ==
  ASSUME TypeOK, NEW u \in Users, NEW t \in tasks[u]
  PROVE  t \in Tasks /\ t.peer \in Users
<1>1. t \in Tasks
  BY DEF TypeOK
<1> QED
  BY <1>1, TaskFacts

LEMMA InformsType ==
  ASSUME TypeInv, NEW u \in Users, NEW p \in Users, NEW ui \in BOOLEAN,
         Informs(u, p, ui), taps' \in [Users -> 0 .. MaxTaps], room' \in [Users -> Rooms]
  PROVE  TypeInv'
<1> USE DEF TypeInv
<1>1. session[u][p] \in Sessions
  BY DEF TypeOK
<1>2. CASE Active(u, p)
  <2>1. Task("invite", p, session[u][p].call, "none", ui) \in Tasks
    BY <1>1, <1>2, SessionFacts, TaskType DEF Active, CallOps
  <2>2. tasks' \in [Users -> SUBSET Tasks]
    BY <1>2, <2>1, TasksGained DEF Informs
  <2>3. marker' = [marker EXCEPT ![u] = p] /\ stream' = stream
    BY <1>2 DEF Informs
  <2>4. marker' \in [Users -> Peers] /\ stream' \in [Users -> BOOLEAN]
    BY <2>3 DEF TypeOK, Peers
  <2> QED
    BY <2>2, <2>4 DEF Informs, TypeOK, RingWasShown, ringVars, storeVars, historyVars
<1>3. CASE ~Active(u, p)
  <2>1. Task("inform", p, NoCall, "none", ui) \in Tasks
    BY TaskType DEF Ops
  <2>2. tasks' \in [Users -> SUBSET Tasks]
    BY <1>3, <2>1, TasksGained DEF Informs
  <2>3. stream' \in [Users -> BOOLEAN] /\ marker' = marker
    BY <1>3 DEF Informs, TypeOK
  <2> QED
    BY <2>2, <2>3 DEF Informs, TypeOK, RingWasShown, ringVars, storeVars, historyVars
<1> QED
  BY <1>2, <1>3

LEMMA PlaceCallType ==
  ASSUME TypeInv, NEW u \in Users, NEW p \in Users, PlaceCall(u, p)
  PROVE  TypeInv'
<1>1. taps' \in [Users -> 0 .. MaxTaps]
  BY TapsCounted DEF PlaceCall, TypeInv
<1>2. Opened(u, p) \in Rooms
  BY DEF Opened, Room, Rooms, Peers, RoomState
<1>3. room' \in [Users -> Rooms]
  BY <1>2 DEF PlaceCall, TypeInv, TypeOK
<1> QED
  BY <1>1, <1>3, InformsType DEF PlaceCall

LEMMA CallAgainType ==
  ASSUME TypeInv, NEW u \in Users, CallAgain(u)
  PROVE  TypeInv'
<1>1. taps' \in [Users -> 0 .. MaxTaps]
  BY TapsCounted DEF CallAgain, TypeInv
<1>2. room' \in [Users -> Rooms]
  BY DEF CallAgain, TypeInv, TypeOK
<1> QED
  BY <1>1, <1>2, InformsType DEF CallAgain

LEMMA InformStoredType ==
  ASSUME TypeInv, NEW u \in Users, NEW t \in tasks[u], InformStored(u, t)
  PROVE  TypeInv'
<1> USE DEF TypeInv
<1>1. t \in Tasks /\ t.peer \in Users
  BY TaskOf
<1>2. PICK c \in Calls : /\ Fresh(u, c) /\ Store(u, t.peer, c, FALSE, FALSE)
                         /\ Becomes(u, t, {[t EXCEPT !.op = "invite", !.call = c]})
  BY DEF InformStored
<1>3. [t EXCEPT !.op = "invite", !.call = c] \in Tasks
  BY <1>1, Advanced DEF InformStored, CallOps
<1>4. tasks' \in [Users -> SUBSET Tasks]
  BY <1>2, <1>3, TasksGained
<1>5. /\ session' \in [Users -> [Users -> Sessions]] /\ rows' \in [Users -> [Calls -> Status]]
      /\ made' \in [Users -> 0 .. MaxCalls]
  BY <1>1, <1>2, SessionStored, FreshType
<1>6. marker' \in [Users -> Peers]
  BY <1>1 DEF InformStored, TypeOK, Peers
<1> QED
  BY <1>4, <1>5, <1>6 DEF InformStored, TypeOK, RingWasShown, screenVars, ringVars,
     linkVars, historyVars

LEMMA PreparesType ==
  ASSUME TypeInv, NEW u \in Users, NEW t \in tasks[u], Prepares(u, t)
  PROVE  /\ listener' \in [Users -> Peers] /\ invites' \in [Users -> Nat]
         /\ answered' = answered /\ started' = started /\ starts' = starts
         /\ elsewhere' = elsewhere
<1>1. t.peer \in Peers
  BY TaskOf DEF TypeInv, Peers
<1>2. listener \in [Users -> Peers] /\ invites \in [Users -> Nat]
  BY DEF TypeInv, TypeOK
<1>3. listener' \in [Users -> Peers]
  BY <1>1, <1>2 DEF Prepares
<1>4. invites' \in [Users -> Nat]
  BY <1>2 DEF Prepares
<1> QED
  BY <1>3, <1>4 DEF Prepares

LEMMA InviteType ==
  ASSUME TypeInv, NEW u \in Users, NEW t \in tasks[u], Invite(u, t)
  PROVE  TypeInv'
<1> USE DEF TypeInv
<1>1. t \in Tasks /\ t.peer \in Users /\ t.call \in Calls
  BY TaskOf, TaskFacts DEF Invite, CallOps
<1>2. tasks' \in [Users -> SUBSET Tasks]
  BY <1>1, TasksGained DEF Invite
<1>3. net' \in [Users -> [Users -> Seq(Messages)]]
  BY <1>1, MessageType, NetSent DEF Invite
<1>4. room[u] \in Rooms
  BY DEF TypeOK
<1>5. (IF t.ui THEN Room(room[u].peer, "calling") ELSE room[u]) \in Rooms
  BY <1>4, RoomFacts
<1>6. room' \in [Users -> Rooms]
  BY <1>5 DEF Invite, TypeOK
<1> QED
  BY <1>2, <1>3, <1>6, PreparesType DEF Invite, TypeOK, RingWasShown, ringVars, linkVars,
     storeVars

LEMMA InviteFailsType ==
  ASSUME TypeInv, NEW u \in Users, NEW t \in tasks[u], InviteFails(u, t)
  PROVE  TypeInv'
<1> USE DEF TypeInv
<1>1. t \in Tasks /\ t.peer \in Users
  BY TaskOf
<1>2. losses' \in 0 .. MaxLosses
  BY TapsCounted DEF InviteFails
<1>3. Ending(u, t.peer, "missed", FALSE) \in Tasks /\ Dropping(u, t.peer) \subseteq Tasks
  BY <1>1, EndingType, DroppingType DEF Ended
<1>4. tasks' \in [Users -> SUBSET Tasks]
  <2> DEFINE more == {Ending(u, t.peer, "missed", FALSE)} \cup Dropping(u, t.peer)
  <2>1. more \in SUBSET Tasks /\ {} \in SUBSET Tasks
    BY <1>3
  <2>2. Becomes(u, t, {}) \/ Becomes(u, t, more)
    BY DEF InviteFails
  <2> QED
    BY <2>1, <2>2, TasksUpdated
<1>5. Active(u, t.peer) \in BOOLEAN
  BY DEF Active
<1>6. CASE UNCHANGED <<linkVars, listener, historyVars>>
  BY <1>2, <1>4, <1>6 DEF InviteFails, TypeOK, RingWasShown, screenVars, ringVars,
     linkVars, historyVars, storeVars
<1>7. CASE TearDown(u, t.peer, Active(u, t.peer)) /\ Prepares(u, t)
  <2>1. /\ wire' \in [Users -> SUBSET Users] /\ media' \in [Users -> SUBSET Users]
        /\ stream' \in [Users -> BOOLEAN]
    BY <1>1, <1>5, <1>7, LinksTornDown
  <2> QED
    BY <1>2, <1>4, <1>7, <2>1, PreparesType DEF InviteFails, TypeOK, RingWasShown,
       screenVars, ringVars, storeVars
<1> QED
  BY <1>6, <1>7 DEF InviteFails

LEMMA HearReadyType ==
  ASSUME TypeInv, NEW u \in Users, NEW p \in Users, net[p][u] # <<>>,
         HearReady(u, p, Head(net[p][u]))
  PROVE  TypeInv'
<1> USE DEF TypeInv
<1> DEFINE c == session[u][p].call
           start == Task("start", p, c, "none", FALSE)
<1>1. net' \in [Users -> [Users -> Seq(Messages)]]
  BY NetHeard DEF HearReady
<1>2. session[u][p] \in Sessions /\ starts \in [Users -> Nat]
  BY DEF TypeOK
<1>3. Active(u, p) => c \in Calls /\ start \in Tasks
  BY <1>2, SessionFacts, TaskType DEF Active, CallOps
<1>4. \/ UNCHANGED <<listener, tasks, started, starts>>
      \/ /\ Active(u, p) /\ listener' = [listener EXCEPT ![u] = NoUser]
         /\ \/ UNCHANGED <<tasks, started, starts>>
            \/ /\ Adds(u, {start}) /\ started' = started \cup {c}
               /\ starts' = [starts EXCEPT ![u] = starts[u] + 1]
  BY DEF HearReady, ReadyAccepted, ListenerAfterReady
<1>5. listener' \in [Users -> Peers]
  BY <1>4 DEF TypeOK, Peers
<1>6. tasks' \in [Users -> SUBSET Tasks]
  <2>1. tasks' = tasks \/ (start \in Tasks /\ Adds(u, {start}))
    BY <1>3, <1>4
  <2>2. tasks' = tasks => tasks' \in [Users -> SUBSET Tasks]
    BY DEF TypeOK
  <2> QED
    BY <2>1, <2>2, TasksGained
<1>7. starts' \in [Users -> Nat]
  BY <1>2, <1>4
<1>8. started' \subseteq Calls
  <2>1. started \subseteq Calls
    BY DEF TypeOK
  <2>2. started' = started \/ (c \in Calls /\ started' = started \cup {c})
    BY <1>3, <1>4
  <2> HIDE DEF c
  <2> QED
    BY <2>1, <2>2
<1>9. UNCHANGED <<session, marker, glare, connected, ring, shown, rung, room, wire, media,
                  stream, rows, made, answered, invites, elsewhere, taps, losses>>
  BY DEF HearReady, screenVars, ringVars, linkVars, storeVars
<1> HIDE DEF c, start
<1> QED
  BY <1>1, <1>5, <1>6, <1>7, <1>8, <1>9 DEF TypeOK, RingWasShown

LEMMA StartConnectsType ==
  ASSUME TypeInv, NEW u \in Users, NEW t \in tasks[u], StartConnects(u, t)
  PROVE  TypeInv'
<1> USE DEF TypeInv
<1> DEFINE s == session[u][t.peer]
           e == [s EXCEPT !.answered = @ \/ s.call = t.call]
<1>1. t \in Tasks /\ t.peer \in Users /\ t.call \in Calls
  BY TaskOf, TaskFacts DEF StartConnects, CallOps
<1>2. s \in Sessions
  BY <1>1 DEF TypeOK
<1>3. e \in Sessions
  <2>1. CASE s = NoSession
    <3> DEFINE b == s.answered \/ s.call = t.call
    <3>1. b = FALSE
      BY <1>1, <2>1 DEF NoSession
    <3>2. e = [s EXCEPT !.answered = b]
      OBVIOUS
    <3> HIDE DEF b
    <3>3. e = [NoSession EXCEPT !.answered = FALSE]
      BY <2>1, <3>1, <3>2
    <3>4. [NoSession EXCEPT !.answered = FALSE] = NoSession
      <4>1. NoSession \in [call : {NoCall}, incoming : BOOLEAN, answered : BOOLEAN]
        BY DEF NoSession
      <4>2. NoSession.answered = FALSE
        BY DEF NoSession
      <4> QED
        BY <4>1, <4>2
    <3> QED
      BY <3>3, <3>4 DEF Sessions
  <2>2. CASE s \in [call : Calls, incoming : BOOLEAN, answered : BOOLEAN]
    <3> DEFINE b == s.answered \/ s.call = t.call
    <3>1. b \in BOOLEAN
      OBVIOUS
    <3>2. e = [s EXCEPT !.answered = b]
      OBVIOUS
    <3> HIDE DEF b
    <3>3. e \in [call : Calls, incoming : BOOLEAN, answered : BOOLEAN]
      BY <2>2, <3>1, <3>2
    <3> QED
      BY <3>3 DEF Sessions
  <2> QED
    BY <1>2, <2>1, <2>2 DEF Sessions
<1>4. session' \in [Users -> [Users -> Sessions]]
  <2>1. session' = [session EXCEPT ![u] = [session[u] EXCEPT ![t.peer] = e]]
    BY DEF StartConnects
  <2>2. [session[u] EXCEPT ![t.peer] = e] \in [Users -> Sessions]
    BY <1>3 DEF TypeOK
  <2> QED
    BY <2>1, <2>2 DEF TypeOK
<1>5. tasks' \in [Users -> SUBSET Tasks]
  BY <1>1, TasksGained DEF StartConnects
<1>6. wire' \in [Users -> SUBSET Users] /\ media' \in [Users -> SUBSET Users]
  <2>1. \A f \in [Users -> SUBSET Users], a, b \in Users :
          [f EXCEPT ![a] = @ \cup {b}, ![b] = @ \cup {a}] \in [Users -> SUBSET Users]
    OBVIOUS
  <2>2. wire \in [Users -> SUBSET Users] /\ media \in [Users -> SUBSET Users]
    BY DEF TypeOK
  <2> QED
    BY <1>1, <2>1, <2>2 DEF StartConnects
<1>7. connected' \in [Users -> SUBSET Users]
  BY <1>1 DEF StartConnects, TypeOK
<1> QED
  BY <1>4, <1>5, <1>6, <1>7 DEF StartConnects, TypeOK, RingWasShown, screenVars,
     ringVars, storeVars, historyVars

LEMMA StartFailsType ==
  ASSUME TypeInv, NEW u \in Users, NEW t \in tasks[u], StartFails(u, t)
  PROVE  TypeInv'
<1> USE DEF TypeInv
<1> DEFINE more == {Ending(u, t.peer, "missed", FALSE)} \cup Dropping(u, t.peer)
<1>1. t \in Tasks /\ t.peer \in Users
  BY TaskOf
<1>2. losses' \in 0 .. MaxLosses
  BY TapsCounted DEF StartFails
<1>3. more \in SUBSET Tasks /\ {} \in SUBSET Tasks
  <2>1. Ending(u, t.peer, "missed", FALSE) \in Tasks /\ Dropping(u, t.peer) \subseteq Tasks
    BY <1>1, EndingType, DroppingType DEF Ended
  <2> QED
    BY <2>1
<1>4. /\ Becomes(u, t, {}) \/ Becomes(u, t, more)
      /\ UNCHANGED linkVars \/ TearDown(u, t.peer, Active(u, t.peer))
  BY DEF StartFails
<1>5. tasks' \in [Users -> SUBSET Tasks]
  BY <1>3, <1>4, TasksUpdated
<1>6. Active(u, t.peer) \in BOOLEAN
  BY DEF Active
<1>7. /\ wire' \in [Users -> SUBSET Users] /\ media' \in [Users -> SUBSET Users]
      /\ stream' \in [Users -> BOOLEAN]
  <2>1. CASE UNCHANGED linkVars
    BY <2>1 DEF linkVars, TypeOK
  <2>2. CASE TearDown(u, t.peer, Active(u, t.peer))
    BY <1>1, <1>6, <2>2, LinksTornDown
  <2> QED
    BY <1>4, <2>1, <2>2
<1> QED
  BY <1>2, <1>5, <1>7 DEF StartFails, TypeOK, RingWasShown, callVars, screenVars,
     ringVars, storeVars, historyVars

LEMMA HearCallType ==
  ASSUME TypeInv, NEW u \in Users, NEW p \in Users, net[p][u] # <<>>,
         HearCall(u, p, Head(net[p][u]))
  PROVE  TypeInv'
<1> USE DEF TypeInv
<1> DEFINE m == Head(net[p][u])
           reply == Message("rejected", m.call, "busy")
           new == Task("notify", p, m.call, "none", FALSE)
<1>1. m \in Messages
  BY NetHeard
<1>2. m.call \in Calls /\ m.call \in CallIds
  BY <1>1, MessageFacts DEF HearCall
<1>3. elsewhere' \subseteq Users \X Users
  <2>1. elsewhere \subseteq Users \X Users
    BY DEF TypeOK
  <2> QED
    BY <2>1 DEF HearCall
<1>4. CASE BusyFor(u, p)
  <2>1. reply \in Messages
    BY <1>2, MessageType
  <2>2. net \in [Users -> [Users -> Seq(Messages)]]
    BY DEF TypeOK
  <2>3. Tail(net[p][u]) \in Seq(Messages)
    <3>1. net[p][u] \in Seq(Messages)
      BY <2>2
    <3> QED
      BY <3>1
  <2> DEFINE heard == [net EXCEPT ![p] = [net[p] EXCEPT ![u] = Tail(net[p][u])]]
  <2>4. heard \in [Users -> [Users -> Seq(Messages)]]
    BY <2>2, <2>3
  <2>5. net' = [heard EXCEPT ![u] = [heard[u] EXCEPT ![p] = Append(heard[u][p], reply)]]
    BY <1>4 DEF HearCall
  <2> HIDE DEF heard
  <2>6. Append(heard[u][p], reply) \in Seq(Messages)
    BY <2>1, <2>4
  <2>7. [heard[u] EXCEPT ![p] = Append(heard[u][p], reply)] \in [Users -> Seq(Messages)]
    BY <2>4, <2>6
  <2>8. net' \in [Users -> [Users -> Seq(Messages)]]
    BY <2>4, <2>5, <2>7
  <2>9. tasks' = tasks
    BY <1>4 DEF HearCall
  <2> QED
    BY <1>3, <2>8, <2>9 DEF HearCall, TypeOK, RingWasShown, callVars, screenVars, ringVars,
       linkVars, storeVars
<1>5. CASE ~BusyFor(u, p)
  <2>1. new \in Tasks
    BY <1>2, TaskType DEF CallOps
  <2>2. tasks' \in [Users -> SUBSET Tasks]
    BY <1>5, <2>1, TasksGained DEF HearCall
  <2>3. net' \in [Users -> [Users -> Seq(Messages)]]
    BY <1>5, NetHeard DEF HearCall
  <2> QED
    BY <1>3, <2>2, <2>3 DEF HearCall, TypeOK, RingWasShown, callVars, screenVars, ringVars,
       linkVars, storeVars
<1> QED
  BY <1>4, <1>5

LEMMA NotifiedType ==
  ASSUME TypeInv, NEW u \in Users, NEW t \in tasks[u], Notified(u, t)
  PROVE  TypeInv'
<1> USE DEF TypeInv
<1> DEFINE asked == [from |-> t.peer, call |-> t.call]
<1>1. t \in Tasks /\ t.peer \in Users /\ t.call \in Calls
  BY TaskOf, TaskFacts DEF Notified, CallOps
<1>2. tasks' \in [Users -> SUBSET Tasks]
  BY <1>1, TasksGained DEF Notified
<1>3. glare' \in [Users -> SUBSET Users]
  <2> DEFINE glares == IF marker[u] = t.peer THEN {t.peer} ELSE {}
  <2>1. glares \in SUBSET Users
    BY <1>1
  <2>2. glare' = [glare EXCEPT ![u] = glare[u] \cup glares]
    BY DEF Notified
  <2> HIDE DEF glares
  <2> QED
    BY <2>1, <2>2 DEF TypeOK
<1>4. asked \in RingsOf /\ asked # NoRing
  <2>1. asked \in [from : Users, call : Calls]
    BY <1>1
  <2>2. asked.from # NoRing.from
    BY <1>1, CallsAssumption DEF NoRing
  <2> QED
    BY <2>1, <2>2 DEF RingsOf
<1>5. \/ UNCHANGED <<ring, rung, shown, marker>>
      \/ /\ shown' = [shown EXCEPT ![u] = asked]
         /\ \/ UNCHANGED <<ring, rung, marker>>
            \/ /\ ring' = [ring EXCEPT ![u] = asked] /\ rung' = [rung EXCEPT ![u] = asked]
               /\ marker' = [marker EXCEPT ![u] = t.peer]
  BY DEF Notified, ringVars
<1> HIDE DEF asked
<1>6. /\ ring' \in [Users -> RingsOf] /\ rung' \in [Users -> RingsOf]
      /\ shown' \in [Users -> RingsOf]
  <2>1. \A f \in [Users -> RingsOf] : [f EXCEPT ![u] = asked] \in [Users -> RingsOf]
    BY <1>4
  <2>2. /\ ring \in [Users -> RingsOf] /\ rung \in [Users -> RingsOf]
        /\ shown \in [Users -> RingsOf]
    BY DEF TypeOK
  <2> QED
    BY <1>5, <2>1, <2>2
<1>7. marker' \in [Users -> Peers]
  BY <1>1, <1>5 DEF TypeOK, Peers
<1>8. RingWasShown'
  BY <1>4, <1>5 DEF RingWasShown, TypeOK
<1> QED
  BY <1>2, <1>3, <1>6, <1>7, <1>8 DEF Notified, TypeOK, linkVars, storeVars, historyVars

LEMMA AcceptType ==
  ASSUME TypeInv, NEW u \in Users, Accept(u)
  PROVE  TypeInv'
<1> USE DEF TypeInv
<1> DEFINE p == shown[u].from
<1>1. p \in Users /\ shown[u].call \in Calls
  <2>1. shown[u] \in RingsOf /\ shown[u] # NoRing
    BY DEF Accept, RingWasShown, TypeOK
  <2> QED
    BY <2>1 DEF RingsOf
<1>2. taps' \in [Users -> 0 .. MaxTaps]
  BY TapsCounted DEF Accept
<1>3. room' \in [Users -> Rooms]
  <2>1. Opened(u, p) \in Rooms
    BY <1>1 DEF Opened, Room, Rooms, Peers, RoomState
  <2> QED
    BY <2>1 DEF Accept, TypeOK
<1>4. session[u][p] \in Sessions
  BY <1>1 DEF TypeOK
<1>5. CASE Active(u, p)
  <2>1. session[u][p] \in [call : Calls, incoming : BOOLEAN, answered : BOOLEAN]
    BY <1>4, <1>5 DEF Active, Sessions
  <2>2. Answers(u, p) \in Tasks
    BY <1>1, <2>1, TaskType DEF Answers, CallOps
  <2>3. tasks' \in [Users -> SUBSET Tasks]
    BY <1>5, <2>2, TasksGained DEF Accept
  <2>4. session' \in [Users -> [Users -> Sessions]]
    <3>1. [session[u][p] EXCEPT !.answered = TRUE] \in Sessions
      BY <2>1 DEF Sessions
    <3>2. session' = [session EXCEPT ![u] =
                       [session[u] EXCEPT ![p] = [session[u][p] EXCEPT !.answered = TRUE]]]
      BY <1>5 DEF Accept
    <3>3. [session[u] EXCEPT ![p] = [session[u][p] EXCEPT !.answered = TRUE]]
            \in [Users -> Sessions]
      BY <3>1 DEF TypeOK
    <3> QED
      BY <3>2, <3>3 DEF TypeOK
  <2>5. /\ marker' = [marker EXCEPT ![u] = p] /\ stream' = stream
        /\ answered' = answered \cup {session[u][p].call}
    BY <1>5 DEF Accept
  <2>6. marker' \in [Users -> Peers] /\ answered' \subseteq Calls
    BY <1>1, <2>1, <2>5 DEF TypeOK, Peers
  <2> QED
    BY <1>2, <1>3, <2>3, <2>4, <2>5, <2>6 DEF Accept, TypeOK, RingWasShown, ringVars,
       storeVars
<1>6. CASE ~Active(u, p)
  <2>1. Task("answer", p, shown[u].call, "none", FALSE) \in Tasks
    BY <1>1, TaskType DEF CallOps
  <2>2. tasks' \in [Users -> SUBSET Tasks]
    BY <1>6, <2>1, TasksGained DEF Accept
  <2>3. stream' = [stream EXCEPT ![u] = FALSE] /\ UNCHANGED <<session, marker, answered>>
    BY <1>6 DEF Accept
  <2>4. stream' \in [Users -> BOOLEAN]
    BY <2>3 DEF TypeOK
  <2> QED
    BY <1>2, <1>3, <2>2, <2>3, <2>4 DEF Accept, TypeOK, RingWasShown, ringVars, storeVars
<1> QED
  BY <1>5, <1>6

LEMMA AnswerStoredType ==
  ASSUME TypeInv, NEW u \in Users, NEW t \in tasks[u], AnswerStored(u, t)
  PROVE  TypeInv'
<1> USE DEF TypeInv
<1>1. t \in Tasks /\ t.peer \in Users /\ t.call \in Calls /\ t.op \in CallOps
  BY TaskOf, TaskFacts DEF AnswerStored, CallOps
<1>2. [t EXCEPT !.op = "media"] \in Tasks
  BY <1>1, Advanced DEF AnswerStored, CallOps
<1>3. tasks' \in [Users -> SUBSET Tasks]
  BY <1>2, TasksGained DEF AnswerStored
<1>4. CASE rows[u][t.call] = "none"
  <2>1. session' \in [Users -> [Users -> Sessions]] /\ rows' \in [Users -> [Calls -> Status]]
    BY <1>1, <1>4, SessionStored DEF AnswerStored
  <2>2. marker' = [marker EXCEPT ![u] = t.peer] /\ answered' = answered \cup {t.call}
    BY <1>4 DEF AnswerStored
  <2>3. marker' \in [Users -> Peers] /\ answered' \subseteq Calls
    BY <1>1, <2>2 DEF TypeOK, Peers
  <2> QED
    BY <1>3, <2>1, <2>3 DEF AnswerStored, TypeOK, RingWasShown, screenVars, ringVars,
       linkVars
<1>5. CASE rows[u][t.call] # "none"
  BY <1>3, <1>5 DEF AnswerStored, TypeOK, RingWasShown, screenVars, ringVars, linkVars
<1> QED
  BY <1>4, <1>5

LEMMA ReadyType ==
  ASSUME TypeInv, NEW u \in Users, NEW t \in tasks[u], Ready(u, t)
  PROVE  TypeInv'
<1> USE DEF TypeInv
<1>1. t \in Tasks /\ t.peer \in Users /\ t.call \in Calls /\ t.op \in CallOps
  BY TaskOf, TaskFacts DEF Ready, CallOps
<1>2. [t EXCEPT !.op = "channel"] \in Tasks
  BY <1>1, Advanced DEF Ready, CallOps
<1>3. tasks' \in [Users -> SUBSET Tasks]
  BY <1>2, TasksGained DEF Ready
<1>4. net' \in [Users -> [Users -> Seq(Messages)]]
  <2>1. Message("ready", t.call, "none") \in Messages
    BY <1>1, MessageType
  <2>2. net' = net \/ Send(u, t.peer, Message("ready", t.call, "none"))
    BY DEF Ready
  <2>3. net' = net => net' \in [Users -> [Users -> Seq(Messages)]]
    BY DEF TypeOK
  <2> QED
    BY <1>1, <2>1, <2>2, <2>3, NetSent
<1>5. losses' \in 0 .. MaxLosses
  <2>1. losses' = losses \/ Fails
    BY DEF Ready
  <2>2. losses \in 0 .. MaxLosses
    BY DEF TypeOK
  <2> QED
    BY <2>1, <2>2, TapsCounted
<1> QED
  BY <1>3, <1>4, <1>5 DEF Ready, TypeOK, RingWasShown, callVars, screenVars, ringVars,
     linkVars, storeVars, historyVars

LEMMA ChannelType ==
  ASSUME TypeInv, NEW u \in Users, NEW t \in tasks[u], Channel(u, t)
  PROVE  TypeInv'
<1> USE DEF TypeInv
<1>1. t \in Tasks /\ t.peer \in Users
  BY TaskOf
<1>2. tasks' \in [Users -> SUBSET Tasks]
  BY <1>1, TasksGained DEF Channel
<1>3. CASE RingCleared(u, session[u], marker[u])
           /\ connected' = [connected EXCEPT ![u] = @ \cup {t.peer}]
  <2>1. marker[u] \in Peers
    BY DEF TypeOK
  <2>2. /\ marker' \in [Users -> Peers] /\ glare' \in [Users -> SUBSET Users]
        /\ ring' \in [Users -> RingsOf] /\ rung' \in [Users -> RingsOf]
        /\ shown' = shown /\ RingWasShown'
    BY <1>3, <2>1, RingClearedType
  <2>3. connected' \in [Users -> SUBSET Users]
    BY <1>1, <1>3 DEF TypeOK
  <2> QED
    BY <1>2, <2>2, <2>3 DEF Channel, TypeOK, linkVars, storeVars, historyVars
<1>4. CASE UNCHANGED <<connected, ringVars, marker, glare>>
  BY <1>2, <1>4 DEF Channel, TypeOK, RingWasShown, ringVars, linkVars, storeVars,
     historyVars
<1> QED
  BY <1>3, <1>4 DEF Channel

LEMMA DeclinedType ==
  ASSUME TypeOK, NEW u \in Users, NEW op \in {"reject", "miss"}, NEW p \in Users, NEW t,
         NEW c \in Calls, Declined(u, op, p, t, c)
  PROVE  /\ wire' \in [Users -> SUBSET Users] /\ media' \in [Users -> SUBSET Users]
         /\ stream' \in [Users -> BOOLEAN] /\ tasks' \in [Users -> SUBSET Tasks]
         /\ net' \in [Users -> [Users -> Seq(Messages)]]
<1> DEFINE status == IF op = "reject" THEN "rejected" ELSE "missed"
           new == Task("end", p, c, status, TRUE)
           more == {new} \cup Dropping(u, p)
           reply == Message("rejected", NoCall, "declined")
<1>1. TearDown(u, p, TRUE) /\ Becomes(u, t, more) /\ (Send(u, p, reply) \/ net' = net)
  BY DEF Declined
<1>2. new \in Tasks
  <2>1. status \in Ended /\ c \in CallIds
    BY DEF Ended, CallIds
  <2> HIDE DEF status
  <2> QED
    BY <2>1, TaskType
<1>3. more \in SUBSET Tasks
  BY <1>2, DroppingType
<1>4. reply \in Messages
  BY MessageType DEF CallIds
<1>5. net \in [Users -> [Users -> Seq(Messages)]]
  BY DEF TypeOK
<1> HIDE DEF new, more, reply
<1>6. tasks' \in [Users -> SUBSET Tasks]
  BY <1>1, <1>3, TasksUpdated
<1>7. net' \in [Users -> [Users -> Seq(Messages)]]
  BY <1>1, <1>4, <1>5, NetSent
<1> QED
  BY <1>1, <1>6, <1>7, LinksTornDown

LEMMA DeclinesType ==
  ASSUME TypeInv, NEW u \in Users, NEW op \in {"reject", "miss"}, NEW p \in Users,
         Declines(u, op, p), taps' \in [Users -> 0 .. MaxTaps]
  PROVE  TypeInv'
<1> USE DEF TypeInv
<1> DEFINE t == Task(op, p, NoCall, "none", TRUE)
<1>1. session[u][p] \in Sessions
  BY DEF TypeOK
<1>2. t \in Tasks
  BY TaskType DEF Ops
<1>3. CASE Active(u, p)
  <2>1. Declined(u, op, p, t, session[u][p].call) /\ session[u][p].call \in Calls
    BY <1>1, <1>3, SessionFacts DEF Declines, Active
  <2> HIDE DEF t
  <2>2. /\ wire' \in [Users -> SUBSET Users] /\ media' \in [Users -> SUBSET Users]
        /\ stream' \in [Users -> BOOLEAN] /\ tasks' \in [Users -> SUBSET Tasks]
        /\ net' \in [Users -> [Users -> Seq(Messages)]]
    BY <2>1, DeclinedType
  <2> QED
    BY <2>2 DEF Declines, TypeOK, RingWasShown, callVars, screenVars, ringVars, storeVars,
       historyVars
<1>4. CASE ~Active(u, p)
  <2>1. /\ Adds(u, {t}) /\ stream' = [stream EXCEPT ![u] = FALSE]
        /\ UNCHANGED <<wire, media, net>>
    BY <1>4 DEF Declines
  <2>2. tasks' \in [Users -> SUBSET Tasks]
    BY <1>2, <2>1, TasksGained
  <2>3. stream' \in [Users -> BOOLEAN]
    BY <2>1 DEF TypeOK
  <2> QED
    BY <2>1, <2>2, <2>3 DEF Declines, TypeOK, RingWasShown, callVars, screenVars, ringVars,
       storeVars, historyVars
<1> QED
  BY <1>3, <1>4

LEMMA DeclineStoredType ==
  ASSUME TypeInv, NEW u \in Users, NEW t \in tasks[u], DeclineStored(u, t)
  PROVE  TypeInv'
<1> USE DEF TypeInv
<1>1. t.peer \in Users /\ t.op \in {"reject", "miss"}
  BY TaskOf DEF DeclineStored
<1>2. PICK c \in Calls : /\ Fresh(u, c) /\ Store(u, t.peer, c, TRUE, FALSE)
                         /\ Declined(u, t.op, t.peer, t, c)
  BY DEF DeclineStored
<1>3. /\ session' \in [Users -> [Users -> Sessions]] /\ rows' \in [Users -> [Calls -> Status]]
      /\ made' \in [Users -> 0 .. MaxCalls]
  BY <1>1, <1>2, SessionStored, FreshType
<1>4. /\ wire' \in [Users -> SUBSET Users] /\ media' \in [Users -> SUBSET Users]
      /\ stream' \in [Users -> BOOLEAN] /\ tasks' \in [Users -> SUBSET Tasks]
      /\ net' \in [Users -> [Users -> Seq(Messages)]]
  BY <1>1, <1>2, DeclinedType
<1> QED
  BY <1>3, <1>4 DEF DeclineStored, TypeOK, RingWasShown, screenVars, ringVars, historyVars

LEMMA HearEndedType ==
  ASSUME TypeInv, NEW u \in Users, NEW p \in Users, net[p][u] # <<>>,
         HearEnded(u, p, Head(net[p][u]))
  PROVE  TypeInv'
<1> USE DEF TypeInv
<1> DEFINE m == Head(net[p][u])
           rings == ring[u].from = p
           inRoom == room[u].peer = p /\ ~Stale(u, p, m)
           ends == Task("ended", p, session[u][p].call, m.status, inRoom)
           dismiss == Task("dismiss", p, NoCall, "none", TRUE)
           new == (IF rings THEN {dismiss} ELSE {})
                    \cup (IF inRoom \/ ~Active(u, p) THEN {ends} ELSE {})
<1>1. m \in Messages /\ m.status \in Ended
  BY NetHeard, MessageFacts DEF HearEnded
<1>2. ends \in Tasks
  <2>1. session[u][p] \in Sessions
    BY DEF TypeOK
  <2>2. session[u][p].call \in CallIds
    BY <2>1, SessionFacts
  <2>3. inRoom \in BOOLEAN
    OBVIOUS
  <2> HIDE DEF inRoom
  <2> QED
    BY <1>1, <2>2, <2>3, TaskType
<1>3. dismiss \in Tasks
  BY TaskType DEF Ops
<1>4. new \in SUBSET Tasks
  <2> HIDE DEF ends, dismiss, inRoom, rings
  <2> QED
    BY <1>2, <1>3
<1>5. /\ Adds(u, new)
      /\ marker' = [marker EXCEPT ![u] = IF rings THEN NoUser ELSE marker[u]]
      /\ glare' = [glare EXCEPT ![u] = IF rings THEN {} ELSE glare[u]]
      /\ TearDown(u, p, TRUE) \/ UNCHANGED linkVars
      /\ room' = [room EXCEPT ![u] = [room[u] EXCEPT !.terminated = @ \/ inRoom]]
  BY DEF HearEnded
<1> HIDE DEF new, rings
<1>6. tasks' \in [Users -> SUBSET Tasks]
  BY <1>4, <1>5, TasksUpdated
<1>7. marker' \in [Users -> Peers] /\ glare' \in [Users -> SUBSET Users]
  BY <1>5 DEF TypeOK, Peers
<1>8. /\ wire' \in [Users -> SUBSET Users] /\ media' \in [Users -> SUBSET Users]
      /\ stream' \in [Users -> BOOLEAN]
  BY <1>5, LinksTornDown DEF linkVars, TypeOK
<1>9. room' \in [Users -> Rooms]
  <2> DEFINE b == room[u].terminated \/ inRoom
  <2>1. b \in BOOLEAN /\ room[u] \in Rooms
    BY DEF TypeOK
  <2>2. room' = [room EXCEPT ![u] = [room[u] EXCEPT !.terminated = b]]
    BY <1>5
  <2> HIDE DEF b
  <2>3. [room[u] EXCEPT !.terminated = b] \in Rooms
    BY <2>1, RoomFacts DEF RoomState
  <2> QED
    BY <2>2, <2>3 DEF TypeOK
<1>10. net' \in [Users -> [Users -> Seq(Messages)]]
  BY NetHeard DEF HearEnded
<1> QED
  BY <1>6, <1>7, <1>8, <1>9, <1>10 DEF HearEnded, TypeOK, RingWasShown, ringVars,
     storeVars, historyVars

LEMMA DismissedType ==
  ASSUME TypeInv, NEW u \in Users, NEW t \in tasks[u], Dismissed(u, t)
  PROVE  TypeInv'
<1> USE DEF TypeInv
<1>1. t \in Tasks
  BY TaskOf
<1>2. tasks' \in [Users -> SUBSET Tasks]
  BY <1>1, TasksGained DEF Dismissed
<1>3. marker[u] \in Peers
  BY DEF TypeOK
<1>4. /\ marker' \in [Users -> Peers] /\ glare' \in [Users -> SUBSET Users]
      /\ ring' \in [Users -> RingsOf] /\ rung' \in [Users -> RingsOf]
      /\ shown' = shown /\ RingWasShown'
  BY <1>3, RingClearedType DEF Dismissed
<1> QED
  BY <1>2, <1>4 DEF Dismissed, TypeOK, linkVars, storeVars, historyVars

LEMMA HearRejectedType ==
  ASSUME TypeInv, NEW u \in Users, NEW p \in Users, net[p][u] # <<>>,
         HearRejected(u, p, Head(net[p][u]))
  PROVE  TypeInv'
<1> USE DEF TypeInv
<1>1. net' \in [Users -> [Users -> Seq(Messages)]]
  BY NetHeard DEF HearRejected
<1>2. room[u] \in Rooms
  BY DEF TypeOK
<1>3. [room[u] EXCEPT !.state = "rejected", !.rejected = TRUE, !.terminated = TRUE] \in Rooms
  BY <1>2, RoomFacts DEF RoomState
<1>4. [room[u] EXCEPT !.state = "busy"] \in Rooms
  BY <1>2, RoomFacts DEF RoomState
<1>5. \/ room' = [room EXCEPT ![u] = room[u]]
      \/ room' = [room EXCEPT ![u] =
           [room[u] EXCEPT !.state = "rejected", !.rejected = TRUE, !.terminated = TRUE]]
      \/ room' = [room EXCEPT ![u] = [room[u] EXCEPT !.state = "busy"]]
  BY DEF HearRejected
<1>6. room' \in [Users -> Rooms]
  BY <1>2, <1>3, <1>4, <1>5 DEF TypeOK
<1> QED
  BY <1>1, <1>6 DEF HearRejected, TypeOK, RingWasShown, callVars, ringVars, linkVars,
     storeVars, historyVars

LEMMA TerminatesType ==
  ASSUME TypeInv, NEW u \in Users, NEW p \in Users, NEW state \in RoomState,
         NEW reason \in Ended \cup {"none"}, Terminates(u, p, state, reason),
         taps' \in [Users -> 0 .. MaxTaps]
  PROVE  TypeInv'
<1> USE DEF TypeInv
<1>1. Ending(u, p, reason, FALSE) \in Tasks
  BY EndingType
<1>2. /\ tasks' = tasks \/ Adds(u, {Ending(u, p, reason, FALSE)})
      /\ UNCHANGED linkVars \/ TearDown(u, p, Active(u, p))
      /\ room' = [room EXCEPT ![u] = [room[u] EXCEPT !.state = state, !.terminated = TRUE]]
  BY DEF Terminates
<1>3. tasks' \in [Users -> SUBSET Tasks]
  BY <1>1, <1>2, TasksGained
<1>4. Active(u, p) \in BOOLEAN
  BY DEF Active
<1>5. /\ wire' \in [Users -> SUBSET Users] /\ media' \in [Users -> SUBSET Users]
      /\ stream' \in [Users -> BOOLEAN]
  <2>1. CASE UNCHANGED linkVars
    BY <2>1 DEF linkVars, TypeOK
  <2>2. CASE TearDown(u, p, Active(u, p))
    BY <1>4, <2>2, LinksTornDown
  <2> QED
    BY <1>2, <2>1, <2>2
<1>6. room' \in [Users -> Rooms]
  <2>1. [room[u] EXCEPT !.state = state, !.terminated = TRUE] \in Rooms
    BY RoomFacts DEF TypeOK
  <2> QED
    BY <1>2, <2>1 DEF TypeOK
<1> QED
  BY <1>3, <1>5, <1>6 DEF Terminates, TypeOK, RingWasShown, callVars, ringVars, storeVars,
     historyVars

LEMMA MediaArrivesType ==
  ASSUME TypeInv, NEW u \in Users, NEW p \in Users, MediaArrives(u, p)
  PROVE  TypeInv'
<1> USE DEF TypeInv
<1>1. room' \in [Users -> Rooms]
  <2>1. [room[u] EXCEPT !.state = "connected"] \in Rooms
    BY RoomFacts DEF TypeOK, RoomState
  <2> QED
    BY <2>1 DEF MediaArrives, TypeOK
<1>2. media' \in [Users -> SUBSET Users] /\ stream' \in [Users -> BOOLEAN]
  BY DEF MediaArrives, TypeOK
<1> QED
  BY <1>1, <1>2 DEF MediaArrives, TypeOK, RingWasShown, callVars, ringVars, storeVars,
     historyVars

LEMMA ReconnectingType ==
  ASSUME TypeInv, NEW u \in Users, Reconnecting(u)
  PROVE  TypeInv'
<1> USE DEF TypeInv
<1>1. room' \in [Users -> Rooms]
  <2>1. [room[u] EXCEPT !.state = "reconnecting"] \in Rooms
    BY RoomFacts DEF TypeOK, RoomState
  <2> QED
    BY <2>1 DEF Reconnecting, TypeOK
<1>2. losses' \in 0 .. MaxLosses
  BY TapsCounted DEF Reconnecting
<1> QED
  BY <1>1, <1>2 DEF Reconnecting, TypeOK, RingWasShown, callVars, ringVars, linkVars,
     storeVars, historyVars

LEMMA LinkStepType ==
  ASSUME TypeInv, NEW u \in Users, NEW p \in Users, LinkStep(u, p)
  PROVE  TypeInv'
<1> USE DEF TypeInv
<1>1. CASE Reconnected(u, p)
  <2>1. [room[u] EXCEPT !.state = "connected"] \in Rooms
    BY RoomFacts DEF TypeOK, RoomState
  <2>2. room' \in [Users -> Rooms]
    BY <1>1, <2>1 DEF Reconnected, TypeOK
  <2> QED
    BY <1>1, <2>2 DEF Reconnected, TypeOK, RingWasShown, callVars, ringVars, linkVars,
       storeVars, historyVars
<1>2. CASE Disconnected(u, p)
  <2>1. losses' \in 0 .. MaxLosses
    <3>1. losses' = losses \/ Fails
      BY <1>2 DEF Disconnected
    <3>2. losses \in 0 .. MaxLosses
      BY DEF TypeOK
    <3> QED
      BY <3>1, <3>2, TapsCounted
  <2>2. tasks' \in [Users -> SUBSET Tasks]
    BY <1>2, DroppingType, TasksUpdated DEF Disconnected
  <2>3. wire' \in [Users -> SUBSET Users] /\ media' \in [Users -> SUBSET Users]
    BY <1>2 DEF Disconnected, TypeOK
  <2> QED
    BY <1>2, <2>1, <2>2, <2>3 DEF Disconnected, TypeOK, RingWasShown, callVars,
       screenVars, ringVars, storeVars, historyVars
<1> QED
  BY <1>1, <1>2 DEF LinkStep

LEMMA DroppedType ==
  ASSUME TypeInv, NEW u \in Users, NEW t \in tasks[u], Dropped(u, t)
  PROVE  TypeInv'
<1> USE DEF TypeInv
<1> DEFINE new == Ending(u, t.peer, "missed", FALSE)
<1>1. t.peer \in Users
  BY TaskOf
<1>2. new \in Tasks
  BY <1>1, EndingType DEF Ended
<1>3. /\ Becomes(u, t, {}) \/ Becomes(u, t, {new})
      /\ UNCHANGED linkVars \/ TearDown(u, t.peer, Active(u, t.peer))
      /\ \/ room' = room
         \/ room' = [room EXCEPT ![u] = [room[u] EXCEPT !.state = "ended", !.terminated = TRUE]]
  BY DEF Dropped
<1> HIDE DEF new
<1>4. tasks' \in [Users -> SUBSET Tasks]
  BY <1>2, <1>3, TasksGained
<1>5. Active(u, t.peer) \in BOOLEAN
  BY DEF Active
<1>6. /\ wire' \in [Users -> SUBSET Users] /\ media' \in [Users -> SUBSET Users]
      /\ stream' \in [Users -> BOOLEAN]
  <2>1. CASE UNCHANGED linkVars
    BY <2>1 DEF linkVars, TypeOK
  <2>2. CASE TearDown(u, t.peer, Active(u, t.peer))
    BY <1>1, <1>5, <2>2, LinksTornDown
  <2> QED
    BY <1>3, <2>1, <2>2
<1>7. room' \in [Users -> Rooms]
  <2>1. [room[u] EXCEPT !.state = "ended", !.terminated = TRUE] \in Rooms
    BY RoomFacts DEF TypeOK, RoomState
  <2> QED
    BY <1>3, <2>1 DEF TypeOK
<1> QED
  BY <1>4, <1>6, <1>7 DEF Dropped, TypeOK, RingWasShown, callVars, ringVars, storeVars,
     historyVars

LEMMA LoseType ==
  ASSUME TypeInv, NEW u \in Users, NEW p \in Users, Lose(u, p)
  PROVE  TypeInv'
<1> USE DEF TypeInv
<1>1. net' \in [Users -> [Users -> Seq(Messages)]]
  BY NetHeard DEF Lose, Hear
<1>2. losses' \in 0 .. MaxLosses
  BY TapsCounted DEF Lose
<1> QED
  BY <1>1, <1>2 DEF Lose, TypeOK, RingWasShown, callVars, screenVars, ringVars, linkVars,
     storeVars, historyVars

LEMMA EndDoneType ==
  ASSUME TypeInv, NEW u \in Users, NEW t \in tasks[u], EndDone(u, t)
  PROVE  TypeInv'
<1> USE DEF TypeInv
<1> DEFINE m == Released(u, t.peer)
           reply == Message("ended", t.call, t.status)
<1>1. /\ t \in Tasks /\ t.peer \in Users /\ t.op \in {"end", "ended"}
      /\ t.call \in CallIds /\ t.status \in Ended
  BY TaskOf, TaskFacts DEF EndDone
<1>2. tasks' \in [Users -> SUBSET Tasks]
  BY <1>1, TasksGained DEF EndDone
<1>3. session' \in [Users -> [Users -> Sessions]] /\ rows' \in [Users -> [Calls -> Status]]
  BY <1>1, SessionRetired DEF EndDone
<1>4. net' \in [Users -> [Users -> Seq(Messages)]]
  BY <1>1, MessageType, NetSent DEF EndDone
<1>5. /\ listener' \in [Users -> Peers] /\ connected' \in [Users -> SUBSET Users]
      /\ stream' \in [Users -> BOOLEAN] /\ m \in Peers /\ GlareKept(u, m) \in SUBSET Users
  BY <1>1, Freed DEF EndDone
<1>6. \/ RingCleared(u, Retired(u, t), m)
      \/ /\ marker' = [marker EXCEPT ![u] = m] /\ glare' = [glare EXCEPT ![u] = GlareKept(u, m)]
         /\ UNCHANGED ringVars
  BY DEF EndDone
<1> HIDE DEF m
<1>7. /\ marker' \in [Users -> Peers] /\ glare' \in [Users -> SUBSET Users]
      /\ ring' \in [Users -> RingsOf] /\ rung' \in [Users -> RingsOf]
      /\ shown' = shown /\ RingWasShown'
  <2>1. CASE RingCleared(u, Retired(u, t), m)
    BY <1>5, <2>1, RingClearedType
  <2>2. CASE /\ marker' = [marker EXCEPT ![u] = m]
             /\ glare' = [glare EXCEPT ![u] = GlareKept(u, m)] /\ UNCHANGED ringVars
    BY <1>5, <2>2 DEF TypeOK, RingWasShown, ringVars
  <2> QED
    BY <1>6, <2>1, <2>2
<1> QED
  BY <1>2, <1>3, <1>4, <1>5, <1>7 DEF EndDone, TypeOK, historyVars

LEMMA RemoteEndDoneType ==
  ASSUME TypeInv, NEW u \in Users, NEW t \in tasks[u], RemoteEndDone(u, t)
  PROVE  TypeInv'
<1> USE DEF TypeInv
<1> DEFINE m == Released(u, t.peer)
           state == IF ~t.ui \/ room[u].rejected THEN room[u].state
                    ELSE IF t.status = "missed" THEN "no-answer" ELSE "ended"
<1>1. t \in Tasks /\ t.peer \in Users /\ t.op \in {"end", "ended"}
  BY TaskOf DEF RemoteEndDone
<1>2. tasks' \in [Users -> SUBSET Tasks]
  BY <1>1, TasksGained DEF RemoteEndDone
<1>3. session' \in [Users -> [Users -> Sessions]] /\ rows' \in [Users -> [Calls -> Status]]
  BY <1>1, SessionRetired DEF RemoteEndDone
<1>4. /\ listener' \in [Users -> Peers] /\ connected' \in [Users -> SUBSET Users]
      /\ stream' \in [Users -> BOOLEAN] /\ m \in Peers /\ GlareKept(u, m) \in SUBSET Users
  BY <1>1, Freed DEF RemoteEndDone
<1>5. /\ marker' = [marker EXCEPT ![u] = m] /\ glare' = [glare EXCEPT ![u] = GlareKept(u, m)]
      /\ room' = [room EXCEPT ![u] = [room[u] EXCEPT !.state = state]]
  BY DEF RemoteEndDone
<1>6. room[u] \in Rooms /\ room[u].state \in RoomState
  BY DEF TypeOK, Rooms
<1>7. state \in RoomState
  BY <1>6 DEF RoomState
<1> HIDE DEF m, state
<1>8. room' \in [Users -> Rooms]
  BY <1>5, <1>6, <1>7, RoomFacts DEF TypeOK
<1>9. marker' \in [Users -> Peers] /\ glare' \in [Users -> SUBSET Users]
  BY <1>4, <1>5 DEF TypeOK
<1> QED
  BY <1>2, <1>3, <1>4, <1>8, <1>9 DEF RemoteEndDone, TypeOK, RingWasShown, ringVars,
     historyVars

LEMMA InitType == Init => TypeInv
<1> SUFFICES ASSUME Init PROVE TypeInv
  OBVIOUS
<1>1. NoSession \in Sessions /\ NoRing \in RingsOf /\ NoUser \in Peers
  BY DEF Sessions, RingsOf, Peers
<1>2. Room(NoUser, "none") \in Rooms
  BY DEF Room, Rooms, Peers, RoomState
<1>3. <<>> \in Seq(Messages)
  OBVIOUS
<1>4. RingWasShown
  BY DEF Init, RingWasShown
<1> QED
  BY <1>1, <1>2, <1>3, <1>4, CallsAssumption DEF Init, TypeInv, TypeOK, Status

LEMMA NextType == TypeInv /\ [Next]_vars => TypeInv'
<1> SUFFICES ASSUME TypeInv, [Next]_vars PROVE TypeInv'
  OBVIOUS
<1>1. CASE UNCHANGED vars
  BY <1>1 DEF vars, callVars, screenVars, ringVars, linkVars, storeVars, historyVars,
     TypeInv, TypeOK, RingWasShown
<1>2. ASSUME NEW u \in Users, UserStep(u) PROVE TypeInv'
  <2>1. CASE Reject(u)
    <3>1. shown[u] \in RingsOf /\ shown[u] # NoRing
      BY <2>1 DEF Reject, Declines, TypeInv, RingWasShown, TypeOK
    <3>2. shown[u].from \in Users
      BY <3>1 DEF RingsOf
    <3> QED
      BY <2>1, <3>2, DeclinesType, TapsCounted DEF Reject, TypeInv
  <2>2. CASE HangUp(u)
    BY <2>2, TerminatesType, TapsCounted DEF HangUp, TypeInv, RoomState
  <2> QED
    BY <1>2, <2>1, <2>2, PlaceCallType, CallAgainType, AcceptType DEF UserStep
<1>3. ASSUME NEW u \in Users, TaskStep(u) PROVE TypeInv'
  BY <1>3, InformStoredType, InviteType, InviteFailsType, StartConnectsType,
     StartFailsType, NotifiedType, AnswerStoredType, ReadyType, ChannelType,
     DeclineStoredType, DismissedType, DroppedType, EndDoneType, RemoteEndDoneType
     DEF TaskStep
<1>4. ASSUME NEW u \in Users, NoAnswer(u) PROVE TypeInv'
  <2>1. taps' \in [Users -> 0 .. MaxTaps]
    BY <1>4 DEF NoAnswer, TypeInv, TypeOK
  <2> QED
    BY <1>4, <2>1, TerminatesType DEF NoAnswer, RoomState, Ended
<1>5. ASSUME NEW u \in Users, RingTimeout(u) PROVE TypeInv'
  <2>1. taps' \in [Users -> 0 .. MaxTaps]
    BY <1>5 DEF RingTimeout, TypeInv, TypeOK
  <2>2. ring[u] \in RingsOf /\ ring[u] # NoRing
    BY <1>5 DEF RingTimeout, Declines, TypeInv, TypeOK
  <2>3. ring[u].from \in Users
    BY <2>2 DEF RingsOf
  <2> QED
    BY <1>5, <2>1, <2>3, DeclinesType DEF RingTimeout
<1>6. ASSUME NEW u \in Users, NEW p \in Users, Receive(u, p) PROVE TypeInv'
  BY <1>6, HearCallType, HearReadyType, HearEndedType, HearRejectedType DEF Receive
<1> QED
  BY <1>1, <1>2, <1>3, <1>4, <1>5, <1>6, ReconnectingType, MediaArrivesType, LinkStepType,
     LoseType DEF Next

\* The state of every device's calls is well formed whatever its user taps, the
\* network loses and the timers do: for any number of users and calls.
THEOREM TypeCorrect == Spec => []TypeOK
<1>1. Spec => []TypeInv
  BY InitType, NextType, PTL DEF Spec
<1>2. TypeInv => TypeOK
  BY DEF TypeInv
<1> QED
  BY <1>1, <1>2, PTL

-----------------------------------------------------------------------------
(* A busy marker has an owner                                              *)

IInv == TypeInv /\ MarkerHasOwner

\* A step of device u alone, that leaves its marker with an owner.
Elsewhere(u) ==
  \A v \in Users : v # u =>
    session'[v] = session[v] /\ ring'[v] = ring[v] /\ marker'[v] = marker[v]
OwnedAt(u) ==
  \A p \in Users : marker'[u] = p => session'[u][p] # NoSession \/ ring'[u].from = p

LEMMA OwnerAt ==
  ASSUME IInv, NEW u \in Users, Elsewhere(u), OwnedAt(u)
  PROVE  MarkerHasOwner'
BY DEF IInv, MarkerHasOwner, Active, Elsewhere, OwnedAt

\* What does not touch markers, rings and whether there is a session keeps owners.
LEMMA OwnersUntouched ==
  ASSUME IInv, UNCHANGED <<session, ring, marker>>
  PROVE  MarkerHasOwner'
BY DEF IInv, MarkerHasOwner, Active

LEMMA OwnedBefore ==
  ASSUME IInv, NEW u \in Users
  PROVE  \A p \in Users : marker[u] = p => session[u][p] # NoSession \/ ring[u].from = p
BY DEF IInv, MarkerHasOwner, Active

LEMMA OwnerTypes ==
  IInv => /\ session \in [Users -> [Users -> Sessions]] /\ ring \in [Users -> RingsOf]
          /\ marker \in [Users -> Peers]
BY DEF IInv, TypeInv, TypeOK

\* The session with p becomes e, and the marker p or stays.
LEMMA SessionOwner ==
  ASSUME IInv, NEW u \in Users, NEW p \in Users, NEW e, ring' = ring,
         session' = [session EXCEPT ![u][p] = e],
         Active(u, p) \/ marker' # marker => e # NoSession,
         marker' = marker \/ marker' = [marker EXCEPT ![u] = p]
  PROVE  MarkerHasOwner'
<1>1. /\ session \in [Users -> [Users -> Sessions]] /\ ring \in [Users -> RingsOf]
      /\ marker \in [Users -> Peers]
  BY OwnerTypes
<1>2. Elsewhere(u)
  BY <1>1 DEF Elsewhere
<1>3. session'[u][p] = e /\ \A q \in Users : q # p => session'[u][q] = session[u][q]
  BY <1>1
<1>4. OwnedAt(u)
  <2>1. CASE marker' = marker
    BY <1>3, <2>1, OwnedBefore DEF OwnedAt, Active
  <2>2. CASE marker' # marker
    BY <1>1, <1>3, <2>2 DEF OwnedAt
  <2> QED
    BY <2>1, <2>2
<1> QED
  BY <1>2, <1>4, OwnerAt

LEMMA StoredOwner ==
  ASSUME IInv, NEW u \in Users, NEW p \in Users, NEW c \in Calls, NEW incoming, NEW accepted,
         Store(u, p, c, incoming, accepted), ring' = ring,
         marker' = marker \/ marker' = [marker EXCEPT ![u] = p]
  PROVE  MarkerHasOwner'
<1> DEFINE new == [call |-> c, incoming |-> incoming, answered |-> accepted]
<1>1. session' = [session EXCEPT ![u][p] = new]
  BY DEF Store
<1>2. new.call # NoSession.call
  BY CallsAssumption DEF NoSession
<1>3. new # NoSession
  BY <1>2
<1> HIDE DEF new
<1> QED
  BY <1>1, <1>3, SessionOwner

\* The ring that is put away leaves the marker to a session, to the next ring,
\* or to nobody.
LEMMA RingClearedOwner ==
  ASSUME IInv, NEW u \in Users, NEW s, NEW m, RingCleared(u, s, m),
         session'[u] = s, \A v \in Users : v # u => session'[v] = session[v],
         \A p \in Users : m = p => s[p] # NoSession \/ ring[u].from = p
  PROVE  MarkerHasOwner'
<1> DEFINE next == IF shown[u] # rung[u] THEN shown[u] ELSE NoRing
           left == OutOfRing(u, s, m)
           after == IF next = NoRing THEN left ELSE next.from
<1>1. ring' = [ring EXCEPT ![u] = next] /\ marker' = [marker EXCEPT ![u] = after]
  BY DEF RingCleared
<1>2. \A p \in Users : left = p => s[p] # NoSession
  BY CallsAssumption DEF OutOfRing
<1>3. \A p \in Users : after = p => s[p] # NoSession \/ next.from = p
  BY <1>2
<1>4. ring \in [Users -> RingsOf] /\ marker \in [Users -> Peers]
  BY OwnerTypes
<1> HIDE DEF next, after
<1>5. Elsewhere(u) /\ OwnedAt(u)
  BY <1>1, <1>3, <1>4 DEF Elsewhere, OwnedAt
<1> QED
  BY <1>5, OwnerAt

\* Ending a call frees the marker before its session goes.
LEMMA RetiredOwner ==
  ASSUME IInv, NEW u \in Users, NEW t \in Tasks,
         session' = [session EXCEPT ![u] = Retired(u, t)]
  PROVE  /\ session'[u] = Retired(u, t) /\ \A v \in Users : v # u => session'[v] = session[v]
         /\ \A p \in Users : Released(u, t.peer) = p =>
              Retired(u, t)[p] # NoSession \/ ring[u].from = p
<1>1. session \in [Users -> [Users -> Sessions]] /\ marker \in [Users -> Peers]
  BY OwnerTypes
<1>2. \A p \in Users : p # t.peer => Retired(u, t)[p] = session[u][p]
  BY <1>1 DEF Retired
<1>3. \A p \in Users : Released(u, t.peer) = p => p # t.peer /\ marker[u] = p
  BY TaskFacts, CallsAssumption DEF Released
<1> QED
  BY <1>1, <1>2, <1>3, OwnedBefore

LEMMA UserStepOwner ==
  ASSUME IInv, NEW u \in Users, UserStep(u)
  PROVE  MarkerHasOwner'
<1>1. ASSUME NEW p \in Users, NEW ui, Informs(u, p, ui) PROVE MarkerHasOwner'
  <2>1. session' = session /\ ring' = ring
    BY <1>1 DEF Informs, ringVars
  <2>2. marker' = marker \/ (Active(u, p) /\ marker' = [marker EXCEPT ![u] = p])
    BY <1>1 DEF Informs
  <2>3. CASE marker' = marker
    BY <2>1, <2>3, OwnersUntouched
  <2>4. CASE Active(u, p) /\ marker' = [marker EXCEPT ![u] = p]
    <3>1. Elsewhere(u) /\ OwnedAt(u)
      BY <2>1, <2>4, OwnerTypes DEF Elsewhere, OwnedAt, Active
    <3> QED
      BY <3>1, OwnerAt
  <2> QED
    BY <2>2, <2>3, <2>4
<1>2. CASE Accept(u)
  <2> DEFINE p == shown[u].from
             e == [session[u][p] EXCEPT !.answered = TRUE]
  <2>1. p \in Users
    <3>1. shown[u] \in RingsOf /\ shown[u] # NoRing
      BY <1>2 DEF Accept, IInv, TypeInv, RingWasShown, TypeOK
    <3> QED
      BY <3>1 DEF RingsOf
  <2>2. ring' = ring
    BY <1>2 DEF Accept, ringVars
  <2>3. CASE Active(u, p)
    <3>1. session' = [session EXCEPT ![u][p] = e]
      BY <1>2, <2>3 DEF Accept
    <3>2. marker' = [marker EXCEPT ![u] = p]
      BY <1>2, <2>3 DEF Accept
    <3>3. e # NoSession
      <4>1. session[u][p] \in [call : Calls, incoming : BOOLEAN, answered : BOOLEAN]
        BY <2>1, <2>3 DEF Active, IInv, TypeInv, TypeOK, Sessions
      <4>2. e.call \in Calls
        BY <4>1
      <4> QED
        BY <4>2, CallsAssumption DEF NoSession
    <3> HIDE DEF e
    <3> QED
      BY <2>1, <2>2, <3>1, <3>2, <3>3, SessionOwner
  <2>4. CASE ~Active(u, p)
    BY <1>2, <2>2, <2>4, OwnersUntouched DEF Accept
  <2> QED
    BY <2>3, <2>4
<1>3. CASE Reject(u)
  BY <1>3, OwnersUntouched DEF Reject, Declines, callVars, screenVars, ringVars
<1>4. CASE HangUp(u)
  BY <1>4, OwnersUntouched DEF HangUp, Terminates, callVars, ringVars
<1>5. CASE \E p \in Users : PlaceCall(u, p)
  BY <1>1, <1>5 DEF PlaceCall
<1>6. CASE CallAgain(u)
  BY <1>1, <1>6 DEF CallAgain
<1> QED
  BY <1>2, <1>3, <1>4, <1>5, <1>6 DEF UserStep

LEMMA TaskStepOwner ==
  ASSUME IInv, NEW u \in Users, NEW t \in tasks[u]
  PROVE  /\ InformStored(u, t) => MarkerHasOwner'
         /\ StartConnects(u, t) => MarkerHasOwner'
         /\ Notified(u, t) => MarkerHasOwner'
         /\ AnswerStored(u, t) => MarkerHasOwner'
         /\ Channel(u, t) => MarkerHasOwner'
         /\ DeclineStored(u, t) => MarkerHasOwner'
         /\ Dismissed(u, t) => MarkerHasOwner'
         /\ EndDone(u, t) => MarkerHasOwner'
         /\ RemoteEndDone(u, t) => MarkerHasOwner'
<1>1. t \in Tasks /\ t.peer \in Users
  BY TaskOf DEF IInv, TypeInv
<1>2. \A p \in Users : marker[u] = p => session[u][p] # NoSession \/ ring[u].from = p
  BY OwnedBefore
<1>3. ASSUME InformStored(u, t) PROVE MarkerHasOwner'
  BY <1>1, <1>3, StoredOwner DEF InformStored, screenVars, ringVars
<1>4. ASSUME StartConnects(u, t) PROVE MarkerHasOwner'
  <2> DEFINE s == session[u][t.peer]
             b == s.answered \/ s.call = t.call
             e == [s EXCEPT !.answered = b]
  <2>1. session' = [session EXCEPT ![u][t.peer] = e]
    BY <1>4 DEF StartConnects
  <2>2. Active(u, t.peer) => e # NoSession
    <3>1. s \in Sessions
      BY <1>1 DEF IInv, TypeInv, TypeOK
    <3> HIDE DEF b
    <3>2. s # NoSession => e.call \in Calls
      <4>1. s # NoSession => s \in [call : Calls, incoming : BOOLEAN, answered : BOOLEAN]
        BY <3>1 DEF Sessions
      <4> QED
        BY <4>1
    <3> QED
      BY <3>2, CallsAssumption DEF NoSession, Active
  <2>3. ring' = ring /\ marker' = marker
    BY <1>4 DEF StartConnects, screenVars, ringVars
  <2> HIDE DEF e
  <2> QED
    BY <1>1, <2>1, <2>2, <2>3, SessionOwner
<1>5. ASSUME Notified(u, t) PROVE MarkerHasOwner'
  <2> DEFINE asked == [from |-> t.peer, call |-> t.call]
  <2>1. session' = session
    BY <1>5 DEF Notified
  <2>2. \/ UNCHANGED <<ring, marker>>
        \/ ring' = [ring EXCEPT ![u] = asked] /\ marker' = [marker EXCEPT ![u] = asked.from]
    BY <1>5 DEF Notified, ringVars
  <2>3. CASE UNCHANGED <<ring, marker>>
    BY <2>1, <2>3, OwnersUntouched
  <2>4. CASE ring' = [ring EXCEPT ![u] = asked] /\ marker' = [marker EXCEPT ![u] = asked.from]
    <3>1. ring'[u] = asked /\ marker'[u] = asked.from
      BY <2>4, OwnerTypes
    <3>2. OwnedAt(u)
      BY <3>1 DEF OwnedAt
    <3>3. Elsewhere(u)
      BY <2>1, <2>4, OwnerTypes DEF Elsewhere
    <3> QED
      BY <3>2, <3>3, OwnerAt
  <2> QED
    BY <2>2, <2>3, <2>4
<1>6. ASSUME AnswerStored(u, t) PROVE MarkerHasOwner'
  <2>1. t.call \in Calls
    BY <1>1, <1>6, TaskFacts DEF AnswerStored, CallOps
  <2>2. ring' = ring
    BY <1>6 DEF AnswerStored, screenVars, ringVars
  <2>3. CASE rows[u][t.call] = "none"
    BY <1>1, <1>6, <2>1, <2>2, <2>3, StoredOwner DEF AnswerStored
  <2>4. CASE rows[u][t.call] # "none"
    BY <1>6, <2>2, <2>4, OwnersUntouched DEF AnswerStored
  <2> QED
    BY <2>3, <2>4
<1>7. ASSUME Channel(u, t) PROVE MarkerHasOwner'
  <2>1. session' = session
    BY <1>7 DEF Channel
  <2>2. RingCleared(u, session[u], marker[u]) \/ UNCHANGED <<ring, marker>>
    BY <1>7 DEF Channel, ringVars
  <2> QED
    BY <1>2, <2>1, <2>2, RingClearedOwner, OwnersUntouched
<1>8. ASSUME DeclineStored(u, t) PROVE MarkerHasOwner'
  BY <1>1, <1>8, StoredOwner DEF DeclineStored, screenVars, ringVars
<1>9. ASSUME Dismissed(u, t) PROVE MarkerHasOwner'
  <2>1. session' = session
    BY <1>9 DEF Dismissed
  <2> QED
    BY <1>2, <1>9, <2>1, RingClearedOwner DEF Dismissed
<1>10. ASSUME EndDone(u, t) PROVE MarkerHasOwner'
  <2> DEFINE m == Released(u, t.peer)
  <2>1. session' = [session EXCEPT ![u] = Retired(u, t)]
    BY <1>10 DEF EndDone
  <2>2. \/ RingCleared(u, Retired(u, t), m)
        \/ marker' = [marker EXCEPT ![u] = m] /\ ring' = ring
    BY <1>10 DEF EndDone, ringVars
  <2>3. /\ session'[u] = Retired(u, t) /\ \A v \in Users : v # u => session'[v] = session[v]
        /\ \A p \in Users : m = p => Retired(u, t)[p] # NoSession \/ ring[u].from = p
    BY <1>1, <2>1, RetiredOwner
  <2> HIDE DEF m
  <2>4. CASE RingCleared(u, Retired(u, t), m)
    BY <2>3, <2>4, RingClearedOwner
  <2>5. CASE marker' = [marker EXCEPT ![u] = m] /\ ring' = ring
    <3>1. Elsewhere(u) /\ OwnedAt(u)
      BY <2>3, <2>5, OwnerTypes DEF Elsewhere, OwnedAt
    <3> QED
      BY <3>1, OwnerAt
  <2> QED
    BY <2>2, <2>4, <2>5
<1>11. ASSUME RemoteEndDone(u, t) PROVE MarkerHasOwner'
  <2> DEFINE m == Released(u, t.peer)
  <2>1. /\ session' = [session EXCEPT ![u] = Retired(u, t)]
        /\ marker' = [marker EXCEPT ![u] = m] /\ ring' = ring
    BY <1>11 DEF RemoteEndDone, ringVars
  <2>2. /\ session'[u] = Retired(u, t) /\ \A v \in Users : v # u => session'[v] = session[v]
        /\ \A p \in Users : m = p => Retired(u, t)[p] # NoSession \/ ring[u].from = p
    BY <1>1, <2>1, RetiredOwner
  <2> HIDE DEF m
  <2>3. Elsewhere(u) /\ OwnedAt(u)
    BY <2>1, <2>2, OwnerTypes DEF Elsewhere, OwnedAt
  <2> QED
    BY <2>3, OwnerAt
<1> QED
  BY <1>3, <1>4, <1>5, <1>6, <1>7, <1>8, <1>9, <1>10, <1>11

LEMMA ReceiveOwner ==
  ASSUME IInv, NEW u \in Users, NEW p \in Users, Receive(u, p)
  PROVE  MarkerHasOwner'
<1> DEFINE m == Head(net[p][u])
<1>1. CASE HearEnded(u, p, m)
  <2> DEFINE after == IF ring[u].from = p THEN NoUser ELSE marker[u]
  <2>1. session' = session /\ ring' = ring /\ marker' = [marker EXCEPT ![u] = after]
    BY <1>1 DEF HearEnded, ringVars
  <2>2. \A q \in Users : after = q => session[u][q] # NoSession \/ ring[u].from = q
    BY OwnedBefore, CallsAssumption
  <2> HIDE DEF after
  <2>3. Elsewhere(u) /\ OwnedAt(u)
    BY <2>1, <2>2, OwnerTypes DEF Elsewhere, OwnedAt
  <2> QED
    BY <2>3, OwnerAt
<1>2. CASE HearCall(u, p, m)
  BY <1>2, OwnersUntouched DEF HearCall, callVars, screenVars, ringVars
<1>3. CASE HearReady(u, p, m)
  BY <1>3, OwnersUntouched DEF HearReady, screenVars, ringVars
<1>4. CASE HearRejected(u, p, m)
  BY <1>4, OwnersUntouched DEF HearRejected, callVars, ringVars
<1> QED
  BY <1>1, <1>2, <1>3, <1>4 DEF Receive

LEMMA NextOwner == IInv /\ [Next]_vars => MarkerHasOwner'
<1> SUFFICES ASSUME IInv, [Next]_vars PROVE MarkerHasOwner'
  OBVIOUS
<1>1. CASE UNCHANGED vars
  BY <1>1, OwnersUntouched DEF vars, callVars, screenVars, ringVars
<1>2. ASSUME NEW u \in Users, TaskStep(u) PROVE MarkerHasOwner'
  <2>1. PICK t \in tasks[u] :
          \/ InformStored(u, t) \/ Invite(u, t) \/ InviteFails(u, t)
          \/ StartConnects(u, t) \/ StartFails(u, t)
          \/ Notified(u, t) \/ AnswerStored(u, t) \/ Ready(u, t) \/ Channel(u, t)
          \/ DeclineStored(u, t) \/ Dismissed(u, t) \/ Dropped(u, t)
          \/ EndDone(u, t) \/ RemoteEndDone(u, t)
    BY <1>2 DEF TaskStep
  <2>2. CASE Invite(u, t) \/ InviteFails(u, t)
    BY <2>2, OwnersUntouched DEF Invite, InviteFails, screenVars, ringVars
  <2>3. CASE StartFails(u, t) \/ Ready(u, t)
    BY <2>3, OwnersUntouched DEF StartFails, Ready, callVars, screenVars, ringVars
  <2>4. CASE Dropped(u, t)
    BY <2>4, OwnersUntouched DEF Dropped, callVars, ringVars
  <2> QED
    BY <2>1, <2>2, <2>3, <2>4, TaskStepOwner
<1>3. ASSUME NEW u \in Users, NoAnswer(u) \/ RingTimeout(u) \/ Reconnecting(u)
      PROVE  MarkerHasOwner'
  BY <1>3, OwnersUntouched DEF NoAnswer, Terminates, RingTimeout, Declines, Reconnecting,
     callVars, screenVars, ringVars
<1>4. ASSUME NEW u \in Users, NEW p \in Users,
             MediaArrives(u, p) \/ LinkStep(u, p) \/ Lose(u, p)
      PROVE  MarkerHasOwner'
  BY <1>4, OwnersUntouched DEF MediaArrives, LinkStep, Reconnected, Disconnected, Lose,
     callVars, screenVars, ringVars
<1> QED
  BY <1>1, <1>2, <1>3, <1>4, UserStepOwner, ReceiveOwner DEF Next

\* A phone is busy only with a peer it has a call session with or is ringing for,
\* whatever ends, is answered, is lost or rings at the same time.
THEOREM MarkerOwned == Spec => []MarkerHasOwner
<1>1. Init => IInv
  BY InitType, CallsAssumption DEF IInv, Init, MarkerHasOwner
<1>2. IInv /\ [Next]_vars => IInv'
  BY NextType, NextOwner DEF IInv
<1>3. IInv => MarkerHasOwner
  BY DEF IInv
<1> QED
  BY <1>1, <1>2, <1>3, PTL DEF Spec

-----------------------------------------------------------------------------
(* A negotiation for each preparation at most                              *)

\* A listener is one preparation that has not been answered yet.
OnceInv ==
  \A u \in Users : /\ starts[u] <= invites[u]
                   /\ listener[u] # NoUser => starts[u] < invites[u]

CountTypes == /\ listener \in [Users -> Peers]
              /\ invites \in [Users -> Nat] /\ starts \in [Users -> Nat]

LEMMA OncePrepared ==
  ASSUME CountTypes, OnceInv, NEW u \in Users, NEW t, Prepares(u, t)
  PROVE  OnceInv'
BY DEF CountTypes, OnceInv, Prepares

LEMMA OnceReady ==
  ASSUME CountTypes, OnceInv, NEW u \in Users, NEW p \in Users, NEW m, HearReady(u, p, m)
  PROVE  OnceInv'
<1>1. invites' = invites
  BY DEF HearReady
<1>2. CASE UNCHANGED <<listener, starts>>
  BY <1>1, <1>2 DEF OnceInv
<1>3. CASE ~UNCHANGED <<listener, starts>>
  <2>1. /\ listener[u] = p /\ listener' = [listener EXCEPT ![u] = NoUser]
        /\ starts' = starts \/ starts' = [starts EXCEPT ![u] = starts[u] + 1]
    BY <1>3 DEF HearReady, ReadyAccepted, ListenerAfterReady
  <2>2. listener[u] # NoUser
    BY <2>1, CallsAssumption
  <2>3. starts[u] < invites[u] /\ starts[u] \in Nat /\ invites[u] \in Nat
    BY <2>2 DEF CountTypes, OnceInv
  <2> QED
    BY <1>1, <2>1, <2>3 DEF CountTypes, OnceInv
<1> QED
  BY <1>2, <1>3

LEMMA OnceReleased ==
  ASSUME CountTypes, OnceInv, NEW u \in Users, UNCHANGED <<invites, starts>>,
         listener' = listener \/ listener' = [listener EXCEPT ![u] = NoUser]
  PROVE  OnceInv'
BY DEF CountTypes, OnceInv

LEMMA NextOnce == TypeInv /\ OnceInv /\ [Next]_vars => OnceInv'
<1> SUFFICES ASSUME TypeInv, OnceInv, [Next]_vars PROVE OnceInv'
  OBVIOUS
<1>1. CountTypes
  BY DEF TypeInv, TypeOK, CountTypes
<1>2. \A u \in Users : UNCHANGED <<listener, invites, starts>> => OnceInv'
  BY <1>1, OnceReleased
<1>3. CASE UNCHANGED vars
  BY <1>3 DEF vars, callVars, historyVars, OnceInv
<1>4. ASSUME NEW u \in Users, UserStep(u) PROVE OnceInv'
  <2>1. UNCHANGED <<listener, invites, starts>>
    BY <1>4 DEF UserStep, PlaceCall, CallAgain, Informs, Accept, Reject, Declines, HangUp,
       Terminates, callVars, historyVars
  <2> QED
    BY <1>2, <2>1
<1>5. ASSUME NEW u \in Users, TaskStep(u) PROVE OnceInv'
  <2>1. PICK t \in tasks[u] :
          \/ InformStored(u, t) \/ Invite(u, t) \/ InviteFails(u, t)
          \/ StartConnects(u, t) \/ StartFails(u, t)
          \/ Notified(u, t) \/ AnswerStored(u, t) \/ Ready(u, t) \/ Channel(u, t)
          \/ DeclineStored(u, t) \/ Dismissed(u, t) \/ Dropped(u, t)
          \/ EndDone(u, t) \/ RemoteEndDone(u, t)
    BY <1>5 DEF TaskStep
  <2>2. CASE Invite(u, t)
    BY <1>1, <2>2, OncePrepared DEF Invite
  <2>3. CASE InviteFails(u, t)
    <3>1. Prepares(u, t) \/ UNCHANGED <<listener, invites, starts>>
      BY <2>3 DEF InviteFails, historyVars
    <3> QED
      BY <1>1, <1>2, <3>1, OncePrepared
  <2>4. CASE EndDone(u, t)
    BY <1>1, <2>4, OnceReleased DEF EndDone, Release, historyVars
  <2>5. CASE RemoteEndDone(u, t)
    BY <1>1, <2>5, OnceReleased DEF RemoteEndDone, Release, historyVars
  <2>6. CASE InformStored(u, t) \/ StartConnects(u, t) \/ StartFails(u, t) \/ Notified(u, t)
    <3>1. UNCHANGED <<listener, invites, starts>>
      BY <2>6 DEF InformStored, StartConnects, StartFails, Notified, callVars, historyVars
    <3> QED
      BY <1>2, <3>1
  <2>7. CASE AnswerStored(u, t) \/ Ready(u, t) \/ Channel(u, t)
    <3>1. UNCHANGED <<listener, invites, starts>>
      BY <2>7 DEF AnswerStored, Ready, Channel, callVars, historyVars
    <3> QED
      BY <1>2, <3>1
  <2>8. CASE DeclineStored(u, t) \/ Dismissed(u, t) \/ Dropped(u, t)
    <3>1. UNCHANGED <<listener, invites, starts>>
      BY <2>8 DEF DeclineStored, Dismissed, Dropped, callVars, historyVars
    <3> QED
      BY <1>2, <3>1
  <2> QED
    BY <2>1, <2>2, <2>3, <2>4, <2>5, <2>6, <2>7, <2>8
<1>6. ASSUME NEW u \in Users, NoAnswer(u) \/ RingTimeout(u) \/ Reconnecting(u) PROVE OnceInv'
  <2>1. UNCHANGED <<listener, invites, starts>>
    BY <1>6 DEF NoAnswer, Terminates, RingTimeout, Declines, Reconnecting, callVars,
       historyVars
  <2> QED
    BY <1>2, <2>1
<1>7. ASSUME NEW u \in Users, NEW p \in Users, Receive(u, p) PROVE OnceInv'
  <2> DEFINE m == Head(net[p][u])
  <2>1. CASE HearReady(u, p, m)
    BY <1>1, <2>1, OnceReady
  <2>2. CASE HearCall(u, p, m) \/ HearEnded(u, p, m) \/ HearRejected(u, p, m)
    <3>1. UNCHANGED <<listener, invites, starts>>
      BY <2>2 DEF HearCall, HearEnded, HearRejected, callVars, historyVars
    <3> QED
      BY <1>2, <3>1
  <2> QED
    BY <1>7, <2>1, <2>2 DEF Receive
<1>8. ASSUME NEW u \in Users, NEW p \in Users,
             MediaArrives(u, p) \/ LinkStep(u, p) \/ Lose(u, p)
      PROVE  OnceInv'
  <2>1. UNCHANGED <<listener, invites, starts>>
    BY <1>8 DEF MediaArrives, LinkStep, Reconnected, Disconnected, Lose, callVars,
       historyVars
  <2> QED
    BY <1>2, <2>1
<1> QED
  BY <1>3, <1>4, <1>5, <1>6, <1>7, <1>8 DEF Next

\* However many call-ready arrive, late, twice or of calls that both phones
\* placed, a phone starts no more negotiations than it prepared for.
THEOREM OncePerPreparation == Spec => []StartedOnce
<1>1. Init => TypeInv /\ OnceInv
  BY InitType DEF Init, OnceInv
<1>2. TypeInv /\ OnceInv /\ [Next]_vars => (TypeInv /\ OnceInv)'
  BY NextType, NextOnce
<1>3. OnceInv => StartedOnce
  BY DEF OnceInv, StartedOnce
<1> QED
  BY <1>1, <1>2, <1>3, PTL DEF Spec

-----------------------------------------------------------------------------
(* What was started or kept as completed was answered                      *)

\* What a message, a task and a session say of a call when it is among a.
MessageGood(m, a) ==
  m.type = "ready" \/ (m.type = "ended" /\ m.status = "completed") => m.call \in a
AllGood(s, a) == \A i \in 1 .. Len(s) : MessageGood(s[i], a)
TaskGood(t, a) ==
  /\ t.op \in {"media", "channel", "start"} => t.call \in a
  /\ t.op = "end" /\ t.status = "completed" => t.call \in a
  /\ t.op = "ended" /\ t.status = "completed" => t.call \in a \cup {NoCall}
SessionGood(s, a) == s.answered => s.call \in a

TasksGood    == \A u \in Users : \A t \in tasks[u] : TaskGood(t, answered)
SessionsGood == \A u, p \in Users : SessionGood(session[u][p], answered)
NetGood      == \A u, p \in Users : AllGood(net[u][p], answered)

AnswerInv == /\ TasksGood /\ SessionsGood /\ NetGood
             /\ StartedWasAnswered /\ CompletedWasAnswered

\* Nobody takes an answer back.
Grows == answered \subseteq answered'

LEMMA GoodGrows ==
  ASSUME NEW a, NEW b, a \subseteq b
  PROVE  /\ \A m : MessageGood(m, a) => MessageGood(m, b)
         /\ \A t : TaskGood(t, a) => TaskGood(t, b)
         /\ \A s : SessionGood(s, a) => SessionGood(s, b)
         /\ \A s : AllGood(s, a) => AllGood(s, b)
<1>1. \A m : MessageGood(m, a) => MessageGood(m, b)
  BY DEF MessageGood
<1>2. \A t : TaskGood(t, a) => TaskGood(t, b)
  BY DEF TaskGood
<1>3. \A s : SessionGood(s, a) => SessionGood(s, b)
  BY DEF SessionGood
<1> QED
  BY <1>1, <1>2, <1>3 DEF AllGood

LEMMA GoodSeq ==
  ASSUME NEW a, NEW s \in Seq(Messages), AllGood(s, a)
  PROVE  /\ s # <<>> => AllGood(Tail(s), a) /\ MessageGood(Head(s), a)
         /\ \A m \in Messages : MessageGood(m, a) => AllGood(Append(s, m), a)
<1>1. ASSUME s # <<>> PROVE AllGood(Tail(s), a) /\ MessageGood(Head(s), a)
  <2>1. /\ Len(s) \in Nat /\ Len(s) > 0 /\ Head(s) = s[1] /\ Len(Tail(s)) = Len(s) - 1
        /\ \A i \in 1 .. Len(Tail(s)) : Tail(s)[i] = s[i + 1]
    BY <1>1
  <2> QED
    BY <2>1 DEF AllGood
<1>2. ASSUME NEW m \in Messages, MessageGood(m, a) PROVE AllGood(Append(s, m), a)
  <2>1. /\ Len(s) \in Nat /\ Len(Append(s, m)) = Len(s) + 1
        /\ \A i \in 1 .. Len(s) + 1 : Append(s, m)[i] = IF i = Len(s) + 1 THEN m ELSE s[i]
    OBVIOUS
  <2> QED
    BY <1>2, <2>1 DEF AllGood
<1> QED
  BY <1>1, <1>2

LEMMA GoodSame ==
  ASSUME AnswerInv, Grows
  PROVE  /\ tasks' = tasks => TasksGood'
         /\ session' = session => SessionsGood'
         /\ net' = net => NetGood'
         /\ started' = started => StartedWasAnswered'
         /\ rows' = rows => CompletedWasAnswered'
<1> USE DEF AnswerInv, Grows
<1>1. tasks' = tasks => TasksGood'
  BY GoodGrows DEF TasksGood
<1>2. session' = session => SessionsGood'
  BY GoodGrows DEF SessionsGood
<1>3. net' = net => NetGood'
  BY GoodGrows DEF NetGood
<1>4. started' = started => StartedWasAnswered'
  BY DEF StartedWasAnswered
<1>5. rows' = rows => CompletedWasAnswered'
  BY DEF CompletedWasAnswered
<1> QED
  BY <1>1, <1>2, <1>3, <1>4, <1>5

LEMMA GoodTasks ==
  ASSUME TypeInv, AnswerInv, Grows, NEW u \in Users, NEW t, NEW more,
         Becomes(u, t, more) \/ Adds(u, more),
         \A new \in more : TaskGood(new, answered')
  PROVE  TasksGood'
<1>1. tasks \in [Users -> SUBSET Tasks]
  BY DEF TypeInv, TypeOK
<1>2. \A v \in Users : \A x \in tasks'[v] : x \in tasks[v] \/ x \in more
  BY <1>1 DEF Becomes, Adds
<1>3. \A v \in Users : \A x \in tasks[v] : TaskGood(x, answered')
  BY GoodGrows DEF AnswerInv, TasksGood, Grows
<1> QED
  BY <1>2, <1>3 DEF TasksGood

LEMMA GoodSessions ==
  ASSUME TypeInv, AnswerInv, Grows, NEW u \in Users, NEW p \in Users, NEW e,
         session' = [session EXCEPT ![u][p] = e], SessionGood(e, answered')
  PROVE  SessionsGood'
<1>1. session \in [Users -> [Users -> Sessions]]
  BY DEF TypeInv, TypeOK
<1>2. \A v, q \in Users : session'[v][q] = session[v][q] \/ session'[v][q] = e
  BY <1>1
<1>3. \A v, q \in Users : SessionGood(session[v][q], answered')
  BY GoodGrows DEF AnswerInv, SessionsGood, Grows
<1> QED
  BY <1>2, <1>3 DEF SessionsGood

LEMMA GoodHeard ==
  ASSUME TypeInv, AnswerInv, NEW u \in Users, NEW p \in Users, net[p][u] # <<>>
  PROVE  /\ MessageGood(Head(net[p][u]), answered)
         /\ Grows /\ Hear(u, p) => NetGood'
<1>1. net \in [Users -> [Users -> Seq(Messages)]]
  BY DEF TypeInv, TypeOK
<1>2. \A v, q \in Users : AllGood(net[v][q], answered)
  BY DEF AnswerInv, NetGood
<1>3. AllGood(Tail(net[p][u]), answered) /\ MessageGood(Head(net[p][u]), answered)
  <2>1. net[p][u] \in Seq(Messages) /\ AllGood(net[p][u], answered)
    BY <1>1, <1>2
  <2> QED
    BY <2>1, GoodSeq
<1>4. ASSUME Grows, Hear(u, p) PROVE NetGood'
  <2>1. \A v, q \in Users : net'[v][q] = net[v][q] \/ net'[v][q] = Tail(net[p][u])
    BY <1>1, <1>4 DEF Hear
  <2>2. \A v, q \in Users : AllGood(net'[v][q], answered)
    BY <1>2, <1>3, <2>1
  <2> QED
    BY <1>4, <2>2, GoodGrows DEF NetGood, Grows
<1> QED
  BY <1>3, <1>4

LEMMA GoodSent ==
  ASSUME TypeInv, AnswerInv, Grows, NEW u \in Users, NEW p \in Users, NEW m \in Messages,
         Send(u, p, m), MessageGood(m, answered)
  PROVE  NetGood'
<1>1. net \in [Users -> [Users -> Seq(Messages)]]
  BY DEF TypeInv, TypeOK
<1>2. \A v, q \in Users : AllGood(net[v][q], answered)
  BY DEF AnswerInv, NetGood
<1>3. AllGood(Append(net[u][p], m), answered)
  <2>1. net[u][p] \in Seq(Messages) /\ AllGood(net[u][p], answered)
    BY <1>1, <1>2
  <2> QED
    BY <2>1, GoodSeq
<1>4. \A v, q \in Users : net'[v][q] = net[v][q] \/ net'[v][q] = Append(net[u][p], m)
  BY <1>1 DEF Send
<1>5. \A v, q \in Users : AllGood(net'[v][q], answered)
  BY <1>2, <1>3, <1>4
<1> QED
  BY <1>5, GoodGrows DEF NetGood, Grows

LEMMA GoodNew ==
  ASSUME TypeInv, AnswerInv, NEW u \in Users, NEW p \in Users, NEW a
  PROVE  /\ \A reason \in {"missed", "none"}, ui \in BOOLEAN :
              TaskGood(Ending(u, p, reason, ui), answered)
         /\ \A t \in Dropping(u, p) : TaskGood(t, a)
         /\ \A op \in {"inform", "invite", "notify", "answer", "reject", "miss", "dismiss"},
               c \in CallIds, ui \in BOOLEAN : TaskGood(Task(op, p, c, "none", ui), a)
         /\ \A op \in {"media", "channel", "start"}, c \in a, ui \in BOOLEAN :
              TaskGood(Task(op, p, c, "none", ui), a)
         /\ \A s \in {"missed", "rejected"}, c \in CallIds, ui \in BOOLEAN :
              TaskGood(Task("end", p, c, s, ui), a)
<1>1. SessionGood(session[u][p], answered)
  BY DEF AnswerInv, SessionsGood
<1>2. \A reason \in {"missed", "none"}, ui \in BOOLEAN :
        TaskGood(Ending(u, p, reason, ui), answered)
  BY <1>1 DEF Ending, Task, FinalStatus, TaskGood, SessionGood
<1>3. \A t \in Dropping(u, p) : TaskGood(t, a)
  BY DEF Dropping, Task, TaskGood
<1> QED
  BY <1>2, <1>3 DEF Task, TaskGood

\* A function that goes on, or begins, and stores nothing and sends nothing.
LEMMA GoodTaskOnly ==
  ASSUME TypeInv, AnswerInv, NEW u \in Users, NEW t, NEW more,
         Becomes(u, t, more) \/ Adds(u, more) \/ tasks' = tasks,
         \A new \in more : TaskGood(new, answered),
         UNCHANGED <<session, rows, answered, started>>, NetGood'
  PROVE  AnswerInv'
<1>1. Grows /\ \A new \in more : TaskGood(new, answered')
  BY DEF Grows
<1>2. TasksGood'
  BY <1>1, GoodTasks, GoodSame
<1> QED
  BY <1>1, <1>2, GoodSame DEF AnswerInv

LEMMA InformsAnswer ==
  ASSUME TypeInv, AnswerInv, NEW u \in Users, NEW p \in Users, NEW ui \in BOOLEAN,
         Informs(u, p, ui)
  PROVE  AnswerInv'
<1> DEFINE c == IF Active(u, p) THEN session[u][p].call ELSE NoCall
           op == IF Active(u, p) THEN "invite" ELSE "inform"
           new == Task(op, p, c, "none", ui)
<1>1. c \in CallIds
  <2>1. session[u][p] \in Sessions
    BY DEF TypeInv, TypeOK
  <2> QED
    BY <2>1, SessionFacts DEF CallIds
<1>2. Adds(u, {new})
  BY DEF Informs
<1>3. TaskGood(new, answered)
  <2>1. op \in {"inform", "invite"}
    OBVIOUS
  <2> HIDE DEF op, c
  <2> QED
    BY <1>1, <2>1, GoodNew
<1>4. UNCHANGED <<session, rows, answered, started, net>>
  BY DEF Informs, storeVars, historyVars
<1>5. NetGood'
  BY <1>4, GoodSame DEF Grows
<1> HIDE DEF new
<1> QED
  BY <1>2, <1>3, <1>4, <1>5, GoodTaskOnly

LEMMA AcceptAnswer ==
  ASSUME TypeInv, AnswerInv, NEW u \in Users, Accept(u)
  PROVE  AnswerInv'
<1> DEFINE p == shown[u].from
           s == session[u][p]
           e == [s EXCEPT !.answered = TRUE]
<1>1. p \in Users /\ shown[u].call \in Calls
  <2>1. shown[u] \in RingsOf /\ shown[u] # NoRing
    BY DEF Accept, TypeInv, RingWasShown, TypeOK
  <2> QED
    BY <2>1 DEF RingsOf
<1>2. UNCHANGED <<rows, net, started>>
  BY DEF Accept, storeVars
<1>3. CASE Active(u, p)
  <2>1. /\ session' = [session EXCEPT ![u][p] = e] /\ Adds(u, {Answers(u, p)})
        /\ answered' = answered \cup {s.call}
    BY <1>3 DEF Accept
  <2>2. Grows
    BY <2>1 DEF Grows
  <2>3. SessionGood(e, answered')
    <3>1. s \in [call : Calls, incoming : BOOLEAN, answered : BOOLEAN]
      BY <1>1, <1>3 DEF Active, TypeInv, TypeOK, Sessions
    <3> HIDE DEF s
    <3> QED
      BY <2>1, <3>1 DEF SessionGood
  <2>4. TaskGood(Answers(u, p), answered')
    BY <2>1 DEF Answers, Task, TaskGood
  <2>5. TasksGood'
    BY <2>1, <2>2, <2>4, GoodTasks
  <2>6. SessionsGood'
    BY <1>1, <2>1, <2>2, <2>3, GoodSessions
  <2> QED
    BY <1>2, <2>2, <2>5, <2>6, GoodSame DEF AnswerInv
<1>4. CASE ~Active(u, p)
  <2> DEFINE new == Task("answer", p, shown[u].call, "none", FALSE)
  <2>1. Adds(u, {new}) /\ UNCHANGED <<session, answered>>
    BY <1>4 DEF Accept
  <2>2. TaskGood(new, answered)
    BY <1>1, GoodNew DEF CallIds
  <2>3. NetGood'
    BY <1>2, <2>1, GoodSame DEF Grows
  <2> HIDE DEF new
  <2> QED
    BY <1>2, <2>1, <2>2, <2>3, GoodTaskOnly
<1> QED
  BY <1>3, <1>4

LEMMA DeclinedAnswer ==
  ASSUME TypeInv, AnswerInv, Grows, NEW u \in Users, NEW op \in {"reject", "miss"},
         NEW p \in Users, NEW t, NEW c \in Calls, Declined(u, op, p, t, c)
  PROVE  TasksGood' /\ NetGood'
<1> DEFINE status == IF op = "reject" THEN "rejected" ELSE "missed"
           new == Task("end", p, c, status, TRUE)
           more == {new} \cup Dropping(u, p)
           reply == Message("rejected", NoCall, "declined")
<1>1. Becomes(u, t, more) /\ (Send(u, p, reply) \/ net' = net)
  BY DEF Declined
<1>2. TaskGood(new, answered')
  <2>1. status \in {"missed", "rejected"} /\ c \in CallIds
    BY DEF CallIds
  <2> HIDE DEF status
  <2> QED
    BY <2>1, GoodNew
<1>3. \A x \in more : TaskGood(x, answered')
  BY <1>2, GoodNew
<1>4. reply \in Messages /\ MessageGood(reply, answered)
  BY MessageType DEF Message, MessageGood, CallIds
<1> HIDE DEF new, more, reply
<1>5. TasksGood'
  BY <1>1, <1>3, GoodTasks
<1>6. NetGood'
  BY <1>1, <1>4, GoodSent, GoodSame
<1> QED
  BY <1>5, <1>6

LEMMA DeclinesAnswer ==
  ASSUME TypeInv, AnswerInv, NEW u \in Users, NEW op \in {"reject", "miss"}, NEW p \in Users,
         Declines(u, op, p)
  PROVE  AnswerInv'
<1> DEFINE t == Task(op, p, NoCall, "none", TRUE)
<1>1. UNCHANGED <<session, rows, answered, started>>
  BY DEF Declines, callVars, storeVars, historyVars
<1>2. Grows
  BY <1>1 DEF Grows
<1>3. CASE Active(u, p)
  <2>1. session[u][p] \in Sessions
    BY DEF TypeInv, TypeOK
  <2>2. Declined(u, op, p, t, session[u][p].call) /\ session[u][p].call \in Calls
    BY <1>3, <2>1, SessionFacts DEF Declines, Active
  <2> HIDE DEF t
  <2>3. TasksGood' /\ NetGood'
    BY <1>2, <2>2, DeclinedAnswer
  <2> QED
    BY <1>1, <1>2, <2>3, GoodSame DEF AnswerInv
<1>4. CASE ~Active(u, p)
  <2>1. Adds(u, {t}) /\ net' = net
    BY <1>4 DEF Declines
  <2>2. TaskGood(t, answered)
    BY GoodNew DEF CallIds
  <2>3. NetGood'
    BY <1>2, <2>1, GoodSame
  <2> HIDE DEF t
  <2> QED
    BY <1>1, <2>1, <2>2, <2>3, GoodTaskOnly
<1> QED
  BY <1>3, <1>4

LEMMA TerminatesAnswer ==
  ASSUME TypeInv, AnswerInv, NEW u \in Users, NEW p \in Users, NEW state,
         NEW reason \in {"missed", "none"}, Terminates(u, p, state, reason)
  PROVE  AnswerInv'
<1> DEFINE new == Ending(u, p, reason, FALSE)
<1>1. tasks' = tasks \/ Adds(u, {new})
  BY DEF Terminates
<1>2. TaskGood(new, answered)
  BY GoodNew
<1>3. UNCHANGED <<session, rows, answered, started, net>>
  BY DEF Terminates, callVars, storeVars, historyVars
<1>4. NetGood'
  BY <1>3, GoodSame DEF Grows
<1> HIDE DEF new
<1> QED
  BY <1>1, <1>2, <1>3, <1>4, GoodTaskOnly

\* The row of a call that ends is completed only when the task says so.
LEMMA RetiredAnswer ==
  ASSUME TypeInv, AnswerInv, Grows, NEW u \in Users, NEW t \in tasks[u],
         t.op \in {"end", "ended"}, Becomes(u, t, {}), Settled(u, t),
         session' = [session EXCEPT ![u] = Retired(u, t)]
  PROVE  TasksGood' /\ SessionsGood' /\ CompletedWasAnswered'
<1>1. t \in Tasks /\ t.peer \in Users /\ t.call \in CallIds
  BY TaskOf, TaskFacts DEF TypeInv
<1>2. TaskGood(t, answered)
  BY DEF AnswerInv, TasksGood
<1>3. t.status = "completed" => t.call \in answered \cup {NoCall}
  BY <1>2 DEF TaskGood
<1>4. TasksGood'
  BY GoodTasks
<1>5. SessionsGood'
  <2>1. session \in [Users -> [Users -> Sessions]]
    BY DEF TypeInv, TypeOK
  <2>2. \A v, q \in Users : session'[v][q] = session[v][q] \/ session'[v][q] = NoSession
    BY <1>1, <2>1 DEF Retired
  <2>3. \A v, q \in Users : SessionGood(session[v][q], answered')
    BY GoodGrows DEF AnswerInv, SessionsGood, Grows
  <2>4. SessionGood(NoSession, answered')
    BY DEF SessionGood, NoSession
  <2> QED
    BY <2>2, <2>3, <2>4 DEF SessionsGood
<1>6. CompletedWasAnswered'
  <2>1. rows \in [Users -> [Calls -> Status]]
    BY DEF TypeInv, TypeOK
  <2>2. \A v \in Users, c \in Calls :
          rows'[v][c] = rows[v][c] \/ (c = t.call /\ rows'[v][c] = t.status)
    BY <1>1, <2>1 DEF Settled
  <2>3. \A v \in Users, c \in Calls : rows[v][c] = "completed" => c \in answered
    BY DEF AnswerInv, CompletedWasAnswered
  <2>4. \A c \in Calls : c # NoCall
    BY CallsAssumption
  <2> QED
    BY <1>3, <2>2, <2>3, <2>4 DEF CompletedWasAnswered, Grows
<1> QED
  BY <1>4, <1>5, <1>6

\* A row that is stored is initiating.
LEMMA StoredAnswer ==
  ASSUME TypeInv, AnswerInv, Grows, NEW u \in Users, NEW p \in Users, NEW c \in Calls,
         NEW incoming \in BOOLEAN, NEW accepted \in BOOLEAN,
         Store(u, p, c, incoming, accepted), accepted => c \in answered'
  PROVE  SessionsGood' /\ CompletedWasAnswered'
<1> DEFINE new == [call |-> c, incoming |-> incoming, answered |-> accepted]
<1>1. session' = [session EXCEPT ![u][p] = new]
  BY DEF Store
<1>2. SessionGood(new, answered')
  BY DEF SessionGood
<1> HIDE DEF new
<1>3. SessionsGood'
  BY <1>1, <1>2, GoodSessions
<1>4. CompletedWasAnswered'
  <2>1. rows \in [Users -> [Calls -> Status]]
    BY DEF TypeInv, TypeOK
  <2>2. \A v \in Users, d \in Calls :
          rows'[v][d] = rows[v][d] \/ rows'[v][d] = "initiating"
    BY <2>1 DEF Store
  <2>3. \A v \in Users, d \in Calls : rows[v][d] = "completed" => d \in answered
    BY DEF AnswerInv, CompletedWasAnswered
  <2> QED
    BY <2>2, <2>3 DEF CompletedWasAnswered, Grows
<1> QED
  BY <1>3, <1>4

LEMMA CallerTaskAnswer ==
  ASSUME TypeInv, AnswerInv, NEW u \in Users, NEW t \in tasks[u]
  PROVE  /\ InformStored(u, t) => AnswerInv'
         /\ Invite(u, t) => AnswerInv'
         /\ InviteFails(u, t) => AnswerInv'
         /\ StartConnects(u, t) => AnswerInv'
         /\ StartFails(u, t) => AnswerInv'
<1>1. t \in Tasks /\ t.peer \in Users
  BY TaskOf DEF TypeInv
<1>2. TaskGood(t, answered)
  BY DEF AnswerInv, TasksGood
<1>3. ASSUME InformStored(u, t) PROVE AnswerInv'
  <2>1. PICK c \in Calls : /\ Store(u, t.peer, c, FALSE, FALSE)
                           /\ Becomes(u, t, {[t EXCEPT !.op = "invite", !.call = c]})
    BY <1>3 DEF InformStored
  <2>2. UNCHANGED <<net, answered, started>>
    BY <1>3 DEF InformStored, historyVars
  <2>3. Grows
    BY <2>2 DEF Grows
  <2>4. TaskGood([t EXCEPT !.op = "invite", !.call = c], answered')
    <3>1. [t EXCEPT !.op = "invite", !.call = c].op = "invite"
      BY <1>1 DEF Tasks
    <3> QED
      BY <3>1 DEF TaskGood
  <2>5. TasksGood'
    BY <2>1, <2>3, <2>4, GoodTasks
  <2>6. SessionsGood' /\ CompletedWasAnswered'
    BY <1>1, <2>1, <2>3, StoredAnswer
  <2> QED
    BY <2>2, <2>3, <2>5, <2>6, GoodSame DEF AnswerInv
<1>4. ASSUME Invite(u, t) PROVE AnswerInv'
  <2> DEFINE reply == Message("call", t.call, "none")
  <2>1. Becomes(u, t, {}) /\ Send(u, t.peer, reply)
        /\ UNCHANGED <<session, rows, answered, started>>
    BY <1>4 DEF Invite, Prepares, storeVars
  <2>2. reply \in Messages /\ MessageGood(reply, answered)
    <3>1. t.call \in Calls
      BY <1>1, <1>4, TaskFacts DEF Invite, CallOps
    <3> QED
      BY <3>1, MessageType DEF Message, MessageGood
  <2> HIDE DEF reply
  <2>3. NetGood'
    BY <1>1, <2>1, <2>2, GoodSent DEF Grows
  <2> QED
    BY <2>1, <2>3, GoodTaskOnly
<1>5. ASSUME InviteFails(u, t) \/ StartFails(u, t) PROVE AnswerInv'
  <2> DEFINE more == {Ending(u, t.peer, "missed", FALSE)} \cup Dropping(u, t.peer)
  <2>1. /\ Becomes(u, t, {}) \/ Becomes(u, t, more)
        /\ UNCHANGED <<session, rows, net, answered, started>>
    BY <1>5 DEF InviteFails, StartFails, Prepares, callVars, storeVars, historyVars
  <2>2. \A x \in more : TaskGood(x, answered)
    BY <1>1, GoodNew
  <2>3. NetGood'
    BY <2>1, GoodSame DEF Grows
  <2> HIDE DEF more
  <2> QED
    BY <2>1, <2>2, <2>3, GoodTaskOnly
<1>6. ASSUME StartConnects(u, t) PROVE AnswerInv'
  <2> DEFINE s == session[u][t.peer]
             b == s.answered \/ s.call = t.call
             e == [s EXCEPT !.answered = b]
  <2>1. /\ session' = [session EXCEPT ![u][t.peer] = e] /\ Becomes(u, t, {})
        /\ UNCHANGED <<rows, net, answered, started>>
    BY <1>6 DEF StartConnects, storeVars, historyVars
  <2>2. t.call \in answered
    BY <1>2, <1>6 DEF StartConnects, TaskGood
  <2>3. SessionGood(e, answered')
    <3>1. SessionGood(s, answered)
      BY <1>1 DEF AnswerInv, SessionsGood
    <3>2. b => s.call \in answered
      BY <2>2, <3>1 DEF SessionGood
    <3>3. e.call = s.call /\ e.answered = b
      <4>1. s \in Sessions
        BY <1>1 DEF TypeInv, TypeOK
      <4>2. s \in [call : CallIds, incoming : BOOLEAN, answered : BOOLEAN]
        <5>1. NoSession \in [call : CallIds, incoming : BOOLEAN, answered : BOOLEAN]
          BY DEF NoSession, CallIds
        <5>2. s = NoSession \/ s \in [call : Calls, incoming : BOOLEAN, answered : BOOLEAN]
          BY <4>1 DEF Sessions
        <5> HIDE DEF s
        <5> QED
          BY <5>1, <5>2 DEF CallIds
      <4> HIDE DEF s, b
      <4> QED
        BY <4>2
    <3> HIDE DEF e, b, s
    <3> QED
      BY <2>1, <3>2, <3>3 DEF SessionGood
  <2>4. Grows
    BY <2>1 DEF Grows
  <2> HIDE DEF e
  <2>5. SessionsGood'
    BY <1>1, <2>1, <2>3, <2>4, GoodSessions
  <2>6. TasksGood'
    BY <2>1, <2>4, GoodTasks
  <2> QED
    BY <2>1, <2>4, <2>5, <2>6, GoodSame DEF AnswerInv
<1> QED
  BY <1>3, <1>4, <1>5, <1>6

LEMMA CalleeTaskAnswer ==
  ASSUME TypeInv, AnswerInv, NEW u \in Users, NEW t \in tasks[u]
  PROVE  /\ Notified(u, t) => AnswerInv'
         /\ AnswerStored(u, t) => AnswerInv'
         /\ Ready(u, t) => AnswerInv'
         /\ Channel(u, t) => AnswerInv'
         /\ DeclineStored(u, t) => AnswerInv'
<1>1. t \in Tasks /\ t.peer \in Users
  BY TaskOf DEF TypeInv
<1>2. TaskGood(t, answered)
  BY DEF AnswerInv, TasksGood
<1>3. ASSUME Notified(u, t) \/ Channel(u, t) PROVE AnswerInv'
  <2>1. /\ Becomes(u, t, {})
        /\ UNCHANGED <<session, rows, net, answered, started>>
    BY <1>3 DEF Notified, Channel, storeVars, historyVars
  <2>2. NetGood'
    BY <2>1, GoodSame DEF Grows
  <2> QED
    BY <2>1, <2>2, GoodTaskOnly
<1>4. ASSUME AnswerStored(u, t) PROVE AnswerInv'
  <2>1. t.call \in Calls
    BY <1>1, <1>4, TaskFacts DEF AnswerStored, CallOps
  <2>2. UNCHANGED <<net, started>>
    BY <1>4 DEF AnswerStored
  <2>3. CASE rows[u][t.call] = "none"
    <3>1. /\ Store(u, t.peer, t.call, TRUE, TRUE)
          /\ Becomes(u, t, {[t EXCEPT !.op = "media"]}) /\ answered' = answered \cup {t.call}
      BY <1>4, <2>3 DEF AnswerStored
    <3>2. Grows
      BY <3>1 DEF Grows
    <3>3. TaskGood([t EXCEPT !.op = "media"], answered')
      <4>1. /\ [t EXCEPT !.op = "media"].op = "media"
            /\ [t EXCEPT !.op = "media"].call = t.call
        BY <1>1 DEF Tasks
      <4> QED
        BY <3>1, <4>1 DEF TaskGood
    <3>4. TasksGood'
      BY <3>1, <3>2, <3>3, GoodTasks
    <3>5. SessionsGood' /\ CompletedWasAnswered'
      BY <1>1, <2>1, <3>1, <3>2, StoredAnswer
    <3> QED
      BY <2>2, <3>2, <3>4, <3>5, GoodSame DEF AnswerInv
  <2>4. CASE rows[u][t.call] # "none"
    <3>1. Becomes(u, t, {}) /\ UNCHANGED <<session, rows, answered>>
      BY <1>4, <2>4 DEF AnswerStored
    <3>2. NetGood'
      BY <2>2, <3>1, GoodSame DEF Grows
    <3> QED
      BY <2>2, <3>1, <3>2, GoodTaskOnly
  <2> QED
    BY <2>3, <2>4
<1>5. ASSUME Ready(u, t) PROVE AnswerInv'
  <2> DEFINE reply == Message("ready", t.call, "none")
             new == [t EXCEPT !.op = "channel"]
  <2>1. /\ Becomes(u, t, {}) \/ Becomes(u, t, {new})
        /\ Send(u, t.peer, reply) \/ net' = net
        /\ UNCHANGED <<session, rows, answered, started>>
    BY <1>5 DEF Ready, callVars, storeVars, historyVars
  <2>2. t.call \in Calls /\ t.call \in answered
    BY <1>1, <1>2, <1>5, TaskFacts DEF Ready, CallOps, TaskGood
  <2>3. TaskGood(new, answered)
    <3>1. new.op = "channel" /\ new.call = t.call
      BY <1>1 DEF Tasks
    <3> HIDE DEF new
    <3> QED
      BY <2>2, <3>1 DEF TaskGood
  <2>4. reply \in Messages /\ MessageGood(reply, answered)
    BY <2>2, MessageType DEF Message, MessageGood
  <2> HIDE DEF reply, new
  <2>5. NetGood'
    BY <1>1, <2>1, <2>4, GoodSent, GoodSame DEF Grows
  <2> QED
    BY <2>1, <2>3, <2>5, GoodTaskOnly
<1>6. ASSUME DeclineStored(u, t) PROVE AnswerInv'
  <2>1. t.op \in {"reject", "miss"} /\ UNCHANGED <<answered, started>>
    BY <1>6 DEF DeclineStored, historyVars
  <2>2. PICK c \in Calls : /\ Store(u, t.peer, c, TRUE, FALSE)
                           /\ Declined(u, t.op, t.peer, t, c)
    BY <1>6 DEF DeclineStored
  <2>3. Grows
    BY <2>1 DEF Grows
  <2>4. TasksGood' /\ NetGood'
    BY <1>1, <2>1, <2>2, <2>3, DeclinedAnswer
  <2>5. SessionsGood' /\ CompletedWasAnswered'
    BY <1>1, <2>2, <2>3, StoredAnswer
  <2> QED
    BY <2>1, <2>3, <2>4, <2>5, GoodSame DEF AnswerInv
<1> QED
  BY <1>3, <1>4, <1>5, <1>6

LEMMA EndTaskAnswer ==
  ASSUME TypeInv, AnswerInv, NEW u \in Users, NEW t \in tasks[u]
  PROVE  /\ Dismissed(u, t) => AnswerInv'
         /\ Dropped(u, t) => AnswerInv'
         /\ EndDone(u, t) => AnswerInv'
         /\ RemoteEndDone(u, t) => AnswerInv'
<1>1. t \in Tasks /\ t.peer \in Users
  BY TaskOf DEF TypeInv
<1>2. TaskGood(t, answered)
  BY DEF AnswerInv, TasksGood
<1>3. ASSUME Dismissed(u, t) \/ Dropped(u, t) PROVE AnswerInv'
  <2> DEFINE new == Ending(u, t.peer, "missed", FALSE)
  <2>1. /\ Becomes(u, t, {}) \/ Becomes(u, t, {new})
        /\ UNCHANGED <<session, rows, net, answered, started>>
    BY <1>3 DEF Dismissed, Dropped, callVars, storeVars, historyVars
  <2>2. TaskGood(new, answered)
    BY <1>1, GoodNew
  <2>3. NetGood'
    BY <2>1, GoodSame DEF Grows
  <2> HIDE DEF new
  <2> QED
    BY <2>1, <2>2, <2>3, GoodTaskOnly
<1>4. ASSUME EndDone(u, t) PROVE AnswerInv'
  <2> DEFINE reply == Message("ended", t.call, t.status)
  <2>1. /\ t.op = "end" /\ Becomes(u, t, {}) /\ Settled(u, t) /\ Send(u, t.peer, reply)
        /\ session' = [session EXCEPT ![u] = Retired(u, t)]
        /\ UNCHANGED <<answered, started>>
    BY <1>4 DEF EndDone, historyVars
  <2>2. Grows
    BY <2>1 DEF Grows
  <2>3. reply \in Messages /\ MessageGood(reply, answered)
    <3>1. t.call \in CallIds /\ t.status \in Ended
      BY <1>1, <2>1, TaskFacts
    <3>2. t.status = "completed" => t.call \in answered
      BY <1>2, <2>1 DEF TaskGood
    <3> QED
      BY <3>1, <3>2, MessageType DEF Message, MessageGood
  <2> HIDE DEF reply
  <2>4. NetGood'
    BY <1>1, <2>1, <2>2, <2>3, GoodSent
  <2>5. TasksGood' /\ SessionsGood' /\ CompletedWasAnswered'
    BY <2>1, <2>2, RetiredAnswer
  <2> QED
    BY <2>1, <2>2, <2>4, <2>5, GoodSame DEF AnswerInv
<1>5. ASSUME RemoteEndDone(u, t) PROVE AnswerInv'
  <2>1. /\ t.op = "ended" /\ Becomes(u, t, {}) /\ Settled(u, t)
        /\ session' = [session EXCEPT ![u] = Retired(u, t)]
        /\ UNCHANGED <<net, answered, started>>
    BY <1>5 DEF RemoteEndDone, historyVars
  <2>2. Grows
    BY <2>1 DEF Grows
  <2>3. TasksGood' /\ SessionsGood' /\ CompletedWasAnswered'
    BY <2>1, <2>2, RetiredAnswer
  <2> QED
    BY <2>1, <2>2, <2>3, GoodSame DEF AnswerInv
<1> QED
  BY <1>3, <1>4, <1>5

LEMMA HeardCallAnswer ==
  ASSUME TypeInv, AnswerInv, NEW u \in Users, NEW p \in Users, net[p][u] # <<>>,
         HearCall(u, p, Head(net[p][u]))
  PROVE  AnswerInv'
<1> DEFINE m == Head(net[p][u])
           reply == Message("rejected", m.call, "busy")
           new == Task("notify", p, m.call, "none", FALSE)
<1>1. m \in Messages /\ m.call \in CallIds
  BY NetHeard, MessageFacts DEF TypeInv
<1>2. UNCHANGED <<session, rows, answered, started>>
  BY DEF HearCall, callVars, storeVars, historyVars
<1>3. CASE BusyFor(u, p)
  <2> DEFINE rest == Tail(net[p][u])
             heard == [net EXCEPT ![p] = [net[p] EXCEPT ![u] = rest]]
             said == Append(heard[u][p], reply)
  <2>1. net \in [Users -> [Users -> Seq(Messages)]]
    BY DEF TypeInv, TypeOK
  <2>2. \A v, q \in Users : AllGood(net[v][q], answered)
    BY DEF AnswerInv, NetGood
  <2>3. rest \in Seq(Messages) /\ AllGood(rest, answered)
    <3>1. net[p][u] \in Seq(Messages) /\ AllGood(net[p][u], answered)
      BY <2>1, <2>2
    <3> QED
      BY <3>1, GoodSeq
  <2>4. reply \in Messages /\ MessageGood(reply, answered)
    BY <1>1, MessageType DEF Message, MessageGood
  <2>5. net' = [heard EXCEPT ![u] = [heard[u] EXCEPT ![p] = said]] /\ tasks' = tasks
    BY <1>3 DEF HearCall
  <2> HIDE DEF rest, reply
  <2>6. /\ heard \in [Users -> [Users -> Seq(Messages)]]
        /\ \A v, q \in Users : heard[v][q] = net[v][q] \/ heard[v][q] = rest
    BY <2>1, <2>3
  <2> HIDE DEF heard
  <2>7. \A v, q \in Users : AllGood(heard[v][q], answered)
    BY <2>2, <2>3, <2>6
  <2>8. AllGood(said, answered)
    <3>1. heard[u][p] \in Seq(Messages) /\ AllGood(heard[u][p], answered)
      BY <2>6, <2>7
    <3> QED
      BY <2>4, <3>1, GoodSeq
  <2> HIDE DEF said
  <2>9. \A v, q \in Users : net'[v][q] = heard[v][q] \/ net'[v][q] = said
    BY <2>5, <2>6
  <2>10. NetGood'
    <3>1. \A v, q \in Users : AllGood(net'[v][q], answered)
      BY <2>7, <2>8, <2>9
    <3> QED
      BY <1>2, <3>1 DEF NetGood
  <2> QED
    BY <1>2, <2>5, <2>10, GoodSame DEF AnswerInv, Grows
<1>4. CASE ~BusyFor(u, p)
  <2>1. Adds(u, {new}) /\ Hear(u, p)
    BY <1>4 DEF HearCall
  <2>2. TaskGood(new, answered)
    BY <1>1, GoodNew
  <2>3. NetGood'
    BY <1>2, <2>1, GoodHeard DEF Grows
  <2> HIDE DEF new
  <2> QED
    BY <1>2, <2>1, <2>2, <2>3, GoodTaskOnly
<1> QED
  BY <1>3, <1>4

\* A call-ready is only sent for a call that was accepted, and is only taken for
\* the call of the session.
LEMMA HeardReadyAnswer ==
  ASSUME TypeInv, AnswerInv, NEW u \in Users, NEW p \in Users, net[p][u] # <<>>,
         HearReady(u, p, Head(net[p][u]))
  PROVE  AnswerInv'
<1> DEFINE m == Head(net[p][u])
           c == session[u][p].call
           new == Task("start", p, c, "none", FALSE)
<1>1. /\ m.type = "ready" /\ Hear(u, p)
      /\ UNCHANGED <<session, rows, answered>>
  BY DEF HearReady, storeVars
<1>2. Grows
  BY <1>1 DEF Grows
<1>3. MessageGood(m, answered) /\ NetGood'
  BY <1>1, <1>2, GoodHeard
<1>4. \/ UNCHANGED <<tasks, started>>
      \/ c = m.call /\ Adds(u, {new}) /\ started' = started \cup {c}
  BY DEF HearReady, ReadyAccepted
<1>5. c = m.call => c \in answered
  BY <1>1, <1>3 DEF MessageGood
<1>6. c \in answered => TaskGood(new, answered')
  BY <1>1, GoodNew
<1> HIDE DEF m, c, new
<1>7. TasksGood'
  BY <1>2, <1>4, <1>5, <1>6, GoodTasks, GoodSame
<1>8. StartedWasAnswered'
  BY <1>1, <1>4, <1>5 DEF StartedWasAnswered, AnswerInv
<1> QED
  BY <1>1, <1>2, <1>3, <1>7, <1>8, GoodSame DEF AnswerInv

\* The end that a peer tells counts for the session only when it is of its call.
LEMMA HeardEndedAnswer ==
  ASSUME TypeInv, AnswerInv, NEW u \in Users, NEW p \in Users, net[p][u] # <<>>,
         HearEnded(u, p, Head(net[p][u]))
  PROVE  AnswerInv'
<1> DEFINE m == Head(net[p][u])
           rings == ring[u].from = p
           inRoom == room[u].peer = p /\ ~Stale(u, p, m)
           c == session[u][p].call
           ends == Task("ended", p, c, m.status, inRoom)
           dismiss == Task("dismiss", p, NoCall, "none", TRUE)
           new == (IF rings THEN {dismiss} ELSE {})
                    \cup (IF inRoom \/ ~Active(u, p) THEN {ends} ELSE {})
<1>1. /\ m.type = "ended" /\ Hear(u, p) /\ Adds(u, new)
      /\ UNCHANGED <<session, rows, answered, started>>
  BY DEF HearEnded, storeVars, historyVars
<1>2. m \in Messages /\ MessageGood(m, answered)
  BY NetHeard, GoodHeard DEF TypeInv
<1>3. NetGood'
  BY <1>1, GoodHeard DEF Grows
<1>4. TaskGood(dismiss, answered)
  BY GoodNew DEF CallIds
<1>5. ASSUME inRoom \/ ~Active(u, p) PROVE TaskGood(ends, answered)
  <2>1. m.status = "completed" => m.call \in answered
    BY <1>1, <1>2 DEF MessageGood
  <2>2. answered \subseteq Calls
    BY DEF TypeInv, TypeOK
  <2>3. m.status = "completed" => m.call # NoCall
    BY <2>1, <2>2, CallsAssumption
  <2>4. CASE Active(u, p)
    <3>1. m.call = NoCall \/ m.call = c
      BY <1>5, <2>4 DEF Stale
    <3> HIDE DEF c, m
    <3> QED
      BY <2>1, <2>3, <3>1 DEF TaskGood, Task
  <2>5. CASE ~Active(u, p)
    <3>1. c = NoCall
      BY <2>5 DEF Active, NoSession
    <3> HIDE DEF c
    <3> QED
      BY <3>1 DEF TaskGood, Task
  <2> QED
    BY <2>4, <2>5
<1>6. \A x \in new : TaskGood(x, answered)
  <2> HIDE DEF ends, dismiss, rings, inRoom
  <2> QED
    BY <1>4, <1>5
<1> HIDE DEF new
<1> QED
  BY <1>1, <1>3, <1>6, GoodTaskOnly

LEMMA NextAnswer == TypeInv /\ AnswerInv /\ [Next]_vars => AnswerInv'
<1> SUFFICES ASSUME TypeInv, AnswerInv, [Next]_vars PROVE AnswerInv'
  OBVIOUS
<1>1. UNCHANGED <<session, rows, tasks, net, answered, started>> => AnswerInv'
  BY GoodSame DEF AnswerInv, Grows
<1>2. CASE UNCHANGED vars
  BY <1>1, <1>2 DEF vars, callVars, storeVars, historyVars
<1>3. ASSUME NEW u \in Users, UserStep(u) PROVE AnswerInv'
  <2>1. CASE \E p \in Users : PlaceCall(u, p)
    BY <2>1, InformsAnswer DEF PlaceCall
  <2>2. CASE CallAgain(u)
    BY <2>2, InformsAnswer DEF CallAgain
  <2>3. CASE Reject(u)
    <3>1. shown[u] \in RingsOf /\ shown[u] # NoRing
      BY <2>3 DEF Reject, Declines, TypeInv, RingWasShown, TypeOK
    <3>2. shown[u].from \in Users
      BY <3>1 DEF RingsOf
    <3> QED
      BY <2>3, <3>2, DeclinesAnswer DEF Reject
  <2>4. CASE HangUp(u)
    BY <2>4, TerminatesAnswer DEF HangUp
  <2> QED
    BY <1>3, <2>1, <2>2, <2>3, <2>4, AcceptAnswer DEF UserStep
<1>4. ASSUME NEW u \in Users, TaskStep(u) PROVE AnswerInv'
  BY <1>4, CallerTaskAnswer, CalleeTaskAnswer, EndTaskAnswer DEF TaskStep
<1>5. ASSUME NEW u \in Users, NoAnswer(u) PROVE AnswerInv'
  BY <1>5, TerminatesAnswer DEF NoAnswer
<1>6. ASSUME NEW u \in Users, RingTimeout(u) PROVE AnswerInv'
  <2>1. ring[u] \in RingsOf /\ ring[u] # NoRing
    BY <1>6 DEF RingTimeout, Declines, TypeInv, TypeOK
  <2>2. ring[u].from \in Users
    BY <2>1 DEF RingsOf
  <2> QED
    BY <1>6, <2>2, DeclinesAnswer DEF RingTimeout
<1>7. ASSUME NEW u \in Users, NEW p \in Users, Receive(u, p) PROVE AnswerInv'
  <2>1. CASE HearRejected(u, p, Head(net[p][u]))
    <3>1. /\ Hear(u, p) /\ net[p][u] # <<>>
          /\ UNCHANGED <<session, rows, tasks, answered, started>>
      BY <1>7, <2>1 DEF HearRejected, Receive, callVars, storeVars, historyVars
    <3>2. NetGood'
      BY <3>1, GoodHeard DEF Grows
    <3> QED
      BY <3>1, <3>2, GoodSame DEF AnswerInv, Grows
  <2> QED
    BY <1>7, <2>1, HeardCallAnswer, HeardReadyAnswer, HeardEndedAnswer DEF Receive
<1>8. ASSUME NEW u \in Users, Reconnecting(u) PROVE AnswerInv'
  BY <1>1, <1>8 DEF Reconnecting, callVars, storeVars, historyVars
<1>9. ASSUME NEW u \in Users, NEW p \in Users, MediaArrives(u, p) \/ Reconnected(u, p)
      PROVE  AnswerInv'
  BY <1>1, <1>9 DEF MediaArrives, Reconnected, callVars, storeVars, historyVars
<1>10. ASSUME NEW u \in Users, NEW p \in Users, Disconnected(u, p) PROVE AnswerInv'
  <2>1. /\ Adds(u, Dropping(u, p)) /\ UNCHANGED <<session, rows, net, answered, started>>
    BY <1>10 DEF Disconnected, callVars, storeVars, historyVars
  <2>2. \A x \in Dropping(u, p) : TaskGood(x, answered)
    BY GoodNew
  <2>3. NetGood'
    BY <2>1, GoodSame DEF Grows
  <2> QED
    BY <2>1, <2>2, <2>3, GoodTaskOnly
<1>11. ASSUME NEW u \in Users, NEW p \in Users, Lose(u, p) PROVE AnswerInv'
  <2>1. /\ Hear(p, u) /\ net[u][p] # <<>>
        /\ UNCHANGED <<session, rows, tasks, answered, started>>
    BY <1>11 DEF Lose, Hear, callVars, storeVars, historyVars
  <2>2. NetGood'
    BY <2>1, GoodHeard DEF Grows
  <2> QED
    BY <2>1, <2>2, GoodSame DEF AnswerInv, Grows
<1> QED
  BY <1>2, <1>3, <1>4, <1>5, <1>6, <1>7, <1>8, <1>9, <1>10, <1>11 DEF Next, LinkStep

LEMMA Answering == Spec => []AnswerInv
<1>1. Init => TypeInv /\ AnswerInv
  <2> SUFFICES ASSUME Init PROVE AnswerInv
    BY InitType
  <2>1. TasksGood /\ SessionsGood /\ NetGood
    BY DEF Init, TasksGood, SessionsGood, SessionGood, NoSession, NetGood, AllGood
  <2>2. StartedWasAnswered /\ CompletedWasAnswered
    BY DEF Init, StartedWasAnswered, CompletedWasAnswered
  <2> QED
    BY <2>1, <2>2 DEF AnswerInv
<1>2. TypeInv /\ AnswerInv /\ [Next]_vars => (TypeInv /\ AnswerInv)'
  BY NextType, NextAnswer
<1> QED
  BY <1>1, <1>2, PTL DEF Spec

\* No phone starts the negotiation of a call that its callee did not accept,
\* however late its call-ready comes and whichever calls crossed.
THEOREM StartedAfterAnswer == Spec => []StartedWasAnswered
<1>1. AnswerInv => StartedWasAnswered
  BY DEF AnswerInv
<1> QED
  BY <1>1, Answering, PTL

\* A call that any phone keeps as completed was accepted by a callee, also when
\* it was told so by a peer whose own call was another.
THEOREM CompletedAfterAnswer == Spec => []CompletedWasAnswered
<1>1. AnswerInv => CompletedWasAnswered
  BY DEF AnswerInv
<1> QED
  BY <1>1, Answering, PTL

-----------------------------------------------------------------------------
(* Two phones are told of each other that they are busy only if one of     *)
(* them was busy with a third                                              *)

Quiet(s) == \A i \in 1 .. Len(s) : s[i].status # "busy"

\* What was said is not taken back.
Remembers == elsewhere \subseteq elsewhere'

\* Nobody rings, calls or writes itself, and a phone that was not elsewhere says
\* busy only to one with a smaller id, to which it does not give way.
MarksApart == \A u \in Users : marker[u] # u /\ ring[u].from # u /\ shown[u].from # u
TasksApart == \A u \in Users : \A t \in tasks[u] : t.peer # u
RoomsApart ==
  \A u \in Users :
    /\ room[u].peer # u
    /\ \A p \in Users : room[u].peer = p /\ room[u].state = "busy"
                       => rank[u] < rank[p] \/ <<p, u>> \in elsewhere
NetApart ==
  /\ \A u \in Users : net[u][u] = <<>>
  /\ \A u, p \in Users :
       ~(rank[p] < rank[u]) /\ <<u, p>> \notin elsewhere => Quiet(net[u][p])

BusyInv == MarksApart /\ TasksApart /\ RoomsApart /\ NetApart

LEMMA QuietSeq ==
  ASSUME NEW s \in Seq(Messages), Quiet(s)
  PROVE  /\ s # <<>> => Quiet(Tail(s)) /\ Head(s).status # "busy"
         /\ \A m \in Messages : m.status # "busy" => Quiet(Append(s, m))
<1>1. ASSUME s # <<>> PROVE Quiet(Tail(s)) /\ Head(s).status # "busy"
  <2>1. /\ Len(s) \in Nat /\ Len(s) > 0 /\ Head(s) = s[1] /\ Len(Tail(s)) = Len(s) - 1
        /\ \A i \in 1 .. Len(Tail(s)) : Tail(s)[i] = s[i + 1]
    BY <1>1
  <2> QED
    BY <2>1 DEF Quiet
<1>2. ASSUME NEW m \in Messages, m.status # "busy" PROVE Quiet(Append(s, m))
  <2>1. /\ Len(s) \in Nat /\ Len(Append(s, m)) = Len(s) + 1
        /\ \A i \in 1 .. Len(s) + 1 : Append(s, m)[i] = IF i = Len(s) + 1 THEN m ELSE s[i]
    OBVIOUS
  <2> QED
    BY <1>2, <2>1 DEF Quiet
<1> QED
  BY <1>1, <1>2

LEMMA ApartSame ==
  ASSUME BusyInv, Remembers
  PROVE  /\ UNCHANGED <<marker, ring, shown>> => MarksApart'
         /\ tasks' = tasks => TasksApart'
         /\ room' = room => RoomsApart'
         /\ net' = net => NetApart'
<1> USE DEF BusyInv
<1>1. UNCHANGED <<marker, ring, shown>> => MarksApart'
  BY DEF MarksApart
<1>2. tasks' = tasks => TasksApart'
  BY DEF TasksApart
<1>3. room' = room => RoomsApart'
  BY DEF RoomsApart, Remembers
<1>4. net' = net => NetApart'
  BY DEF NetApart, Remembers
<1> QED
  BY <1>1, <1>2, <1>3, <1>4

LEMMA ApartTasks ==
  ASSUME TypeInv, BusyInv, NEW u \in Users, NEW t, NEW more,
         Becomes(u, t, more) \/ Adds(u, more) \/ tasks' = tasks,
         \A new \in more : new.peer # u
  PROVE  TasksApart'
<1>1. tasks \in [Users -> SUBSET Tasks]
  BY DEF TypeInv, TypeOK
<1>2. \A v \in Users : \A x \in tasks'[v] : x \in tasks[v] \/ (v = u /\ x \in more)
  BY <1>1 DEF Becomes, Adds
<1> QED
  BY <1>2 DEF BusyInv, TasksApart

\* The room of u becomes r: it is not told busy by what happens to it.
LEMMA ApartRoom ==
  ASSUME TypeInv, BusyInv, Remembers,
         NEW u \in Users, NEW r, room' = [room EXCEPT ![u] = r],
         r.peer # u,
         r.state = "busy" =>
           \/ room[u].state = "busy" /\ r.peer = room[u].peer
           \/ rank[u] < rank[r.peer] \/ <<r.peer, u>> \in elsewhere
  PROVE  RoomsApart'
<1>1. room \in [Users -> Rooms]
  BY DEF TypeInv, TypeOK
<1>2. room'[u] = r /\ \A v \in Users : v # u => room'[v] = room[v]
  BY <1>1
<1> QED
  BY <1>2 DEF BusyInv, RoomsApart, Remembers

LEMMA ApartHeard ==
  ASSUME TypeInv, BusyInv, Remembers,
         NEW u \in Users, NEW p \in Users, net[p][u] # <<>>
  PROVE  /\ p # u
         /\ Head(net[p][u]).status = "busy" =>
              rank[u] < rank[p] \/ <<p, u>> \in elsewhere
         /\ Hear(u, p) => NetApart'
<1>1. net \in [Users -> [Users -> Seq(Messages)]]
  BY DEF TypeInv, TypeOK
<1>2. p # u /\ (~(rank[u] < rank[p]) /\ <<p, u>> \notin elsewhere => Quiet(net[p][u]))
  BY DEF BusyInv, NetApart
<1>3. net[p][u] \in Seq(Messages)
  BY <1>1
<1>4. Quiet(net[p][u]) => Quiet(Tail(net[p][u])) /\ Head(net[p][u]).status # "busy"
  BY <1>3, QuietSeq
<1>5. ASSUME Hear(u, p) PROVE NetApart'
  <2>1. \A v, q \in Users :
          net'[v][q] = IF v = p /\ q = u THEN Tail(net[p][u]) ELSE net[v][q]
    BY <1>1, <1>5 DEF Hear
  <2> QED
    BY <1>2, <1>4, <2>1 DEF BusyInv, NetApart, Remembers
<1> QED
  BY <1>2, <1>4, <1>5

LEMMA ApartSent ==
  ASSUME TypeInv, BusyInv, Remembers,
         NEW u \in Users, NEW p \in Users, NEW m \in Messages,
         Send(u, p, m), p # u, m.status # "busy"
  PROVE  NetApart'
<1>1. net \in [Users -> [Users -> Seq(Messages)]]
  BY DEF TypeInv, TypeOK
<1>2. net[u][p] \in Seq(Messages)
  BY <1>1
<1>3. Quiet(net[u][p]) => Quiet(Append(net[u][p], m))
  BY <1>2, QuietSeq
<1>4. \A v, q \in Users :
        net'[v][q] = IF v = u /\ q = p THEN Append(net[u][p], m) ELSE net[v][q]
  BY <1>1 DEF Send
<1> QED
  BY <1>3, <1>4 DEF BusyInv, NetApart, Remembers

\* The ring is put away: what is left is a peer of the marker or of a ring.
LEMMA ApartRing ==
  ASSUME TypeInv, BusyInv, NEW u \in Users, NEW s, NEW m, m # u, RingCleared(u, s, m)
  PROVE  MarksApart'
<1> DEFINE next == IF shown[u] # rung[u] THEN shown[u] ELSE NoRing
           left == OutOfRing(u, s, m)
           after == IF next = NoRing THEN left ELSE next.from
<1>1. ring' = [ring EXCEPT ![u] = next] /\ marker' = [marker EXCEPT ![u] = after]
      /\ shown' = shown
  BY DEF RingCleared
<1>2. NoRing.from # u /\ NoUser # u
  BY CallsAssumption DEF NoRing
<1>3. next.from # u /\ after # u
  BY <1>2 DEF OutOfRing, BusyInv, MarksApart
<1>4. ring \in [Users -> RingsOf] /\ marker \in [Users -> Peers]
  BY DEF TypeInv, TypeOK
<1> HIDE DEF next, after
<1> QED
  BY <1>1, <1>3, <1>4 DEF BusyInv, MarksApart

LEMMA ApartPeers ==
  ASSUME TypeInv, BusyInv, NEW u \in Users
  PROVE  /\ ring[u].from # u /\ shown[u].from # u /\ marker[u] # u /\ room[u].peer # u
         /\ \A t \in tasks[u] : t.peer # u
         /\ \A p : \A t \in Dropping(u, p) : t.peer # u
         /\ \A p : Released(u, p) # u
<1>1. marker[u] # u /\ NoUser # u
  BY CallsAssumption DEF BusyInv, MarksApart
<1>2. \A p : \A t \in Dropping(u, p) : t.peer # u
  BY <1>1 DEF Dropping, Task
<1>3. \A p : Released(u, p) # u
  BY <1>1 DEF Released
<1> QED
  BY <1>2, <1>3 DEF BusyInv, MarksApart, TasksApart, RoomsApart

LEMMA ApartMarker ==
  ASSUME TypeInv, BusyInv, NEW u \in Users, NEW m, m # u, UNCHANGED <<ring, shown>>,
         marker' = marker \/ marker' = [marker EXCEPT ![u] = m]
  PROVE  MarksApart'
<1>1. marker \in [Users -> Peers]
  BY DEF TypeInv, TypeOK
<1> QED
  BY <1>1 DEF BusyInv, MarksApart

LEMMA InformsBusy ==
  ASSUME TypeInv, BusyInv, Remembers,
         NEW u \in Users, NEW p \in Users, NEW ui, Informs(u, p, ui),
         RoomsApart'
  PROVE  BusyInv'
<1>1. p # u /\ net' = net /\ ring' = ring /\ shown' = shown
  BY DEF Informs, ringVars
<1>2. marker' = marker \/ marker' = [marker EXCEPT ![u] = p]
  BY DEF Informs
<1>3. MarksApart'
  BY <1>1, <1>2, ApartMarker
<1>4. TasksApart'
  <2> DEFINE new == IF Active(u, p) THEN Task("invite", p, session[u][p].call, "none", ui)
                    ELSE Task("inform", p, NoCall, "none", ui)
  <2>1. Adds(u, {new})
    BY DEF Informs
  <2>2. new.peer # u
    BY <1>1 DEF Task
  <2> HIDE DEF new
  <2> QED
    BY <2>1, <2>2, ApartTasks
<1> QED
  BY <1>1, <1>3, <1>4, ApartSame DEF BusyInv

LEMMA AcceptBusy ==
  ASSUME TypeInv, BusyInv, Remembers, NEW u \in Users, Accept(u)
  PROVE  BusyInv'
<1> DEFINE p == shown[u].from
<1>1. p # u
  BY ApartPeers
<1>2. net' = net /\ ring' = ring /\ shown' = shown
  BY DEF Accept, ringVars
<1>3. marker' = marker \/ marker' = [marker EXCEPT ![u] = p]
  BY DEF Accept
<1>4. MarksApart'
  BY <1>1, <1>2, <1>3, ApartMarker
<1>5. TasksApart'
  <2> DEFINE new == IF Active(u, p) THEN Answers(u, p)
                    ELSE Task("answer", p, shown[u].call, "none", FALSE)
  <2>1. Adds(u, {new})
    BY DEF Accept
  <2>2. new.peer # u
    BY <1>1 DEF Task, Answers
  <2> HIDE DEF new
  <2> QED
    BY <2>1, <2>2, ApartTasks
<1>6. RoomsApart'
  <2>1. room' = [room EXCEPT ![u] = Opened(u, p)]
    BY DEF Accept
  <2>2. Opened(u, p).peer = p /\ Opened(u, p).state # "busy"
    BY DEF Opened, Room
  <2> QED
    BY <1>1, <2>1, <2>2, ApartRoom
<1> QED
  BY <1>2, <1>4, <1>5, <1>6, ApartSame DEF BusyInv

LEMMA DeclinedBusy ==
  ASSUME TypeInv, BusyInv, Remembers,
         NEW u \in Users, NEW op, NEW p \in Users, p # u, NEW t,
         NEW c, Declined(u, op, p, t, c)
  PROVE  TasksApart' /\ NetApart'
<1> DEFINE status == IF op = "reject" THEN "rejected" ELSE "missed"
           more == {Task("end", p, c, status, TRUE)} \cup Dropping(u, p)
           reply == Message("rejected", NoCall, "declined")
<1>1. Becomes(u, t, more) /\ (Send(u, p, reply) \/ net' = net)
  BY DEF Declined
<1>2. \A x \in more : x.peer # u
  BY ApartPeers DEF Task
<1>3. reply \in Messages /\ reply.status # "busy"
  BY MessageType DEF Message, CallIds
<1> HIDE DEF more, reply
<1> QED
  BY <1>1, <1>2, <1>3, ApartTasks, ApartSent, ApartSame

LEMMA DeclinesBusy ==
  ASSUME TypeInv, BusyInv, Remembers,
         NEW u \in Users, NEW op, NEW p \in Users, p # u, Declines(u, op, p)
  PROVE  BusyInv'
<1> DEFINE t == Task(op, p, NoCall, "none", TRUE)
<1>1. UNCHANGED <<marker, ring, shown, room>>
  BY DEF Declines, callVars, screenVars, ringVars
<1>2. \/ Declined(u, op, p, t, session[u][p].call)
      \/ Adds(u, {t}) /\ net' = net
  BY DEF Declines
<1>3. t.peer # u
  BY DEF Task
<1> HIDE DEF t
<1>4. TasksApart' /\ NetApart'
  BY <1>2, <1>3, DeclinedBusy, ApartTasks, ApartSame
<1> QED
  BY <1>1, <1>4, ApartSame DEF BusyInv

LEMMA TerminatesBusy ==
  ASSUME TypeInv, BusyInv, Remembers,
         NEW u \in Users, NEW p \in Users, NEW state, state # "busy",
         NEW reason, Terminates(u, p, state, reason)
  PROVE  BusyInv'
<1> DEFINE new == Ending(u, p, reason, FALSE)
           r == [room[u] EXCEPT !.state = state, !.terminated = TRUE]
<1>1. /\ room[u].peer = p /\ room' = [room EXCEPT ![u] = r]
      /\ tasks' = tasks \/ Adds(u, {new})
      /\ UNCHANGED <<marker, ring, shown, net>>
  BY DEF Terminates, callVars, ringVars
<1>2. p # u /\ new.peer # u
  <2>1. p # u
    BY <1>1, ApartPeers
  <2> QED
    BY <2>1 DEF Ending, Task
<1>3. r.peer = p /\ r.state # "busy"
  <2>1. room[u] \in Rooms
    BY DEF TypeInv, TypeOK
  <2> QED
    BY <1>1, <2>1 DEF Rooms
<1> HIDE DEF new, r
<1>4. TasksApart'
  <2>1. Adds(u, {new}) => TasksApart'
    BY <1>2, ApartTasks
  <2> QED
    BY <1>1, <2>1, ApartSame
<1>5. RoomsApart'
  BY <1>1, <1>2, <1>3, ApartRoom
<1> QED
  BY <1>1, <1>4, <1>5, ApartSame DEF BusyInv

LEMMA CallerTaskBusy ==
  ASSUME TypeInv, BusyInv, Remembers, NEW u \in Users, NEW t \in tasks[u]
  PROVE  /\ InformStored(u, t) => BusyInv'
         /\ Invite(u, t) => BusyInv'
         /\ InviteFails(u, t) => BusyInv'
         /\ StartConnects(u, t) => BusyInv'
         /\ StartFails(u, t) => BusyInv'
<1>1. t \in Tasks /\ t.peer \in Users
  BY TaskOf DEF TypeInv
<1>2. t.peer # u
  BY ApartPeers
<1>3. ASSUME InformStored(u, t) PROVE BusyInv'
  <2>1. PICK c \in Calls : Becomes(u, t, {[t EXCEPT !.op = "invite", !.call = c]})
    BY <1>3 DEF InformStored
  <2>2. /\ marker' = [marker EXCEPT ![u] = t.peer]
        /\ UNCHANGED <<ring, shown, room, net>>
    BY <1>3 DEF InformStored, screenVars, ringVars
  <2> DEFINE new == [t EXCEPT !.op = "invite", !.call = c]
  <2>3. Becomes(u, t, {new}) /\ new.peer # u
    BY <1>1, <1>2, <2>1 DEF Tasks
  <2> HIDE DEF new
  <2>4. TasksApart'
    BY <2>3, ApartTasks
  <2>5. MarksApart'
    BY <1>2, <2>2, ApartMarker
  <2> QED
    BY <2>2, <2>4, <2>5, ApartSame DEF BusyInv
<1>4. ASSUME Invite(u, t) PROVE BusyInv'
  <2> DEFINE m == Message("call", t.call, "none")
             r == IF t.ui THEN Room(room[u].peer, "calling") ELSE room[u]
  <2>1. /\ Becomes(u, t, {}) /\ Send(u, t.peer, m) /\ room' = [room EXCEPT ![u] = r]
        /\ UNCHANGED <<marker, ring, shown>>
    BY <1>4 DEF Invite, ringVars
  <2>2. t.call \in Calls
    BY <1>1, <1>4, TaskFacts DEF Invite, CallOps
  <2>3. m \in Messages /\ m.status # "busy"
    BY <2>2, MessageType DEF Message
  <2>4. r.peer = room[u].peer /\ (r.state = "busy" => room[u].state = "busy")
    BY DEF Room
  <2> HIDE DEF m, r
  <2>5. TasksApart'
    BY <2>1, ApartTasks
  <2>6. RoomsApart'
    BY <2>1, <2>4, ApartRoom, ApartPeers
  <2>7. NetApart'
    BY <1>1, <1>2, <2>1, <2>3, ApartSent
  <2> QED
    BY <2>1, <2>5, <2>6, <2>7, ApartSame DEF BusyInv
<1>5. ASSUME InviteFails(u, t) \/ StartFails(u, t) PROVE BusyInv'
  <2> DEFINE more == {Ending(u, t.peer, "missed", FALSE)} \cup Dropping(u, t.peer)
  <2>1. /\ Becomes(u, t, {}) \/ Becomes(u, t, more)
        /\ UNCHANGED <<marker, ring, shown, room, net>>
    BY <1>5 DEF InviteFails, StartFails, callVars, screenVars, ringVars
  <2>2. \A x \in more : x.peer # u
    <3>1. Ending(u, t.peer, "missed", FALSE).peer # u
      BY <1>2 DEF Ending, Task
    <3> QED
      BY <3>1, ApartPeers
  <2> HIDE DEF more
  <2>3. TasksApart'
    BY <2>1, <2>2, ApartTasks
  <2> QED
    BY <2>1, <2>3, ApartSame DEF BusyInv
<1>6. ASSUME StartConnects(u, t) PROVE BusyInv'
  <2>1. Becomes(u, t, {}) /\ UNCHANGED <<marker, ring, shown, room, net>>
    BY <1>6 DEF StartConnects, screenVars, ringVars
  <2>2. TasksApart'
    BY <2>1, ApartTasks
  <2> QED
    BY <2>1, <2>2, ApartSame DEF BusyInv
<1> QED
  BY <1>3, <1>4, <1>5, <1>6

LEMMA CalleeTaskBusy ==
  ASSUME TypeInv, BusyInv, Remembers, NEW u \in Users, NEW t \in tasks[u]
  PROVE  /\ Notified(u, t) => BusyInv'
         /\ AnswerStored(u, t) => BusyInv'
         /\ Ready(u, t) => BusyInv'
         /\ Channel(u, t) => BusyInv'
         /\ DeclineStored(u, t) => BusyInv'
<1>1. t \in Tasks /\ t.peer \in Users
  BY TaskOf DEF TypeInv
<1>2. t.peer # u
  BY ApartPeers
<1>3. ASSUME Notified(u, t) PROVE BusyInv'
  <2> DEFINE asked == [from |-> t.peer, call |-> t.call]
  <2>1. Becomes(u, t, {}) /\ UNCHANGED <<room, net>>
    BY <1>3 DEF Notified
  <2>2. \/ UNCHANGED <<ring, shown, marker>>
        \/ /\ shown' = [shown EXCEPT ![u] = asked]
           /\ \/ UNCHANGED <<ring, marker>>
              \/ /\ ring' = [ring EXCEPT ![u] = asked]
                 /\ marker' = [marker EXCEPT ![u] = t.peer]
    BY <1>3 DEF Notified, ringVars
  <2>3. asked.from # u
    BY <1>2
  <2> HIDE DEF asked
  <2>4. MarksApart'
    BY <1>2, <2>2, <2>3 DEF BusyInv, MarksApart, TypeInv, TypeOK
  <2>5. TasksApart'
    BY <2>1, ApartTasks
  <2> QED
    BY <2>1, <2>4, <2>5, ApartSame DEF BusyInv
<1>4. ASSUME AnswerStored(u, t) PROVE BusyInv'
  <2> DEFINE new == [t EXCEPT !.op = "media"]
  <2>1. /\ Becomes(u, t, {}) \/ Becomes(u, t, {new})
        /\ marker' = marker \/ marker' = [marker EXCEPT ![u] = t.peer]
        /\ UNCHANGED <<ring, shown, room, net>>
    BY <1>4 DEF AnswerStored, screenVars, ringVars
  <2>2. new.peer # u
    BY <1>1, <1>2 DEF Tasks
  <2> HIDE DEF new
  <2>3. TasksApart'
    BY <2>1, <2>2, ApartTasks
  <2>4. MarksApart'
    BY <1>2, <2>1, ApartMarker
  <2> QED
    BY <2>1, <2>3, <2>4, ApartSame DEF BusyInv
<1>5. ASSUME Ready(u, t) PROVE BusyInv'
  <2> DEFINE m == Message("ready", t.call, "none")
             new == [t EXCEPT !.op = "channel"]
  <2>1. /\ Becomes(u, t, {}) \/ Becomes(u, t, {new})
        /\ Send(u, t.peer, m) \/ net' = net
        /\ UNCHANGED <<marker, ring, shown, room>>
    BY <1>5 DEF Ready, callVars, screenVars, ringVars
  <2>2. t.call \in Calls
    BY <1>1, <1>5, TaskFacts DEF Ready, CallOps
  <2>3. m \in Messages /\ m.status # "busy"
    BY <2>2, MessageType DEF Message
  <2>4. new.peer # u
    BY <1>1, <1>2 DEF Tasks
  <2> HIDE DEF m, new
  <2>5. TasksApart'
    BY <2>1, <2>4, ApartTasks
  <2>6. NetApart'
    BY <1>1, <1>2, <2>1, <2>3, ApartSent, ApartSame
  <2> QED
    BY <2>1, <2>5, <2>6, ApartSame DEF BusyInv
<1>6. ASSUME Channel(u, t) PROVE BusyInv'
  <2>1. Becomes(u, t, {}) /\ UNCHANGED <<room, net>>
    BY <1>6 DEF Channel
  <2>2. RingCleared(u, session[u], marker[u]) \/ UNCHANGED <<marker, ring, shown>>
    BY <1>6 DEF Channel, ringVars
  <2>3. MarksApart'
    BY <2>2, ApartRing, ApartPeers, ApartSame
  <2>4. TasksApart'
    BY <2>1, ApartTasks
  <2> QED
    BY <2>1, <2>3, <2>4, ApartSame DEF BusyInv
<1>7. ASSUME DeclineStored(u, t) PROVE BusyInv'
  <2>1. PICK c \in Calls : Declined(u, t.op, t.peer, t, c)
    BY <1>7 DEF DeclineStored
  <2>2. UNCHANGED <<marker, ring, shown, room>>
    BY <1>7 DEF DeclineStored, screenVars, ringVars
  <2>3. TasksApart' /\ NetApart'
    BY <1>1, <1>2, <2>1, DeclinedBusy
  <2> QED
    BY <2>2, <2>3, ApartSame DEF BusyInv
<1> QED
  BY <1>3, <1>4, <1>5, <1>6, <1>7

LEMMA EndTaskBusy ==
  ASSUME TypeInv, BusyInv, Remembers, NEW u \in Users, NEW t \in tasks[u]
  PROVE  /\ Dismissed(u, t) => BusyInv'
         /\ Dropped(u, t) => BusyInv'
         /\ EndDone(u, t) => BusyInv'
         /\ RemoteEndDone(u, t) => BusyInv'
<1>1. t \in Tasks /\ t.peer \in Users
  BY TaskOf DEF TypeInv
<1>2. t.peer # u
  BY ApartPeers
<1>3. room[u] \in Rooms /\ marker \in [Users -> Peers]
  BY DEF TypeInv, TypeOK
<1>4. ASSUME Dismissed(u, t) PROVE BusyInv'
  <2>1. /\ Becomes(u, t, {}) /\ RingCleared(u, session[u], marker[u])
        /\ UNCHANGED <<room, net>>
    BY <1>4 DEF Dismissed
  <2>2. MarksApart' /\ TasksApart'
    BY <2>1, ApartRing, ApartPeers, ApartTasks
  <2> QED
    BY <2>1, <2>2, ApartSame DEF BusyInv
<1>5. ASSUME Dropped(u, t) PROVE BusyInv'
  <2> DEFINE new == Ending(u, t.peer, "missed", FALSE)
             r == [room[u] EXCEPT !.state = "ended", !.terminated = TRUE]
  <2>1. /\ Becomes(u, t, {}) \/ Becomes(u, t, {new})
        /\ room' = room \/ room' = [room EXCEPT ![u] = r]
        /\ UNCHANGED <<marker, ring, shown, net>>
    BY <1>5 DEF Dropped, callVars, ringVars
  <2>2. new.peer # u
    BY <1>2 DEF Ending, Task
  <2>3. r.peer # u /\ r.state # "busy"
    BY <1>3, ApartPeers DEF Rooms
  <2> HIDE DEF new, r
  <2>4. TasksApart'
    BY <2>1, <2>2, ApartTasks
  <2>5. RoomsApart'
    BY <2>1, <2>3, ApartRoom, ApartSame
  <2> QED
    BY <2>1, <2>4, <2>5, ApartSame DEF BusyInv
<1>6. ASSUME EndDone(u, t) PROVE BusyInv'
  <2> DEFINE m == Released(u, t.peer)
             reply == Message("ended", t.call, t.status)
  <2>1. Becomes(u, t, {}) /\ Send(u, t.peer, reply) /\ room' = room
    BY <1>6 DEF EndDone
  <2>2. \/ RingCleared(u, Retired(u, t), m)
        \/ marker' = [marker EXCEPT ![u] = m] /\ UNCHANGED <<ring, shown>>
    BY <1>6 DEF EndDone, ringVars
  <2>3. m # u
    BY ApartPeers
  <2>4. reply \in Messages /\ reply.status # "busy"
    <3>1. t.call \in CallIds /\ t.status \in Ended
      BY <1>1, <1>6, TaskFacts DEF EndDone
    <3> QED
      BY <3>1, MessageType DEF Message, Ended
  <2> HIDE DEF m, reply
  <2>5. MarksApart'
    BY <1>3, <2>2, <2>3, ApartRing DEF BusyInv, MarksApart
  <2>6. TasksApart' /\ NetApart'
    BY <1>1, <1>2, <2>1, <2>4, ApartTasks, ApartSent
  <2> QED
    BY <2>1, <2>5, <2>6, ApartSame DEF BusyInv
<1>7. ASSUME RemoteEndDone(u, t) PROVE BusyInv'
  <2> DEFINE m == Released(u, t.peer)
             state == IF ~t.ui \/ room[u].rejected THEN room[u].state
                      ELSE IF t.status = "missed" THEN "no-answer" ELSE "ended"
             r == [room[u] EXCEPT !.state = state]
  <2>1. /\ Becomes(u, t, {}) /\ marker' = [marker EXCEPT ![u] = m]
        /\ room' = [room EXCEPT ![u] = r] /\ UNCHANGED <<ring, shown, net>>
    BY <1>7 DEF RemoteEndDone, ringVars
  <2>2. m # u
    BY ApartPeers
  <2>3. r.peer = room[u].peer /\ (r.state = "busy" => room[u].state = "busy")
    <3>1. state = "busy" => room[u].state = "busy"
      OBVIOUS
    <3> HIDE DEF state
    <3> QED
      BY <1>3, <3>1 DEF Rooms
  <2> HIDE DEF m, r
  <2>4. MarksApart'
    BY <2>1, <2>2, ApartMarker
  <2>5. TasksApart'
    BY <2>1, ApartTasks
  <2>6. RoomsApart'
    BY <2>1, <2>3, ApartRoom, ApartPeers
  <2> QED
    BY <2>1, <2>4, <2>5, <2>6, ApartSame DEF BusyInv
<1> QED
  BY <1>4, <1>5, <1>6, <1>7

\* Where a phone says busy, it is with a third one, or the other's id is smaller.
LEMMA HeardCallBusy ==
  ASSUME TypeInv, BusyInv, Remembers,
         NEW u \in Users, NEW p \in Users, net[p][u] # <<>>,
         HearCall(u, p, Head(net[p][u]))
  PROVE  BusyInv'
<1> DEFINE m == Head(net[p][u])
           reply == Message("rejected", m.call, "busy")
           new == Task("notify", p, m.call, "none", FALSE)
           rest == Tail(net[p][u])
<1>1. p # u
  BY ApartHeard
<1>2. UNCHANGED <<marker, ring, shown, room>>
  BY DEF HearCall, callVars, screenVars, ringVars
<1>3. CASE BusyFor(u, p)
  <2>1. rank[p] < rank[u] \/ <<u, p>> \in elsewhere'
    <3>1. CASE marker[u] = p
      <4>1. rank[u] > rank[p] /\ rank[u] \in Nat /\ rank[p] \in Nat
        BY <1>3, <3>1, CallsAssumption DEF BusyFor
      <4> QED
        BY <4>1
    <3>2. CASE marker[u] # p
      BY <1>3, <3>2 DEF HearCall
    <3> QED
      BY <3>1, <3>2
  <2>2. net \in [Users -> [Users -> Seq(Messages)]]
    BY DEF TypeInv, TypeOK
  <2>3. tasks' = tasks
    BY <1>3 DEF HearCall
  <2>4. \A v, q \in Users : ~(v = u /\ q = p) =>
          net'[v][q] = IF v = p /\ q = u THEN rest ELSE net[v][q]
    <3> DEFINE heard == [net EXCEPT ![p] = [net[p] EXCEPT ![u] = rest]]
               said == Append(heard[u][p], reply)
    <3>1. net' = [heard EXCEPT ![u] = [heard[u] EXCEPT ![p] = said]]
      BY <1>3 DEF HearCall
    <3> HIDE DEF rest, said
    <3>2. \A v \in Users : heard[v] = IF v = p THEN [net[p] EXCEPT ![u] = rest] ELSE net[v]
      BY <2>2
    <3>3. \A v, q \in Users : heard[v][q] = IF v = p /\ q = u THEN rest ELSE net[v][q]
      BY <2>2, <3>2
    <3>4. /\ DOMAIN heard = Users /\ DOMAIN heard[u] = Users
      BY <1>1, <2>2, <3>2
    <3> HIDE DEF heard
    <3>5. \A v, q \in Users : ~(v = u /\ q = p) => net'[v][q] = heard[v][q]
      BY <3>1, <3>4
    <3> QED
      BY <3>3, <3>5
  <2>5. Quiet(net[p][u]) => Quiet(rest)
    <3>1. net[p][u] \in Seq(Messages)
      BY <2>2
    <3> QED
      BY <3>1, QuietSeq
  <2> HIDE DEF rest
  <2>6. NetApart'
    BY <1>1, <2>1, <2>4, <2>5 DEF BusyInv, NetApart, Remembers
  <2> QED
    BY <1>2, <2>3, <2>6, ApartSame DEF BusyInv
<1>4. CASE ~BusyFor(u, p)
  <2>1. Adds(u, {new}) /\ Hear(u, p)
    BY <1>4 DEF HearCall
  <2>2. new.peer # u
    BY <1>1 DEF Task
  <2> HIDE DEF new
  <2>3. TasksApart'
    BY <2>1, <2>2, ApartTasks
  <2> QED
    BY <1>2, <2>1, <2>3, ApartHeard, ApartSame DEF BusyInv
<1> QED
  BY <1>3, <1>4

LEMMA HeardBusy ==
  ASSUME TypeInv, BusyInv, Remembers,
         NEW u \in Users, NEW p \in Users, net[p][u] # <<>>
  PROVE  /\ HearReady(u, p, Head(net[p][u])) => BusyInv'
         /\ HearEnded(u, p, Head(net[p][u])) => BusyInv'
         /\ HearRejected(u, p, Head(net[p][u])) => BusyInv'
<1> DEFINE m == Head(net[p][u])
<1>1. /\ p # u /\ (m.status = "busy" => rank[u] < rank[p] \/ <<p, u>> \in elsewhere)
      /\ Hear(u, p) => NetApart'
  BY ApartHeard
<1>2. room[u] \in Rooms /\ room[u].peer # u
  BY ApartPeers DEF TypeInv, TypeOK
<1>3. ASSUME HearReady(u, p, m) PROVE BusyInv'
  <2> DEFINE new == Task("start", p, session[u][p].call, "none", FALSE)
  <2>1. /\ Hear(u, p) /\ (tasks' = tasks \/ Adds(u, {new}))
        /\ UNCHANGED <<marker, ring, shown, room>>
    BY <1>3 DEF HearReady, screenVars, ringVars
  <2>2. new.peer # u
    BY <1>1 DEF Task
  <2> HIDE DEF new
  <2>3. Adds(u, {new}) => TasksApart'
    BY <2>2, ApartTasks
  <2> QED
    BY <1>1, <2>1, <2>3, ApartSame DEF BusyInv
<1>4. ASSUME HearEnded(u, p, m) PROVE BusyInv'
  <2> DEFINE rings == ring[u].from = p
             inRoom == room[u].peer = p /\ ~Stale(u, p, m)
             ends == Task("ended", p, session[u][p].call, m.status, inRoom)
             dismiss == Task("dismiss", p, NoCall, "none", TRUE)
             new == (IF rings THEN {dismiss} ELSE {})
                      \cup (IF inRoom \/ ~Active(u, p) THEN {ends} ELSE {})
             b == room[u].terminated \/ inRoom
             r == [room[u] EXCEPT !.terminated = b]
             k == IF rings THEN NoUser ELSE marker[u]
  <2>1. /\ Hear(u, p) /\ Adds(u, new) /\ room' = [room EXCEPT ![u] = r]
        /\ marker' = [marker EXCEPT ![u] = k] /\ UNCHANGED <<ring, shown>>
    BY <1>4 DEF HearEnded, ringVars
  <2>2. \A x \in new : x.peer # u
    BY <1>1 DEF Task
  <2>3. k # u
    BY ApartPeers, CallsAssumption
  <2>4. r.peer = room[u].peer /\ r.state = room[u].state
    <3> HIDE DEF b
    <3> QED
      BY <1>2 DEF Rooms
  <2> HIDE DEF new, r, k
  <2>5. TasksApart'
    BY <2>1, <2>2, ApartTasks
  <2>6. RoomsApart'
    BY <1>2, <2>1, <2>4, ApartRoom
  <2>7. MarksApart'
    BY <2>1, <2>3, ApartMarker
  <2> QED
    BY <1>1, <2>1, <2>5, <2>6, <2>7 DEF BusyInv
<1>5. ASSUME HearRejected(u, p, m) PROVE BusyInv'
  <2>1. Hear(u, p) /\ UNCHANGED <<marker, ring, shown, tasks>>
    BY <1>5 DEF HearRejected, callVars, ringVars
  <2> DEFINE declined == [room[u] EXCEPT !.state = "rejected", !.rejected = TRUE,
                                         !.terminated = TRUE]
             busy == [room[u] EXCEPT !.state = "busy"]
  <2>2. \/ room' = [room EXCEPT ![u] = room[u]]
        \/ room' = [room EXCEPT ![u] = declined]
        \/ /\ room[u].peer = p /\ m.status # "declined"
           /\ room' = [room EXCEPT ![u] = busy]
    BY <1>5 DEF HearRejected
  <2>3. m.status # "declined" => m.status = "busy"
    <3>1. m \in Messages /\ m.type = "rejected"
      BY <1>5, NetHeard DEF TypeInv, HearRejected
    <3> HIDE DEF m
    <3> QED
      BY <3>1 DEF Messages
  <2>4. /\ declined.peer = room[u].peer /\ declined.state # "busy"
        /\ busy.peer = room[u].peer
    BY <1>2 DEF Rooms
  <2> HIDE DEF m, declined, busy
  <2>5. CASE room' = [room EXCEPT ![u] = room[u]]
    <3>1. RoomsApart'
      BY <1>2, <2>5, ApartRoom
    <3> QED
      BY <1>1, <2>1, <3>1, ApartSame DEF BusyInv
  <2>6. CASE room' = [room EXCEPT ![u] = declined]
    <3>1. RoomsApart'
      BY <1>2, <2>4, <2>6, ApartRoom
    <3> QED
      BY <1>1, <2>1, <3>1, ApartSame DEF BusyInv
  <2>7. CASE /\ room[u].peer = p /\ m.status # "declined"
             /\ room' = [room EXCEPT ![u] = busy]
    <3>1. rank[u] < rank[busy.peer] \/ <<busy.peer, u>> \in elsewhere
      BY <1>1, <2>3, <2>4, <2>7 DEF m
    <3>2. RoomsApart'
      BY <1>2, <2>4, <2>7, <3>1, ApartRoom
    <3> QED
      BY <1>1, <2>1, <3>2, ApartSame DEF BusyInv
  <2> QED
    BY <2>2, <2>5, <2>6, <2>7
<1> QED
  BY <1>3, <1>4, <1>5

LEMMA AllRemembered == [Next]_vars => Remembers
<1> SUFFICES ASSUME [Next]_vars PROVE Remembers
  OBVIOUS
<1>1. elsewhere' = elsewhere => Remembers
  BY DEF Remembers
<1>2. CASE UNCHANGED vars
  BY <1>1, <1>2 DEF vars, historyVars
<1>3. ASSUME NEW u \in Users, UserStep(u) PROVE Remembers
  BY <1>1, <1>3 DEF UserStep, PlaceCall, CallAgain, Informs, Accept, Reject, Declines,
     HangUp, Terminates, historyVars
<1>4. ASSUME NEW u \in Users, NEW t \in tasks[u],
             \/ InformStored(u, t) \/ Invite(u, t) \/ InviteFails(u, t)
             \/ StartConnects(u, t) \/ StartFails(u, t)
      PROVE  Remembers
  BY <1>1, <1>4 DEF InformStored, Invite, InviteFails, Prepares, StartConnects,
     StartFails, historyVars
<1>5. ASSUME NEW u \in Users, NEW t \in tasks[u],
             \/ Notified(u, t) \/ AnswerStored(u, t) \/ Ready(u, t) \/ Channel(u, t)
             \/ DeclineStored(u, t) \/ Dismissed(u, t) \/ Dropped(u, t)
             \/ EndDone(u, t) \/ RemoteEndDone(u, t)
      PROVE  Remembers
  BY <1>1, <1>5 DEF Notified, AnswerStored, Ready, Channel, DeclineStored, Dismissed,
     Dropped, EndDone, RemoteEndDone, historyVars
<1>6. ASSUME NEW u \in Users, NoAnswer(u) \/ RingTimeout(u) \/ Reconnecting(u) PROVE Remembers
  BY <1>1, <1>6 DEF NoAnswer, Terminates, RingTimeout, Declines, Reconnecting, historyVars
<1>7. ASSUME NEW u \in Users, NEW p \in Users, Receive(u, p) PROVE Remembers
  <2>1. ASSUME NEW m, HearCall(u, p, m) PROVE Remembers
    BY <2>1 DEF HearCall, Remembers
  <2> QED
    BY <1>1, <1>7, <2>1 DEF Receive, HearReady, HearEnded, HearRejected, historyVars
<1>8. ASSUME NEW u \in Users, NEW p \in Users,
             MediaArrives(u, p) \/ LinkStep(u, p) \/ Lose(u, p)
      PROVE  Remembers
  BY <1>1, <1>8 DEF MediaArrives, LinkStep, Reconnected, Disconnected, Lose, historyVars
<1> QED
  BY <1>2, <1>3, <1>4, <1>5, <1>6, <1>7, <1>8 DEF Next, TaskStep

LEMMA NextBusy == TypeInv /\ BusyInv /\ [Next]_vars => BusyInv'
<1> SUFFICES ASSUME TypeInv, BusyInv, Remembers, [Next]_vars PROVE BusyInv'
  BY AllRemembered
<1>1. UNCHANGED <<marker, ring, shown, tasks, room, net>> => BusyInv'
  BY ApartSame DEF BusyInv
<1>2. CASE UNCHANGED vars
  BY <1>1, <1>2 DEF vars, callVars, screenVars, ringVars
<1>3. ASSUME NEW u \in Users, UserStep(u) PROVE BusyInv'
  <2>1. CASE \E p \in Users : PlaceCall(u, p)
    <3>1. PICK p \in Users : Informs(u, p, FALSE) /\ room' = [room EXCEPT ![u] = Opened(u, p)]
      BY <2>1 DEF PlaceCall
    <3>2. Opened(u, p).peer # u /\ Opened(u, p).state # "busy"
      BY <3>1 DEF Informs, Opened, Room
    <3>3. RoomsApart'
      BY <3>1, <3>2, ApartRoom
    <3> QED
      BY <3>1, <3>3, InformsBusy
  <2>2. CASE CallAgain(u)
    <3>1. RoomsApart'
      BY <2>2, ApartSame DEF CallAgain
    <3> QED
      BY <2>2, <3>1, InformsBusy DEF CallAgain
  <2>3. CASE Reject(u)
    <3>1. shown[u] \in RingsOf /\ shown[u] # NoRing
      BY <2>3 DEF Reject, Declines, TypeInv, RingWasShown, TypeOK
    <3>2. shown[u].from \in Users /\ shown[u].from # u
      BY <3>1, ApartPeers DEF RingsOf
    <3> QED
      BY <2>3, <3>2, DeclinesBusy DEF Reject
  <2>4. CASE HangUp(u)
    BY <2>4, TerminatesBusy DEF HangUp
  <2> QED
    BY <1>3, <2>1, <2>2, <2>3, <2>4, AcceptBusy DEF UserStep
<1>4. ASSUME NEW u \in Users, TaskStep(u) PROVE BusyInv'
  BY <1>4, CallerTaskBusy, CalleeTaskBusy, EndTaskBusy DEF TaskStep
<1>5. ASSUME NEW u \in Users, NoAnswer(u) PROVE BusyInv'
  BY <1>5, TerminatesBusy DEF NoAnswer
<1>6. ASSUME NEW u \in Users, RingTimeout(u) PROVE BusyInv'
  <2>1. ring[u] \in RingsOf /\ ring[u] # NoRing
    BY <1>6 DEF RingTimeout, Declines, TypeInv, TypeOK
  <2>2. ring[u].from \in Users /\ ring[u].from # u
    BY <2>1, ApartPeers DEF RingsOf
  <2> QED
    BY <1>6, <2>2, DeclinesBusy DEF RingTimeout
<1>7. ASSUME NEW u \in Users, NEW p \in Users, Receive(u, p) PROVE BusyInv'
  BY <1>7, HeardCallBusy, HeardBusy DEF Receive
<1>8. ASSUME NEW u \in Users, NEW state, state # "busy",
             room' = [room EXCEPT ![u].state = state],
             UNCHANGED <<marker, ring, shown, tasks, net>>
      PROVE  BusyInv'
  <2> DEFINE r == [room[u] EXCEPT !.state = state]
  <2>1. r.peer # u /\ r.state # "busy"
    <3>1. room[u] \in Rooms
      BY DEF TypeInv, TypeOK
    <3> QED
      BY <1>8, <3>1, ApartPeers DEF Rooms
  <2>2. room' = [room EXCEPT ![u] = r]
    BY <1>8
  <2> HIDE DEF r
  <2>3. RoomsApart'
    BY <2>1, <2>2, ApartRoom
  <2> QED
    BY <1>8, <2>3, ApartSame DEF BusyInv
<1>9. ASSUME NEW u \in Users, Reconnecting(u) PROVE BusyInv'
  BY <1>8, <1>9 DEF Reconnecting, callVars, ringVars
<1>10. ASSUME NEW u \in Users, NEW p \in Users, MediaArrives(u, p) \/ Reconnected(u, p)
       PROVE  BusyInv'
  BY <1>8, <1>10 DEF MediaArrives, Reconnected, callVars, ringVars
<1>11. ASSUME NEW u \in Users, NEW p \in Users, Disconnected(u, p) PROVE BusyInv'
  <2>1. /\ Adds(u, Dropping(u, p)) /\ UNCHANGED <<marker, ring, shown, room, net>>
    BY <1>11 DEF Disconnected, callVars, screenVars, ringVars
  <2>2. \A x \in Dropping(u, p) : x.peer # u
    BY ApartPeers
  <2>3. TasksApart'
    BY <2>1, <2>2, ApartTasks
  <2> QED
    BY <2>1, <2>3, ApartSame DEF BusyInv
<1>12. ASSUME NEW u \in Users, NEW p \in Users, Lose(u, p) PROVE BusyInv'
  <2>1. /\ Hear(p, u) /\ net[u][p] # <<>>
        /\ UNCHANGED <<marker, ring, shown, tasks, room>>
    BY <1>12 DEF Lose, Hear, callVars, screenVars, ringVars
  <2> QED
    BY <2>1, ApartHeard, ApartSame DEF BusyInv
<1> QED
  BY <1>2, <1>3, <1>4, <1>5, <1>6, <1>7, <1>9, <1>10, <1>11, <1>12 DEF Next, LinkStep

\* However many phones there are and however often two of them call each other:
\* a phone that is with no third one says busy only to the smaller id, so both
\* rooms show busy only where one of the two was with a third when it said so.
THEOREM OneGivesWay == Spec => []NotBothBusy
<1>1. Init => TypeInv /\ BusyInv
  <2> SUFFICES ASSUME Init PROVE BusyInv
    BY InitType
  <2>1. MarksApart
    BY CallsAssumption DEF Init, MarksApart, NoRing
  <2>2. TasksApart
    BY DEF Init, TasksApart
  <2>3. RoomsApart
    BY CallsAssumption DEF Init, RoomsApart, Room
  <2>4. NetApart
    BY DEF Init, NetApart, Quiet
  <2> QED
    BY <2>1, <2>2, <2>3, <2>4 DEF BusyInv
<1>2. TypeInv /\ BusyInv /\ [Next]_vars => (TypeInv /\ BusyInv)'
  BY NextType, NextBusy
<1>3. BusyInv => NotBothBusy
  <2> SUFFICES ASSUME BusyInv, NEW u \in Users, NEW p \in Users,
                      room[u].peer = p, room[u].state = "busy",
                      room[p].peer = u, room[p].state = "busy",
                      <<u, p>> \notin elsewhere, <<p, u>> \notin elsewhere
               PROVE  FALSE
    BY DEF NotBothBusy
  <2>1. rank[u] < rank[p] /\ rank[p] < rank[u]
    BY DEF BusyInv, RoomsApart
  <2> QED
    BY <2>1, CallsAssumption
<1> QED
  BY <1>1, <1>2, <1>3, PTL DEF Spec
=============================================================================
