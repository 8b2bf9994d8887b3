-------------------------------- MODULE Sync --------------------------------
(***************************************************************************)
(* Synchronisation of the devices' databases with the server's:            *)
(* features/sync/services/*.ts on the device, server/app/api/sync.py.      *)
(*                                                                         *)
(* A sync pulls page after page of what changed since the cursor           *)
(* (lastPulledAt), saves the new cursor, merges, then pushes what is still *)
(* dirty.  The user goes on writing meanwhile, other devices sync, a       *)
(* device may stop at any step.  Rows live in two tables: a call or a      *)
(* conversation (a record whose Parent is NoRecord) and what belongs to    *)
(* one.  The contents of a row are a version, one number per write.  The   *)
(* server's five processes handle a request in one transaction: a step.    *)
(***************************************************************************)
EXTENDS Naturals, FiniteSets, Functions

CONSTANTS Devices, Records, NoRecord,
          Parent,        \* the record a record refers to, or NoRecord
          PageLimit,     \* rows of a table in one page of a pull
          MaxTime,       \* bound on the server's clock
          MaxWrites,     \* bound on the users' writes
          MaxDeletes,    \* bound on rows the server deletes
          MaxFailures    \* bound on lost calls and stopped devices

ASSUME SyncAssumption ==
  /\ NoRecord \notin Records
  /\ Parent \in [Records -> Records \cup {NoRecord}]
  /\ \A r \in Records : Parent[r] # NoRecord => Parent[Parent[r]] = NoRecord
  /\ PageLimit \in Nat \ {0} /\ MaxTime \in Nat \ {0}
  /\ MaxWrites \in Nat /\ MaxDeletes \in Nat /\ MaxFailures \in Nat

VARIABLES
  clock,     \* milliseconds, the server's; the devices' are in step
  server,    \* the server's rows: a partial function on Records
  local,     \* each device's rows
  cursor,    \* lastPulledAt, in the secure store
  pc,        \* where each device's sync is
  from,      \* last_pulled_at of the next page
  stamp,     \* timestamp of the first page, 0 before it
  pulled,    \* the changes of the pages so far
  batch,     \* the changes being pushed
  request,   \* the push request on its way: last_pulled_at and the rows
  answer,    \* what the server said
  writes, deletes, failures,
  committed, \* history: the versions of a row the server ever held
  seen       \* history: the versions of a row a device wrote or merged

syncVars    == <<from, stamp, pulled, batch, request, answer>>
historyVars == <<committed, seen>>
boundVars   == <<writes, deletes, failures>>
vars == <<clock, server, local, cursor, pc, syncVars, boundVars, historyVars>>

NoRequest == [sent |-> FALSE, last |-> 0, rows |-> <<>>]

Init ==
  /\ clock = 1 /\ server = <<>>
  /\ local  = [d \in Devices |-> <<>>]
  /\ cursor = [d \in Devices |-> 0]
  /\ pc     = [d \in Devices |-> "idle"]
  /\ from   = [d \in Devices |-> 0]
  /\ stamp  = [d \in Devices |-> 0]
  /\ pulled = [d \in Devices |-> <<>>]
  /\ batch  = [d \in Devices |-> <<>>]
  /\ request = [d \in Devices |-> NoRequest]
  /\ answer  = [d \in Devices |-> "none"]
  /\ writes = 0 /\ deletes = 0 /\ failures = 0
  /\ committed = [r \in Records |-> {}]
  /\ seen = [d \in Devices |-> [r \in Records |-> {}]]

\* f with the entries of g added to it or in their place.
Overlay(f, g) == [x \in DOMAIN f \cup DOMAIN g |->
                    IF x \in DOMAIN g THEN g[x] ELSE f[x]]

Dirty(d, r) == r \in DOMAIN local[d] /\ local[d][r].status # "synced"

Tick ==
  /\ clock < MaxTime /\ clock' = clock + 1
  /\ UNCHANGED <<server, local, cursor, pc, syncVars, boundVars, historyVars>>

-----------------------------------------------------------------------------
(* The user and the services write the local database.                     *)

UserOnly == UNCHANGED <<clock, server, cursor, pc, syncVars, deletes, failures,
                        committed>>

\* A new record refers to one already there.  A call is created INITIATING.
LocalCreates(d, r, held) ==
  /\ writes < MaxWrites /\ writes' = writes + 1
  /\ r \notin DOMAIN local[d]
  /\ Parent[r] # NoRecord => Parent[r] \in DOMAIN local[d]
  /\ held => \E q \in Records : Parent[q] = r
  /\ local' = [local EXCEPT ![d] = Overlay(@,
       [x \in {r} |-> [status |-> "created", version |-> writes + 1,
                       created |-> clock, updated |-> clock, held |-> held]])]
  /\ seen' = [seen EXCEPT ![d][r] = @ \cup {writes + 1}]
  /\ UserOnly

\* An update touches updated_at; a call leaves INITIATING and never returns.
LocalUpdates(d, r) ==
  /\ writes < MaxWrites /\ writes' = writes + 1
  /\ r \in DOMAIN local[d]
  /\ local' = [local EXCEPT ![d][r] =
       [@ EXCEPT !.status = IF local[d][r].status = "created" THEN "created"
                                                              ELSE "updated",
                 !.version = writes + 1, !.updated = clock, !.held = FALSE]]
  /\ seen' = [seen EXCEPT ![d][r] = @ \cup {writes + 1}]
  /\ UserOnly

-----------------------------------------------------------------------------
(* syncNow(): the pull                                                     *)

SyncOnly == UNCHANGED <<clock, server, boundVars, committed>>

\* Called by the periodic timer, the retry timer, the foreground, a message.
SyncStarts(d) ==
  /\ pc[d] = "idle"
  /\ pc' = [pc EXCEPT ![d] = "pull"]
  /\ from' = [from EXCEPT ![d] = cursor[d]]
  /\ stamp' = [stamp EXCEPT ![d] = 0]
  /\ pulled' = [pulled EXCEPT ![d] = <<>>]
  /\ UNCHANGED <<local, cursor, batch, request, answer, seen>> /\ SyncOnly

\* GET /sync/pull: the rows of one table changed since `last`.
Changed(last) ==
  {r \in DOMAIN server : IF last = 0 THEN ~server[r].deleted
                         ELSE server[r].updated > last}

Table(r) == Parent[r] = NoRecord

\* order_by(updated_at).limit(limit); rows with one time come in any order.
Pages(last) ==
  {page \in SUBSET Changed(last) :
     \A t \in BOOLEAN :
       LET all  == {r \in Changed(last) : Table(r) = t}
           here == {r \in page : Table(r) = t}
       IN  /\ Cardinality(here) = IF Cardinality(all) < PageLimit
                                    THEN Cardinality(all) ELSE PageLimit
           /\ \A r \in here, q \in all \ here :
                server[r].updated <= server[q].updated}

Kind(r, last) ==
  IF server[r].deleted THEN "deleted"
  ELSE IF last = 0 \/ server[r].created > last THEN "created" ELSE "updated"

\* has_more and next_cursor of a table: its page is full, its last row's time.
NextCursors(page) ==
  {n \in 1 .. MaxTime : \E t \in BOOLEAN :
     LET here == {r \in page : Table(r) = t} IN
       /\ Cardinality(here) = PageLimit
       /\ \E r \in here : /\ server[r].updated = n
                          /\ \A q \in here : server[q].updated <= n}

PullPage(d) ==
  /\ pc[d] = "pull"
  /\ \E page \in Pages(from[d]) :
       /\ pulled' = [pulled EXCEPT ![d] = Overlay(@, [r \in page |->
                       [kind |-> Kind(r, from[d]), row |-> server[r]]])]
       /\ IF NextCursors(page) = {}
            THEN pc' = [pc EXCEPT ![d] = "save"] /\ UNCHANGED from
            ELSE /\ from' = [from EXCEPT ![d] =
                       CHOOSE n \in NextCursors(page) :
                         \A m \in NextCursors(page) : n <= m]
                 /\ UNCHANGED pc
  /\ stamp' = [stamp EXCEPT ![d] = IF @ = 0 THEN clock ELSE @]
  /\ UNCHANGED <<local, cursor, batch, request, answer, seen>> /\ SyncOnly

\* The locals of pullFromServer() are gone.
PullEnds(d) ==
  /\ from' = [from EXCEPT ![d] = 0]
  /\ stamp' = [stamp EXCEPT ![d] = 0]

\* mutant: the time of the pull is not stored
CursorStays(d) == cursor[d]

\* The timestamp of the first page.
CursorAfterPull(d) == stamp[d]

\* normalizePullChanges() drops what the server calls created and the device
\* already has; saveSyncLastPulledAt(timestamp); return to WatermelonDB.
NormalizeAndSave(d) ==
  /\ pc[d] = "save"
  /\ pulled' = [pulled EXCEPT ![d] = Restrict(@,
       {r \in DOMAIN @ : @[r].kind # "created" \/ r \notin DOMAIN local[d]})]
  /\ cursor' = [cursor EXCEPT ![d] = CursorAfterPull(d)]
  /\ pc' = [pc EXCEPT ![d] = "merge"] /\ PullEnds(d)
  /\ UNCHANGED <<local, batch, request, answer, seen>> /\ SyncOnly

\* WatermelonDB merges in one write: deleted rows go, dirty columns stay, and
\* of a record created here and there the server's columns are taken.
Merged(d) ==
  LET gone == {r \in DOMAIN pulled[d] : pulled[d][r].kind = "deleted"}
      keep == {r \in DOMAIN local[d] : local[d][r].status = "updated"}
      take == DOMAIN pulled[d] \ (gone \cup keep)
  IN  Overlay(Restrict(local[d], DOMAIN local[d] \ gone),
        [r \in take |->
           [status  |-> IF Dirty(d, r) THEN "updated" ELSE "synced",
            version |-> pulled[d][r].row.version,
            created |-> pulled[d][r].row.created,
            updated |-> pulled[d][r].row.updated, held |-> FALSE]])

Merge(d) ==
  /\ pc[d] = "merge"
  /\ local' = [local EXCEPT ![d] = Merged(d)]
  /\ seen' = [seen EXCEPT ![d] = [r \in Records |->
       @[r] \cup {pulled[d][q].row.version : q \in DOMAIN pulled[d] \cap {r}}]]
  /\ pulled' = [pulled EXCEPT ![d] = <<>>]
  /\ pc' = [pc EXCEPT ![d] = "collect"]
  /\ UNCHANGED <<cursor, from, stamp, batch, request, answer>> /\ SyncOnly

-----------------------------------------------------------------------------
(* The push                                                                *)

Send(d, rows) ==
  /\ batch' = [batch EXCEPT ![d] = rows]
  /\ request' = [request EXCEPT ![d] =
       [sent |-> TRUE, last |-> cursor[d], rows |-> rows]]
  /\ pc' = [pc EXCEPT ![d] = "push"]
  /\ UNCHANGED <<local, cursor, from, stamp, pulled, answer, seen>> /\ SyncOnly

Held(d, r) == r \in DOMAIN local[d] /\ local[d][r].held

\* mutant: participants of a withheld call are pushed
WithheldAlone(d, r) == Held(d, r)

\* A call still INITIATING and what belongs to it are withheld, stay dirty.
Withheld(d, r) == Held(d, r) \/ Held(d, Parent[r])

\* fetchLocalChanges() and buildPushPayload().  Nothing to push: done.
Collect(d) ==
  LET rows == Restrict(local[d],
                {r \in Records : Dirty(d, r) /\ ~Withheld(d, r)})
  IN  /\ pc[d] = "collect"
      /\ IF rows # <<>> THEN Send(d, rows)
         ELSE /\ pc' = [pc EXCEPT ![d] = "idle"]
              /\ UNCHANGED <<local, cursor, syncVars, seen>> /\ SyncOnly

\* ensure_call_exists() and its like: rows are inserted parents first, and one
\* whose parent the server does not have is skipped without an error.
Accepted(rows) ==
  {r \in DOMAIN rows : Parent[r] # NoRecord =>
                         Parent[r] \in DOMAIN server \cup DOMAIN rows}

Upsert(rows) ==
  [r \in Accepted(rows) |->
     [version |-> rows[r].version, created |-> rows[r].created,
      updated |-> rows[r].updated, deleted |-> FALSE]]

Conflicts(rows, last) ==
  {r \in Accepted(rows) \cap DOMAIN server : server[r].updated > last}

\* mutant: no look at is_deleted
TombstonesIgnored(rows) == {}

Tombstones(rows) == {r \in Accepted(rows) \cap DOMAIN server : server[r].deleted}

Respond(d, verdict) ==
  /\ request' = [request EXCEPT ![d] = NoRequest]
  /\ answer' = [answer EXCEPT ![d] = IF pc[d] = "push" THEN verdict ELSE "none"]
  /\ UNCHANGED <<clock, local, cursor, pc, from, stamp, pulled, batch,
                 boundVars, seen>>

\* POST /sync/push, one transaction; the first conflict or deleted row in the
\* order of the upserts decides between 409 and 404.
ServerPush(d) ==
  /\ request[d].sent
  /\ LET rows      == request[d].rows
         conflicts == Conflicts(rows, request[d].last)
         deleted   == Tombstones(rows) \ conflicts
     IN  \/ /\ conflicts # {} /\ Respond(d, "409")
            /\ UNCHANGED <<server, committed>>
         \/ /\ deleted # {} /\ Respond(d, "404")
            /\ UNCHANGED <<server, committed>>
         \/ /\ conflicts = {} /\ deleted = {}
            /\ server' = Overlay(server, Upsert(rows))
            /\ committed' = [r \in Records |-> committed[r] \cup
                 {rows[q].version : q \in Accepted(rows) \cap {r}}]
            /\ Respond(d, "200")

\* mutant: every record pushed is marked, written again meanwhile or not
PushedOnce(d, r) == r \in DOMAIN batch[d]

\* The record is still what was pushed.
PushedAsIs(d, r) == r \in DOMAIN batch[d] /\ local[d][r] = batch[d][r]

\* markLocalChangesAsSynced(): a record written again since stays dirty.
MarkSynced(d) ==
  /\ pc[d] = "push" /\ answer[d] = "200"
  /\ local' = [local EXCEPT ![d] = [r \in DOMAIN @ |->
       IF PushedAsIs(d, r) THEN [@[r] EXCEPT !.status = "synced"] ELSE @[r]]]
  /\ batch' = [batch EXCEPT ![d] = <<>>]
  /\ answer' = [answer EXCEPT ![d] = "none"]
  /\ pc' = [pc EXCEPT ![d] = "idle"]
  /\ UNCHANGED <<cursor, from, stamp, pulled, request, seen>> /\ SyncOnly

\* The catch of syncNow(): the next sync pulls everything again.
PushRefused(d) ==
  /\ pc[d] = "push" /\ answer[d] \in {"409", "404"}
  /\ cursor' = [cursor EXCEPT ![d] = 0]
  /\ batch' = [batch EXCEPT ![d] = <<>>]
  /\ answer' = [answer EXCEPT ![d] = "none"]
  /\ pc' = [pc EXCEPT ![d] = "idle"]
  /\ UNCHANGED <<local, from, stamp, pulled, request, seen>> /\ SyncOnly

-----------------------------------------------------------------------------
(* Failures, and what the server does on its own                           *)

Abandon(d) ==
  /\ failures < MaxFailures /\ failures' = failures + 1
  /\ pc' = [pc EXCEPT ![d] = "idle"]
  /\ pulled' = [pulled EXCEPT ![d] = <<>>]
  /\ batch' = [batch EXCEPT ![d] = <<>>]
  /\ answer' = [answer EXCEPT ![d] = "none"] /\ PullEnds(d)
  /\ UNCHANGED <<clock, server, local, cursor, writes, deletes, historyVars>>

\* The app is killed, or a pull fails; a push on its way may still arrive.
Stops(d) == pc[d] # "idle" /\ Abandon(d) /\ UNCHANGED request

\* The push fails before the server has it, or its answer is lost.
PushFails(d) ==
  /\ pc[d] = "push" /\ Abandon(d)
  /\ request' = [request EXCEPT ![d] = NoRequest]

\* migrate_phone_user() soft-deletes an SMS conversation merged into another.
ServerDeletes(r) ==
  /\ deletes < MaxDeletes /\ deletes' = deletes + 1
  /\ r \in DOMAIN server /\ ~server[r].deleted /\ Parent[r] = NoRecord
  /\ server' = [server EXCEPT ![r] = [@ EXCEPT !.deleted = TRUE,
                                               !.updated = clock]]
  /\ UNCHANGED <<clock, local, cursor, pc, syncVars, writes, failures, historyVars>>

SyncStep(d) ==
  \/ SyncStarts(d) \/ PullPage(d) \/ NormalizeAndSave(d) \/ Merge(d)
  \/ Collect(d) \/ MarkSynced(d) \/ PushRefused(d)

Next ==
  \/ Tick
  \/ \E d \in Devices :
       \/ \E r \in Records :
            LocalUpdates(d, r) \/ \E held \in BOOLEAN : LocalCreates(d, r, held)
       \/ SyncStep(d) \/ ServerPush(d) \/ Stops(d) \/ PushFails(d)
  \/ \E r \in Records : ServerDeletes(r)

Spec == Init /\ [][Next]_vars

\* The periodic timer starts a sync every five minutes, and a call returns or
\* fails.
FairSpec == Spec /\ \A d \in Devices : /\ WF_vars(SyncStep(d))
                                       /\ WF_vars(ServerPush(d))

-----------------------------------------------------------------------------
Versions == 1 .. MaxWrites
Times    == 1 .. MaxTime
LocalRows == [status : {"synced", "created", "updated"}, version : Versions,
              created : Times, updated : Times, held : BOOLEAN]
ServerRows == [version : Versions, created : Times, updated : Times,
               deleted : BOOLEAN]

\* Every variable keeps its type.
TypeOK ==
  /\ clock \in Times
  /\ DOMAIN server \subseteq Records
  /\ \A r \in DOMAIN server : server[r] \in ServerRows
  /\ \A d \in Devices :
       /\ DOMAIN local[d] \subseteq Records
       /\ \A r \in DOMAIN local[d] : local[d][r] \in LocalRows
       /\ cursor[d] \in 0 .. clock /\ stamp[d] \in 0 .. clock
       /\ pc[d] \in {"idle", "pull", "save", "merge", "collect", "push"}
       /\ answer[d] \in {"none", "200", "404", "409"}

\* A record the device takes for synced holds a version the server has had:
\* the rows the server skips for want of a parent, the rows withheld and the
\* rows written again during the push are never marked.
SyncedIsCommitted ==
  \A d \in Devices : \A r \in DOMAIN local[d] :
    local[d][r].status = "synced" => local[d][r].version \in committed[r]

\* An edit not pushed yet outlives every pull, failure and restart: only a
\* newer edit of the user or the deletion of the record takes its place.
UnpushedEditSurvives ==
  [][\A d \in Devices : \A r \in DOMAIN local[d] :
       (local[d][r].status # "created" /\ local[d][r].version \notin committed[r])
         => \/ r \notin DOMAIN local'[d]
            \/ local'[d][r].version >= local[d][r].version]_vars

\* A record deleted on the server is not brought back by the push of a device
\* that has not heard of it.
DeletedStaysDeleted ==
  [][\A r \in DOMAIN server : server[r].deleted => server'[r].deleted]_vars

\* A version some device has to push and the server never had.
Unsent(v) ==
  \E d \in Devices, r \in Records :
    /\ Dirty(d, r) /\ ~Held(d, r) /\ ~Held(d, Parent[r])
    /\ local[d][r].version = v /\ v \notin committed[r]

\* Until a row is deleted on the server, what a user wrote reaches the server or
\* is written over on the device, whoever else writes the record, with refused
\* pushes, lost calls and restarts in between; a call still INITIATING and its
\* participants wait.  (A deleted row may block a device's pushes for ever.)
EveryEditReachesServer ==
  \A v \in Versions :
    Unsent(v) ~> (~Unsent(v) \/ \E r \in DOMAIN server : server[r].deleted)

\* "A push that conflicts with a newer server-side change is rejected (409)
\* rather than silently overwriting the newer data."
NoSilentOverwrite ==
  [][\A r \in DOMAIN server :
       server'[r].version # server[r].version =>
         \E d \in Devices : /\ request[d].sent /\ ~request'[d].sent
                            /\ server[r].version \in seen[d][r]]_vars

\* "A device that goes offline and comes back online eventually converges to
\* the same conversation/message state as other devices".
Converges ==
  <>[](\A d \in Devices : \A r \in DOMAIN server :
         r \in DOMAIN local[d] /\ local[d][r].version = server[r].version)
=============================================================================
