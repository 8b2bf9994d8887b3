# SAPOT: verification project

SAPOT is a communication system for places where the internet is down: phones
with an app, a server on a local network, and an SMS gateway (a GSM modem behind
an Arduino) for people without the app. This directory holds TLA+ models of the
parts of it where the order of events decides correctness, the TLC runs that
check them, and TLAPS proofs about the core. The models are translated from the
code, at the lines `PROJECT.json` gives for every definition.

Run from this directory: `tlc -workers 2 -config <cfg> <module>` for a run of
section 4, and `tlapm <module>` for the proofs of `SerialWorkerProofs`,
`SmsRelayProofs`, `SyncProofs`, `ChatDeliveryProofs`, `CallsProofs`,
`WsSignalingProofs`, `PeerConnectProofs` and `SessionProofs`.

## 1. The system

```
 phone ── SMS ── GSM network ── Arduino + modem
                                    │ serial line
                              SMS gateway service  (SerialWorker, relay, sms_log)
                                    │ HTTP (notify_app)      shared user tables
 app ── WebSocket ── server, 5 worker processes ── MariaDB, redis
  │  ╲── HTTP /sync/pull, /sync/push ──╱                       │
  └──── WebRTC data channel / LAN TCP ──── app         admin web client
```

| component | state | operations | interacts with |
|---|---|---|---|
| **serial worker** (`serial_worker.py`) | bounded queue, active request, in-flight slot, link flags, four locks | `send_sms`, sender thread, reader thread, `stop` | called by the relay service and by HTTP requests; talks lines with the Arduino |
| **modem and firmware** (`.ino`, `mock_modem.py`) | registration, modem dialogue | `SEND_SMS`, unsolicited `GSM_READY`, `NETWORK_LOST`, `SIM_MISSING` | the serial line |
| **relay service** (`api.py`, `sms_handler.py`, `database.py`) | `sms_log`, `sms_session`, in-memory inbox | inbox task, command handler, `POST /sms/send`, start and shutdown | the worker; the server's `notify_app` route; the user tables the server writes |
| **synchronisation** (`features/sync/services`, `server/app/api/sync.py`) | each device's rows with their sync status, the cursor `lastPulledAt`, the server's rows | `syncNow` (pull pages, save, merge, collect, push), `/sync/pull`, `/sync/push` | WatermelonDB on the device; chat and call services write the rows |
| **server relay** (`peer_connection.py`, `websockets.py`, `connection_manager.py`, `queued.py`) | sockets of each process, presence in redis, queued messages | connect, relay, drain, heartbeat, disconnect | apps; redis channels between the five processes |
| **chat** (`features/chat/services`) | message status, ack timers, retry queue | send, receive, ack, seen, retry | server relay or data channel; the synchronisation's tables |
| **calls** (`features/call`, the call part of `connection-service.ts`) | one session per peer, the busy marker, the ring, the call room, the call's row | place, ring, answer, decline, time out, hang up | signalling; a negotiation that brings media or fails |
| **socket to the server** (`ws-signaling-adapter.ts`) | the socket and its epoch, reconnect and heartbeat timers, outbound queue, candidates held for a key | connect, send, reconnect, disconnect | server relay; token refresh, network listener, mode switch |
| **peer connections** (`connection-service.ts`, `webrtc-session-manager.ts`) | the connect in flight, the adapter of each peer | dial, offer, time out, retry, evict | TCP dial, signalling, screens that want a link |
| **link repair** (`ice-restart-controller.ts`, `liveness-monitor.ts`) | ICE state, restart attempts, missed pongs | restart, ping, give up | the peer's adapter |
| **discovery, encryption** (`connection`, `peer`, `crypto`) | peers seen on the LAN; keys | publish, browse, expire; encrypt, look up a key | connections |
| **session** (`client.ts`, `auth-context.tsx`, `auth.api.ts`) | the token pair in the secure store, the interceptor's refresh and its queue, the bootstrap, the relogin banner | request, 401, refresh, restore, log in, log out | the server's token routes; signalling and synchronisation use the tokens |
| **accounts, tokens, recovery** (`auth.py`, `token.py`, `device_attempts.py`, ...) | refresh tokens and the revocation list, attempt counters, recovery sessions | login, refresh, logout, attempt, recover | apps and admin client |
| **phone users** (`server/app/api/gsm.py`) | ghost users, verification codes, SMS conversations | inbound SMS, verify, `migrate_phone_user` | relay service; soft-deletes rows the synchronisation serves |
| **admin client** (`syncEngine.ts`, `mutationQueue.ts`) | a cached copy, a mutation queue | pull, push, mutate | the same sync routes |
| announcements, positions, administration, captive portal, deployment | rows written by single statements; configuration | | |

What makes each of them hard, and what makes it correct:

- **Serial worker.** Four nested locks, three kinds of threads, a slot that is
  read under a lock and completed after it is released, timeouts on both sides
  of the write, losses of port, network or SIM, and a shutdown that races with
  all of it. Correct when every admitted call gets one true answer, a call told
  to retry was never sent, and nothing is sent after a shutdown.
- **Relay service.** Each step is its own transaction and may be the last before
  a crash. Correct when the log never claims more than happened, no SMS goes out
  twice, each text is handled once and goes where its sender last said.
- **Synchronisation.** Devices write while they sync, pulls are paged, answers
  get lost, apps are killed, rows are deleted on the server. Correct when no
  edit is lost or silently overwritten and devices converge.
- **Server relay and chat.** Presence that outlives sockets, reconnection
  through another process, queue drained beside live traffic; three
  acknowledgements and a timer that overtake each other. Correct when a message
  the server took is delivered at least once and a status never goes back.
- **Calls.** Two phones act at once, each with async functions that wait for the
  database, the channel or the microphone while the next tap or message comes
  in. Correct when a phone that is not in a call is not busy, a negotiation is
  started once and only for a call somebody accepted, and nothing rings for ever.
- **Connections.** Events of an older socket or adapter arrive when a newer one is
  in place; timers outlive what they were armed for; several callers want one
  link. Correct when there is one socket and one connect, it is never stranded
  without a successor, frames are written once, and the screen shows what is there.
- **Session and tokens.** The interceptor of the API client, the refresh at
  bootstrap and the user's login or logout share one stored pair, each over
  several awaits; every refresh revokes the token it is made with, and answers get
  lost. Correct when a token buys one pair, no failure deletes a good token, the
  password is asked for only when it is needed, and no request hangs on another
  one's refresh.

`PROJECT.json` lists every component with its sources and every hazard at its
line, with the property that watches it or the reason why none does yet.

## 2. Plan

| written | composed of, or uses |
|---|---|
| `SerialWorker`, its abstract promise `SmsDispatch` | `ImplementsDispatch` maps the first to the second |
| `SmsRelay` | takes of the worker what `SmsDispatch` and `SerialWorker` establish |
| `Sync` | |
| `ServerRelay`, `ChatDelivery` | `ChatDelivery` extends `ServerRelay` by the two apps |
| `Calls` | a negotiation is a connection that comes up or not |
| `WsSignaling`, `PeerConnect`, `LinkRepair` | the life of a connection: the socket that carries the signals, the connect, the link that has come up |
| `Session` | the device's half and the server's half of the token pair, in one module, because each step of one is a step of the other |

Left, in this order:

1. The rest of the accounts on the server: the attempt budget with its lockout
   tiers, the one-time recovery sessions.
2. The order of offers and answers (glare, the polite side, a restart offer
   behind an answer), which `PeerConnect` and `LinkRepair` abstract to an offer
   that is answered or not.
3. `call-ended` rows in the queue of `ServerRelay`, which nobody acknowledges,
   and signals, which are never queued.
4. The firmware, composed with `SerialWorker`, for the readiness hazards; the
   phone users of `gsm.py`; the admin client as a second kind of device of `Sync`.
5. An abstract delivery (accepted, saved, shown as delivered) that
   `ChatDelivery` implements.

None of the modules declares a RECURSIVE operator; where the code filters an
array, the model has a recursive function (`Filtered`), about which can be proved.

## 3. The modules

### SerialWorker, SmsDispatch, SerialWorkerProofs

One process per `send_sms()` call, the sender thread, the reader thread, the
thread calling `stop()`, and the modem as environment. Control points are where
the code releases a lock or can block. `_active_lock` is a variable because it
is held across blocking steps; `_in_flight_lock` and `_ser_lock` are held across
steps only by a serial write (`InFlightLockFree`); sections under
`_lifecycle_lock` and `completion_lock` are one step each.

| model | code |
|---|---|
| `queue`, `active`, `inFlight`, `accepting`, `stopSet` | `_send_queue`, `_active_request`, `_in_flight`, `_accepting`, `_stop` |
| `result[r]` | `done`, `success`, `reason` of a request, which are set together |
| `expired[r]` | the deadline in force has passed: the caller's before the write, the confirmation's after it |
| `SendSms*`, `TimeoutRequest*` | `send_sms`, `_timeout_request` |
| `Sender*`, `Write*` | `_sender_loop`, `_write_active_request`, `_complete_active_request`, `_clear_active_request` |
| `Reader*`, `Handle*`, `Resolve*` | `_reader_loop`, `_connect_and_read`, `_handle_line`, `_resolve_in_flight` |
| `FailActive*(t)` | `_fail_active_request` on the reader's or the stopper's thread |
| `Stop*` | `stop` |
| `Modem*` | the Arduino as the worker can observe it: answers in order, any of them may fail or never come |

`SmsDispatch` is what a caller may rely on: admission order, one answer, a modem
verdict only for an SMS that was put on the line, CLIENT_TIMEOUT only for one
that never will be. `ImplementsDispatch` checks that the threads refine it; the
mapping takes the ghost sequences `admitted` and `written` for its order and
dispatches, and hides the step in which a caller is timing out.

### SmsRelay

The inbox task (one text at a time), the concurrent `POST /sms/send` requests,
the tables, and the service's life. Every database transaction and every
blocking call is a step; `Crash` may follow any of them. A send is
`LogOut` (row pending), `WorkerWrites`, `SendReturns`, `UpdateStatus`. From the
serial worker the model takes: an SMS is written at most once per call, ok is
returned for an SMS_SENT line with the right number, which may belong to an
earlier SMS to that number, because `serial_worker.py:366` matches a
confirmation by number only (`answers`).
A row is identified by its place in `log`. Accounts are written by the main
server at any moment. `Shutdown` stops taking texts; the text being handled is
finished by its executor thread; `Exit` follows when no thread has work.

### Sync

A device's `syncNow` with its four parts as separate steps (page, normalise and
save, merge, collect and push), any number of devices, and a server whose
handlers are atomic because each is one MariaDB transaction (with
`innodb_snapshot_isolation`, the default of the deployed version, the second of
two overlapping pushes of a row fails and is a `PushFails`). Rows of two tables,
parents (`Table`) and what refers to them, stand for the six tables: they go
through one code path each and differ in the parent that must exist and in the
call that is withheld while INITIATING. The contents are a version number;
`updated_at` and `created_at` are kept, because the cursor, the conflict check
and "created or updated" depend on them. WatermelonDB's merge and its marking
of pushed records are external and modelled from how `synchronize()` is used.
The app has no deletions of its own (nothing calls `markAsDeleted`); the server
soft-deletes SMS conversations in `migrate_phone_user`.

Abstracted: ownership (every device may see every row), counters and delays of
the retry timer (a sync may start whenever none runs; `isSyncing` is
`pc # "idle"`), hydration of unknown peers (writes other tables only), the
migration guard, payload fields.

### ServerRelay, ChatDelivery

`ServerRelay` is the server's side of the WebSockets for any number of users and
worker processes; `ChatDelivery` extends it by the two apps of a conversation,
messages going from `sender` to `receiver`, and by the data channel between them.

| model | code |
|---|---|
| `local[w][u]` | `_local` of worker `w`: `"live"` is the socket the device uses, `"stale"` one it has given up and the worker has not noticed |
| `setup[u]` | how far `connect()` and `main_web_socket()` are with the connection: each `await` between is a step |
| `presence` | the sorted set in redis, an expired entry being no entry |
| `queue` | the `Queue` table; `accepted` remembers what was answered by a server-ack |
| `relaying[u]` | a frame whose `is_user_connected()` waits for redis, with the answer, which may be old when `RelayOn` uses it |
| `up`, `down`, `peer` | frames on their way on a socket and on the data channel |
| `status`, `timer` | the sender's `MessageStatus`, `MessageAckTracker` |
| `created`, `unsent`, `marked` | the places where `sendChatMessage` and `tryResendMessage` wait for the database |
| `receiving[m]` | handlers between the duplicate check and the save; two at once when a message comes over both ways |

When a socket breaks, what was on its way is lost, in both directions. A device
connects to any worker. Only a device's end makes a socket stale; a worker that
stops drops its sockets, and presence stays in redis until it expires. A socket
that a worker never finds dead (only `WebSocketDisconnect` leads to
`disconnect()`) is a `ServerNotices` that is never taken: it has no fairness.

Abstracted: the drain is one step (its rows are read at once, and sent one by
one), contents and keys, profiles, the conversation's creation, notifications,
public chat, signals, status broadcasts, LAN-only mode. Call-ended rows are not
modelled yet: they are never acknowledged, and may fill the 100 rows of a drain.

### Calls

Any number of phones. What an async function does between two awaits is one
step; a function that waits is a task of its device, with the function (`op`) it
will go on with, the peer and the call it took along, which may be over by then.

| model | code |
|---|---|
| `session`, `marker`, `glare`, `listener` | `callSessions`, `activeCallPeerId`, `glareAcceptedPeers`, the `call-ready` listener of `CallService` |
| `ring`, `shown`, `rung`, `room` | `incomingCall` and `registeredRingRef` of the ring hooks, the incoming-call screen, `useCallLifecycle` of the call room |
| `wire`, `media`, `stream` | the peer's adapter, a stream about to arrive, `remoteStream` |
| `rows` | `status` of the call in the device's database |
| `tasks`, `net` | the functions that wait, and the signals under way in each direction |
| `UserStep`, `TaskStep`, `Receive`, `LinkStep`, `NoAnswer`, `RingTimeout` | taps; the continuations; `CallMessageRouter` and the handlers it calls; what a connection reports; the timers |

Abstracted: the log message of a call (the busy log and `BUSY` with it),
participant rows, permissions (granted at once), audio routes, camera. An end of
a function that waits for a microtask only takes a step of its own, and two
identical tasks of a device are one. A `call-missed` is not handled by the router
and not sent on.

### WsSignaling, PeerConnect, LinkRepair

`WsSignaling` is the device's socket to the server. A native socket is the
epoch it was opened in, and lives on until its close event; `socket` is the one
the adapter holds, `zombie` those whose path is gone while nobody knows. A frame
is the number of the message given to the adapter, so that order and repetition
can be told in `sent`. The actions are the adapter's methods and timers, and what
calls them: the mode switch, sign-in and sign-out, the token refresh, the public
chat screen, the network listener, the teardown of a call.

`PeerConnect` is `connectToPeer()` towards one peer: `inflight` is the entry of
`connectingPeers`, `run[r]` a call that started a connect, with the stage of its
current attempt, its retries, and whether the adapter it works on is the one in
the session map (`session`). `Begin`, `Dialled`, `DialFails`, `OfferMade`,
`OfferFails`, `Timeout` are the attempt; the adapter's events, a hang-up, an
eviction and a peer that is rediscovered come at any time. `"hung"` is a dial
whose TCP socket was closed before the peer's handshake.

`LinkRepair` is a link that has come up, with the two adapters' restarts and
pings. What ICE reports (`ice`) and what the link carries (`up`) are separate. A
timer handle that is overwritten leaves its timer running (`loose`).

### Session

The pairs of tokens are numbered in the order of issue. A call is at the await it
waits at (`call[c].stage`), for each request, for the refresh at bootstrap (`Boot`)
and for the user's login or logout (`User`); the interceptor's refresh is `fix`.

| model | code |
|---|---|
| `access`, `refresh`, `uuid` | what the secure store holds |
| `fix`, `FailedQueue` | `isRefreshing` with the refresh under way, `failedQueue` |
| `Ask`, `Unauthorized`, `Released`, `Abandoned` | a request, its 401, the end of its wait in `processQueue` |
| `Fix*` | the interceptor from reading the token to storing the new pair or deleting the old |
| `Launch`, `Restore`, `Boot*` | the bootstrap of `AuthProvider` and `refreshSession` |
| `Login*`, `Logout*`, `Leaves`, `Transition` | login, logout, and `ServerDownReloginTransition` |
| `Rotated`, `Live`, `spent`, `revoked` | `rotate` and the blacklist of `token.py`, whose key is the token's id |
| `orphans`, `Kill` | a refresh whose caller was killed is served all the same |

Abstracted: guests, roles, rate limits (a failure), the 60 days of a refresh token
(refused like a spent one), which rows a relogin wipes. A token is taken not to
expire during the call it was given for (`Expire`).

### What the connection modules leave out

Abstracted in `WsSignaling`, `PeerConnect` and `LinkRepair`: the order of offers
and answers (an offer is answered or not), the TCP signalling route, `stop()`, the
transport `"none"`, administrators as peers, delays and back-off, contents and
keys of frames.

## 4. The runs

All are finite because of the bounds below; the bounds are constants named in
the modules or, where they bound a run only, in its MC module.

| run | instance | distinct states | question |
|---|---|---|---|
| `worker_safety` | 2 callers to 2 numbers, queue of 1, 1 loss | 1,200,000 | are answers given once, does each success stand for a transmission, is nothing written for a caller told to retry or after a shutdown, and do the threads implement `SmsDispatch`? |
| `worker_liveness` | 1 caller, 1 loss of any kind | 54,000 | does every admitted caller return, and does `stop()` end both threads? |
| `relay` | 2 phones, 2 texts, 1 HTTP request, 1 crash, 1 account change, 3 such events | 474,000 | is the log honest, is each SMS written once, each text handled once, answered, and forwarded to the target chosen last? |
| `sync` | 2 devices, a call and its participant, two starts: nothing stored, or a call both have; pages of 1 row | 253,000 | is synced committed, do unpushed edits survive, is a deletion final, does every edit reach the server? |
| `sync_overwrite` | 2 devices, 1 row, 3 writes | | finding: a push overwrites a version its device never merged |
| `sync_converge` | 2 devices, 1 row, 2 writes, no failure | | finding: devices that sync for ever may differ for ever |
| `chat` | 1 message, 2 workers, a data channel, any 2 troubles | 487,000 | is delivered shown only of what is saved, does what the server took stay queued until then, and is a receiver that was away caught up? |
| `calls` | 2 phones, 2 taps each, 1 loss, a tap or timer when at most 1 function or message is under way | 254,000 | does the marker have an owner, is a negotiation started once per preparation and for an accepted call, does glare leave one side ringing, does every ring and calling room end? |
| `signaling` | 1 peer, 3 frames, queue of 2, 1 attempt, 2 events | 313,000 | one socket, never stranded, frames once and in order, dead sockets replaced, the queue settled |
| `connect` | 3 connects, 1 retry each | 167,000 | do calls share one connect, does the header show what is there, does every promise settle? |
| `link` | 1 outage, limit of 1 restart, 2 missed pongs | 25,000 | is a link that broke noticed by both sides, and repaired or given up? |
| `session` | 2 requests, 3 pairs, 2 starts, 1 login, in four scenes | 350,000 | does a token buy one pair, is only a token deleted that is spent, contended or signed out, is the password asked for with a reason, does every request settle? |

**Why the bounds are enough.** Worker: two callers and a queue of one already have
every pair of roles, one in the slot, one queued, one refused, one timing out
while the other is written; the sender handles one request at a time, so a third
only repeats the second, and the proofs cover every number. One loss can hit any
step; a second can only follow the first, when the slot is empty already. Relay:
two texts are needed for a target set by one and used by the other; three events
let a crash, a shutdown and an account change meet in one run (no sender of the
run chooses a target again before a forward; the theorem `RightTarget` covers
that). Sync: two devices are the least with a conflict; two instants of the clock
separate "before" and "after" a cursor, and equal times are possible in each; a
parent and a child are the least on which the order and the withholding of tables
shows. Pages are of one row, so that every page with a row is full and a further
one is asked for; it is empty, because a table has one row. Chat: one message has
every interleaving of its copies, its acknowledgements, its timer and the
connections; a second one shares nothing with it but the channels, whose order no
definition uses, and the drain's limit. Two workers are the least for presence and
sockets that disagree. Any two troubles are the pairs of a loss and what it races
with; three do not fit the time of a run. Calls: two phones that call each other,
give up, and call again; `MaxUnderWay` lets a tap or a timer come only when at
most one function or message of the two phones together is under way: the one that
races with what the user does next. No glare is accepted on both sides under it;
that a negotiation starts only for an accepted call then too is the theorem
`StartedAfterAnswer`. With two phones `elsewhere` stays empty, and `NotBothBusy`
is the strict claim; three phones are the theorem's. Signaling: two events are an
outage with what comes during the reconnect; an old socket with its successor
needs one. Connect: three connects are one that was abandoned, its successor, and
a caller that joins; one retry has every place a retry has. Session: two requests
are one that refreshes and one that queues behind it; three pairs are a refresh
and another with what it gave; the scenes set one pair of holders of the tokens
against each other at a time (two requests; a login, or a logout, beside the
refresh at bootstrap and a request; a restart), because all at once do not fit the
time of a run. The proofs have no scenes.

Symmetry is used only in runs of safety properties, over requests
(`worker_safety`) or devices (`sync_overwrite`) that no definition tells apart.

**Fairness.** Worker: threads that can run do run and deadlines pass; nothing is
assumed of the modem, the link, or of anybody calling `stop()`. Python's
scheduler and `monotonic()` give this. Weak fairness is per thread, so a lock
that is for ever taken when a thread looks would count as a counterexample if
the thread could be starved of it. Relay: the inbox task, the sends it waits for
(they end, by `worker_liveness`) and the restart of a service that is down
(systemd and docker restart it). Sync: a started sync goes on, the server
answers, and a new sync starts some time, which the five-minute timer of
`main-container.ts` guarantees while the app is open; failures are bounded, not
unfair. Chat: timers and handlers of a running app and the server's tasks run,
frames on a socket that lasts arrive, a device finds a dropped socket by its
heartbeat and connects again. No fairness for the server's discovery of dead
sockets, for presence expiring or being refreshed, nor for a user pressing
resend. Calls: promises settle, timers fire, and a connection that is broken is
found out (`LinkRepair`); no message need arrive and no user need do anything.
Signaling: timers fire, native sockets open, fail or close, a credential that is
fetched comes; the network need not come back. Connect: a dial is answered or
refused and an offer is made or not; timers fire. Link: timers fire, offers are
made, ICE does not check for ever; no offer need be answered and no link come
back. Session: a call that is out is answered or fails, and a function goes on
after its await; the user, kills, expiry and the relogin transition are free.
These are what the JavaScript event loop and the platform's sockets give.

**Deadlock** is checked in the worker runs (`Finished` is the only state without
another step) and in the sync runs. The others switch it off, because there the
system may really be at rest: no more texts, messages, calls, requests or events
to come and nothing to do.

## 5. Findings

- `sync_overwrite`: `sync-pull-normalizer.ts:84` drops "created" rows the device
  has, while the cursor passes them; the next push overwrites them unseen.
- `sync_converge`: `sync.py:391` stores the time of the edit, which other
  devices' cursors may have passed.

Each is quoted with the statement it contradicts in `PROJECT.json`. The passing
properties of `Sync` are what still holds in their presence: the loss is of
versions of others, never of an edit on the device that made it.

Seen while modelling, with no run of their own. Those marked (TLC) are
counterexamples of properties that were tried and given up:

- **Gateway.** A confirmation is matched to the request in flight by number only
  (`serial_worker.py:366`, against the docstring at `:144`), so with two requests
  to one number a late one answers the next (TLC). `SuccessWasTransmitted` and
  `SentWasTransmitted` therefore count: no two successes stand for one transmission.
  In the run each caller has a number of its own, the theorem is for any. The
  outcome of a forward is dropped before the sender is told "Forwarded"
  (`sms_handler.py:185`).
- **Synchronisation.** The cursor of a pull is saved before the merge
  (`sync-service.ts:323`; `design.md:241` says after). After a 404 for a row the
  server deleted the cursor is 0, a pull from 0 does not report deleted rows
  (`sync.py:85`), and the batch with an edit of that row answers 404 for ever;
  `EveryEditReachesServer` therefore asks
  nothing once a row was deleted. Pages are cut within a
  millisecond (`sync.py:92`). A sync in flight at `cleanup()` arms the retry timer
  again (`sync-service.ts:416`).
- **Chat.** `websockets.py:134` looks at the presence, waits, and queues; a
  recipient that connects and drains its queue in between does not get the message
  until it reconnects (TLC; `design.md:185`). An app killed between committing a
  message and sending it, or a resend that throws, leaves the status SENDING,
  which no retry picks up (`chat-message-service.ts:308`). A seen marks READ what
  the receiver may not have, because it takes SENT messages too. The socket's
  parser drops a relayed seen.
- **Calls.** Two `ensureSession()` that both find no session give one call two ids
  (`call-service.ts:882`) (TLC). A callee that hangs up before media stores
  "completed". The no-answer timeout against a late call-ready leaves a room that
  is over showing "Reconnecting…", and a room that reconnects when its marker was
  released has no way out (TLC; `AttemptsEnd` speaks of the call the device is
  busy with). In a glare the accepted side answers with its own call id, so that
  its call-ready is ignored as stale; a "busy" then does not end the caller's
  session. A declined call is not finalised on the caller's phone
  (`call-service.ts:539`, against `CALL_FLOW.md:134`). End during the set-up still
  sends the invitation; a call-ended while answering leaves the callee's session;
  both sides of a glare may start the negotiation of one call, when each accepts
  the other's ring while its own call is being prepared (TLC, four taps;
  `StartedOnce` therefore speaks of a device and what it prepared for); where one
  of two that call each other is busy with a third phone, both may be told "busy"
  (TLC, 16 steps), hence `elsewhere` in `NotBothBusy`; hang-ups that cross log
  twice; a call placed during the finalisation of the last one takes over its
  dying session; the 1.5 s drop timer of an earlier break may end a later one.
- **Socket.** In LAN mode a socket is still opened by a reconnect timer or by the
  public chat's pending token lookup (`main-container.ts:497`; switching from auto
  to LAN returns early without a disconnect) (TLC). `setSignalingToken(undefined)`
  disconnects only when connected (TLC). An offer that waits for its credential is
  handed over after a disconnect or a teardown (`signaling-service.ts:319`) (TLC).
  A reconnect uses the token of the last connect, not the refreshed one (TLC). A
  key learnt from a TCP handshake does not release held candidates,
  `resetSessionState` does not clear them, their release bypasses `maxQueueSize`,
  and the queue's time limit drops `call-ended` too.
- **Connect.** A dial whose socket is closed before the handshake settles neither
  way (`tcp-client-adapter.ts:185`), and its entry in `connectingPeers` is joined
  by every later connect (TLC; against the comment at
  `connection-service.ts:631`); `ConnectSettles` leaves a dial that hangs out. A
  link the peer's own offer brings up during a dial is torn down by the dialler's
  timer, because `isConnected` is asked only before the dial
  (`connection-service.ts:776`). A connect abandoned by a hang-up goes on: its
  time-out evicts its successor's adapter and sends an offer of its own, against
  `CALL_FLOW.md:302`. Two connects that retry after one failure evict each other's
  fresh adapter.
- **Link.** A fallback timer armed after the reset (`ice-restart-controller.ts:67`,
  comment at `:73`) restarts a healthy link, endlessly if answers come late (TLC).
  `degraded` outlives an ICE reset, so that a second break before the next pong
  goes unnoticed by the pings; hence the guard of `BrokenLinkIsSettled`.
  `setIceRestartAttempts` is never called, so a break shorter than 1.5 s leaves
  "Reconnecting…" on the screen, against `CONNECTION_MESSAGES.md:297`. Chat
  connections of a callee never set `isPolite`.
- **Session.** An app that starts offline with an expired access token asks for
  the password when the server returns, although its refresh token is good, and
  that relogin wipes the local database (`server-down-relogin-transition.tsx`,
  against `docs/features/authentication/testing.md`, "Session restored without
  re-login") (TLC). The refresh at bootstrap and the interceptor's may use one
  token; the loser's rejection deletes the winner's pair (TLC). A request whose
  401 comes while a refused refresh is deleting the tokens stays in `failedQueue`
  for ever (TLC). A refresh at bootstrap that ends after a logout signs the user in
  again, with no tokens and no banner. A relogin that wipes and whose
  `getUserApi` fails leaves tokens without a user. A wrong password with a stored
  refresh token passes through the interceptor and is posted twice. A logout
  revokes the access token only, while
  `docs/features/authentication/design.md:31` says both.

## 6. What is proved

Every theorem holds for all values of the constants that satisfy the module's
assumption: any set of callers, phones, devices, messages, users or connects, and
any bound on events. In each module `Invariance` is `Spec => []IInv` for a
strengthening `IInv` that TLC confirmed on the instance of the module's run before
it was proved; where a further property needs facts of its own, it has an invariant
of its own that builds on the first. No theorem has a hypothesis besides.

| module | theorem | statement |
|---|---|---|
| `SerialWorkerProofs` | `Typing`, `ClientTimeoutSafe`, `SlotSafe` | `Spec => []TypeOK`, `[]ClientTimeoutNeverWritten`, `[]InFlightIsLive` |
| | `ShutdownSafe`, `CompletionSafe` | `Spec => ShutdownQuiesces`, `CompletedOnce` |
| | `SuccessSafe` | `Spec => []SuccessWasTransmitted` |
| | `Refinement` | `Spec => ImplementsDispatch` |
| `SmsRelayProofs` | `OwnedRows`, `NoSecondWrite`, `HonestLog`, `NoSecondHandling`, `RightTarget` | the five safety properties of `relay` |
| `SyncProofs` | `TypeCorrect`, `SyncedWasCommitted`, `DeletionIsFinal`, `EditSurvives` | the four safety properties of `sync` |
| `ChatDeliveryProofs` | `TypeCorrectness`, `DeliveredOnlyIfSaved`, `AcceptedStaysQueued` | type, `DeliveredIsSaved`, `AcceptedIsKept` |
| `CallsProofs` | `TypeCorrect`, `MarkerOwned`, `OncePerPreparation` | type, `MarkerHasOwner`, `StartedOnce` |
| | `StartedAfterAnswer`, `CompletedAfterAnswer` | `StartedWasAnswered`, `CompletedWasAnswered` |
| | `OneGivesWay` | `NotBothBusy` |
| `WsSignalingProofs` | `OneSocket`, `ReconnectAhead` | `NoOrphanSocket`, `NeverStranded` |
| | `TypeCorrect`, `WrittenInOrder`, `TornDownIsGone` | type, `InOrder`, `TornDownIsNotReplayed` |
| `PeerConnectProofs` | `TypeCorrect`, `OneConnect`, `ConnectedIsLinked` | type, `OneConnectAtATime`, `ShownIsLinked` |
| `SessionProofs` | `TypeCorrect`, `OnePairPerToken` | type, `RotatedOnce` |
| | `TokenKept`, `ReloginHasReason` | `KeptThroughFailures`, `ReloginExplained`, action properties |

**Serial worker.** None of the properties is inductive. `IInv` adds facts each of
which cites the ones before it: `LockInv` (the program counters inside the
critical sections of `_active_lock` agree with its holder), `PlaceInv` (a request
is at one place of the queue or in the sender's hands, never both), `SlotInv` (the
slot holds the sender's current, unfinished request and only between the start of
a write and its confirmation), `WriteInv` (a caller inside `_timeout_request`, or
told CLIENT_TIMEOUT, has `writeStarted` false, and everything written has it true)
and `StopInv` (past `_fail_active_request` of `stop()`, there is no active request
and the sender is not about to write). `ShutdownSafe` follows from `StopInv` since
`WriteBytesLeave` is the only step that writes; `CompletionSafe` needs `SlotInv`,
because `_complete_in_flight` sets the result without looking whether there is
one. One lemma per conjunct, one step per group of actions in it.

That each success stands for a transmission of its own is a counting argument, made
for each number apart, because the line carries the number and not the request:
the requests told success for a number and the confirmations for it that nobody
took yet are together no more than the SMS transmitted to it (`CountInv`). A
confirmation is added with the transmission it reports, and the request it
completes takes it off the line. The counts are injections (`Counted`), so that
none of this needs an induction over the lines.

**Refinement of `SmsDispatch`.** The mapping gives the ghost sequences `admitted`
and `written` as the abstract order and dispatches. `RefInv` says what the
abstract guards need: a request is admitted once and its call returns with a
result (`AdmittedInv`); the queue is the tail of the admission order, and what was
taken from it is completed or in the sender's hands (`QueueInv`); the sender lets
go of a request only when it is completed (`ActiveInv`); what is written was taken
and is written once (`WrittenInv`); a verdict or a failure on its way says which it
is (`ReasonInv`). Then each of the worker's steps is one abstract step or a
stutter.

**Relay service.** `IInv` joins `SendInv` (a thread in a send has a pending row of
its own, unwritten until it was written), `RowInv`, `OnceInv` (texts are handled,
in hand or waiting, in the order of their arrival), `TargetInv` (a session's
target is the last choice of its phone, stated by the existence of a last choice,
so that no maximum over a history is needed) and `ClaimInv`. `HonestLog` is a
counting argument: the rows that claim "sent" for a number and the SMS_SENT lines
for it that no call took yet are together at most the SMS the modem transmitted to
it. A step that takes a line to claim a row removes the line.

**Synchronisation.** `IInv` is `ServerInv /\ Shape /\ \A d : DeviceInv(d)`, with
one conjunct for each place where a version may be: the device's rows, what was
pulled, a request, its answer. The server knows every
version it holds and has no row without its parent unless one was deleted, so a
push skips nothing that the answer then marks as synced.

**Chat.** An acknowledgement on its way sets DELIVERED, and frees rows of the
queue, steps after it was made and on another process. The strengthening is
`FramesInv`: whatever is under way on either socket or on the data channel,
waiting in `relay_message()` for redis, or in the queue is a chat, a seen, or the
acknowledgement of a message in the inbox. `SaveIncoming` and `ReceiverHears` make
an acknowledgement only of a saved message, and nothing shrinks the inbox
(`SentGrows`). For `AcceptedIsKept` three steps touch the queue: a drain spares
chats (`DrainSpares`); an acknowledgement frees only rows of a saved message
(`RelaySpares`); and the row `RelayOn` takes for a duplicate of the chat it is
about to queue is that chat, since what else carries its id goes to the other user
(`RelayOnKeepsChats`).

**Calls.** `IInv` is the type, `RingWasShown` (a ring was opened for some screen,
so that the screen's parameters, which answering and declining take, are a ring's)
and `MarkerHasOwner`. One lemma per handler and task shows that a marker it leaves
behind has a session or a ring. Three more invariants stand on the type alone:
`OnceInv` (a listener that stands is a preparation not yet used up); `AnswerInv`
(whatever can start or complete a call names one that was accepted: a waiting
function, a session that counts as answered, a signal under way; a late or doubled
call-ready does no harm because the call it names was accepted, not because it is
recognised); and `BusyInv` ("busy", in a room or under way, was said by the phone
with the greater id, or by one that was busy with a third phone, which `elsewhere`
remembers; no phone rings or calls itself). Of two phones only one has the greater
id, so where both rooms show "busy" one of them was said elsewhere.

**Connections.** `WsSignaling`: `TokenFollows` (after a disconnect there is no
token to connect with, and with the reconnect timer armed there is one),
`OneStage` (a native socket is dialling, open or closing), `IdleHasNoSocket`;
`NeverStranded` then follows for every event of an old epoch, which changes
nothing of the adapter. For the frames, `FrameInv` says where a frame may be:
written, queued or held back for a key, once and in one of them, with everything
written before everything queued (`LineInv`, `HeldInv`), nothing queued while the
socket is open (`NothingWaits`), and what is forsaken in none of them
(`ForsakenInv`); candidates are exempt from the order. The queue is filtered by a
recursive function; that a filter gives elements of the set only, in the order they
had (`FilteredPart`), is proved without an induction theorem, by the least position
at which it fails (`LeastNumber`, from the library's well-foundedness of `<` on
`Nat`). `PeerConnect`: the type and the two properties are inductive together.

**Session.** `RotationInv`: a pair was issued for a token that was spent by it, so
a second refresh with the token is refused wherever it is served. `RepairInv`: the
interceptor has one refresh, on behalf of the one call that waits in it. `LostInv`
says that while no two holders of the pair were at work at once (`overlapped`), the
token a refresh was posted with is the stored one or none is stored (`AloneInv`), so
that a refusal of it means a spent token; that the interceptor does not turn the
bootstrap's refusal into something else (`SpentInv`, `LiveInv`) closes it. A step
that deletes the token then deletes a spent one (`KeptThroughFailures`), and a
banner that comes up has its reason (`ReloginExplained`). Without the exception for
`overlapped` both are false: the loser's refusal deletes the winner's good pair.

Every safety property of a passing run has its theorem. Only model-checked is the
liveness (`EveryCallerReturns`, `StopTerminates`, `EveryTextAnswered`,
`EveryEditReachesServer`, `AwayIsCaughtUp`, `AttemptsEnd`, `ZombieIsReplaced`,
`QueuedIsSettled`, `ConnectSettles`, `BrokenLinkIsSettled`, `RequestSettles`): the
proof system has no rules for ENABLED, which fairness is made of. `LinkRepair`, whose
one property is of that kind, has no proofs.

## 7. Not modelled

The components marked `not_modelled` in `PROJECT.json`, with the reason there:
those of the plan above have their hazards listed; single-statement
administration, positions, captive portal, tiles and deployment have no protocol
of their own; encryption is computation. Inside the modelled components: the
wording and parsing of SMS texts and serial lines, the read-only routes, `POST
/users` and `GET /sessions` of the gateway (they call functions `database.py` does
not define), row ownership in the sync routes, hydration of unknown peers, the
migration guard, skewed device clocks, texts lost with the in-memory inbox when
the process dies, of which the code promises nothing, the lockout budget and the
recovery of accounts, guests and roles of a session, rate limits other than as a
failure, public chat and status broadcasts, the SMS channel of a chat, LAN-only
chat, media and audio of calls, and the abstractions section 3 names for each
module.
