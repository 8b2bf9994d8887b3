---------------------------- MODULE SerialWorker ----------------------------
(***************************************************************************)
(* The outbound half of the SMS gateway's SerialWorker                     *)
(* (GSM-module/GSM-fastapi/serial_worker.py).                              *)
(*                                                                         *)
(* Threads: one caller per send_sms() call, the sender thread, the reader  *)
(* thread and the thread that calls stop().  A step ends where the code    *)
(* gives up a lock or may block, so every interleaving the four locks      *)
(* allow is explored:                                                      *)
(*   - _active_lock is a variable, it is held across steps;                *)
(*   - _in_flight_lock and _ser_lock are held across steps only by a       *)
(*     serial write in progress (InFlightLockFree);                        *)
(*   - the sections under _lifecycle_lock and completion_lock are single   *)
(*     steps: no thread waits inside them for anything but _active_lock,   *)
(*     whose holders never want either of the two.                         *)
(* Wall-clock time is one bit per request: its deadline has passed or not. *)
(* A request is named by the call that made it.                            *)
(***************************************************************************)
EXTENDS Naturals, Sequences, FiniteSets

CONSTANTS Requests,     \* the send_sms() calls of one life of the service
          NoReq,        \* Python's None where a request could be
          NumberOf,     \* the phone number each request is addressed to
          Capacity,     \* send_queue_maxsize
          LossKinds,    \* the ways the modem can report that it lost service
          MaxEvents     \* bound on losses: of the network, the SIM, the port, a write

ThreadNames == {"free", "sender", "reader", "stopper"}

ASSUME WorkerAssumption ==
  /\ NoReq \notin Requests
  /\ Requests \cap ThreadNames = {}
  /\ Capacity \in 1 .. 20                      \* MAX_SEND_QUEUE_SIZE
  /\ DOMAIN NumberOf = Requests
  /\ LossKinds \subseteq {"NETWORK_LOST", "SIM_MISSING"}
  /\ MaxEvents \in Nat

VARIABLES
  accepting,     \* _accepting
  stopSet,       \* _stop
  queue,         \* _send_queue
  active,        \* _active_request
  inFlight,      \* _in_flight
  activeLock,    \* holder of _active_lock
  serOpen,       \* _ser is not None
  connected,     \* the status flags callers look at
  gsmReady,
  result,        \* done/success/reason of each request, set together
  writeStarted,
  expired,       \* time.monotonic() >= deadline
  callerPc, senderPc, current, readerPc, candidate, verdict, stopperPc,
  failReason,    \* argument of a _fail_active_request() under way, per thread
  toModem,       \* SEND_SMS lines the Arduino has not looked at
  fromModem,     \* lines the reader has not looked at
  events,        \* unsolicited events so far
  admitted,      \* history: requests in the order they were queued
  written,       \* history: requests whose bytes went out, in order
  transmitted    \* history: requests the modem put on the air

lockVars   == <<accepting, stopSet, active, inFlight, activeLock>>
linkVars   == <<serOpen, connected, gsmReady>>
reqVars    == <<result, writeStarted, expired>>
senderVars == <<senderPc, current>>
readerVars == <<readerPc, candidate, verdict>>
modemVars  == <<toModem, fromModem, events, transmitted>>
histVars   == <<admitted, written>>
vars == <<lockVars, queue, linkVars, reqVars, callerPc, senderVars, readerVars,
          stopperPc, failReason, modemVars, histVars>>

ReqOrNone   == Requests \cup {NoReq}
FailReasons == {"NETWORK_LOST", "SIM_MISSING", "SERIAL_DISCONNECTED",
                "SERVICE_STOPPING"}
Verdicts == {"none", "ok", "MODEM_FAILED"}   \* of the modem, "none" yet
Results == FailReasons \cup {"none", "ok", "MODEM_FAILED", "TIMEOUT",
                             "CLIENT_TIMEOUT", "WRITE_ERROR"}
AnswerKinds == {"SMS_SENT", "SMS_FAILED"}
Lines == [kind : AnswerKinds \cup LossKinds \cup {"GSM_READY"}, req : ReqOrNone]

Init ==
  /\ accepting = TRUE /\ stopSet = FALSE
  /\ queue = <<>> /\ active = NoReq /\ inFlight = NoReq /\ activeLock = "free"
  /\ serOpen = FALSE /\ connected = FALSE /\ gsmReady = FALSE
  /\ result = [r \in Requests |-> "none"]
  /\ writeStarted = [r \in Requests |-> FALSE]
  /\ expired = [r \in Requests |-> FALSE]
  /\ callerPc = [r \in Requests |-> "idle"]
  /\ senderPc = "loop" /\ current = NoReq
  /\ readerPc = "closed" /\ candidate = NoReq /\ verdict = "none"
  /\ stopperPc = "idle"
  /\ failReason = [t \in {"reader", "stopper"} |-> "none"]
  /\ toModem = <<>> /\ fromModem = <<>> /\ events = 0
  /\ admitted = <<>> /\ written = <<>> /\ transmitted = {}

Done(r) == result[r] # "none"

\* A write in progress holds _in_flight_lock and _ser_lock.
InFlightLockFree == senderPc \notin {"writing", "wrote"}

-----------------------------------------------------------------------------
(* Completion helpers.                                                     *)

\* _complete_request: the first completion wins.
CompleteRequest(r, res) ==
  result' = [result EXCEPT ![r] = IF @ = "none" THEN res ELSE @]

\* _complete_in_flight: only the request in the slot, which is given up.
CompleteInFlight(r, res) ==
  IF inFlight = r
    THEN inFlight' = NoReq /\ result' = [result EXCEPT ![r] = res]
    ELSE UNCHANGED <<inFlight, result>>

\* The pair the failure paths try in turn: the slot, else the request.
CompleteEither(r, res) ==
  IF inFlight = r THEN CompleteInFlight(r, res)
                  ELSE CompleteRequest(r, res) /\ UNCHANGED inFlight

-----------------------------------------------------------------------------
(* send_sms(): admission, waiting, the caller's own timeout.               *)

\* mutant: the queue is unbounded
QueueAlwaysHasRoom == TRUE

QueueHasRoom == Len(queue) < Capacity

SendSmsAdmits(r) ==
  /\ callerPc[r] = "idle"
  /\ accepting /\ connected /\ gsmReady /\ QueueHasRoom
  /\ queue' = Append(queue, r)
  /\ admitted' = Append(admitted, r)
  /\ callerPc' = [callerPc EXCEPT ![r] = "waiting"]
  /\ UNCHANGED <<lockVars, linkVars, reqVars, senderVars, readerVars,
                 stopperPc, failReason, modemVars, written>>

\* WorkerStoppingError, RuntimeError (twice) or OutboundQueueFullError
SendSmsRejects(r) ==
  /\ callerPc[r] = "idle"
  /\ ~accepting \/ ~connected \/ ~gsmReady \/ ~QueueHasRoom
  /\ callerPc' = [callerPc EXCEPT ![r] = "rejected"]
  /\ UNCHANGED <<lockVars, queue, linkVars, reqVars, senderVars, readerVars,
                 stopperPc, failReason, modemVars, histVars>>

\* The clock reaches the request's deadline.
DeadlinePasses(r) ==
  /\ callerPc[r] = "waiting" /\ ~expired[r] /\ ~Done(r)
  /\ expired' = [expired EXCEPT ![r] = TRUE]
  /\ UNCHANGED <<lockVars, queue, linkVars, result, writeStarted, callerPc,
                 senderVars, readerVars, stopperPc, failReason, modemVars,
                 histVars>>

\* mutant: _timeout_request does not look at write_started
MayTimeOutAnyway(r) == ~Done(r)

\* A request already done or already being written is left alone and the
\* caller goes on waiting.
MayTimeOut(r) == ~Done(r) /\ ~writeStarted[r]

\* _timeout_request up to the inner lock
TimeoutRequestLock(r) ==
  /\ callerPc[r] = "waiting" /\ expired[r] /\ activeLock = "free"
  /\ MayTimeOut(r)
  /\ activeLock' = r
  /\ callerPc' = [callerPc EXCEPT ![r] = "expiring"]
  /\ UNCHANGED <<accepting, stopSet, active, inFlight, queue, linkVars, reqVars,
                 senderVars, readerVars, stopperPc, failReason, modemVars,
                 histVars>>

TimeoutRequestComplete(r) ==
  /\ callerPc[r] = "expiring" /\ InFlightLockFree
  /\ inFlight' = IF inFlight = r THEN NoReq ELSE inFlight
  /\ CompleteRequest(r, "CLIENT_TIMEOUT")
  /\ activeLock' = "free"
  /\ callerPc' = [callerPc EXCEPT ![r] = "waiting"]
  /\ UNCHANGED <<accepting, stopSet, active, queue, linkVars, writeStarted,
                 expired, senderVars, readerVars, stopperPc, failReason,
                 modemVars, histVars>>

SendSmsReturns(r) ==
  /\ callerPc[r] = "waiting" /\ Done(r)
  /\ callerPc' = [callerPc EXCEPT ![r] = "returned"]
  /\ UNCHANGED <<lockVars, queue, linkVars, reqVars, senderVars, readerVars,
                 stopperPc, failReason, modemVars, histVars>>

CallerStep(r) ==
  \/ TimeoutRequestLock(r) \/ TimeoutRequestComplete(r) \/ SendSmsReturns(r)

-----------------------------------------------------------------------------
(* _sender_loop: one request at a time.                                    *)

SenderLoopHead ==
  /\ senderPc = "loop"
  /\ senderPc' = IF stopSet THEN "exited" ELSE "get"
  /\ current' = NoReq
  /\ UNCHANGED <<lockVars, queue, linkVars, reqVars, callerPc, readerVars,
                 stopperPc, failReason, modemVars, histVars>>

\* _send_queue.get(timeout=1): an item, or queue.Empty and back to the head.
SenderGet ==
  /\ senderPc = "get"
  /\ IF queue = <<>>
       THEN senderPc' = "loop" /\ UNCHANGED <<current, queue>>
       ELSE senderPc' = "got" /\ current' = Head(queue) /\ queue' = Tail(queue)
  /\ UNCHANGED <<lockVars, linkVars, reqVars, callerPc, readerVars, stopperPc,
                 failReason, modemVars, histVars>>

\* mutant: the sender does not ask whether the service is stopping
StartsAnyway == TRUE

\* "if not self._accepting" before the request becomes the active one
MayStart == accepting

SenderActivate ==
  /\ senderPc = "got"
  /\ IF MayStart
       THEN /\ activeLock = "free"
            /\ active' = current /\ senderPc' = "await_ready"
            /\ UNCHANGED result
       ELSE /\ CompleteRequest(current, "SERVICE_STOPPING")
            /\ senderPc' = "loop" /\ UNCHANGED active
  /\ UNCHANGED <<accepting, stopSet, inFlight, activeLock, queue, current,
                 linkVars, writeStarted, expired, callerPc, readerVars,
                 stopperPc, failReason, modemVars, histVars>>

\* mutant: the sender waits for the modem whatever happens to the request
ReadyWaitNeverGivesUp == gsmReady

\* The wait for the modem ends: ready, completed by someone else, or too late.
ReadyWaitOver == gsmReady \/ Done(current) \/ expired[current]

SenderAwaitReady ==
  /\ senderPc = "await_ready" /\ ReadyWaitOver
  /\ senderPc' = "ready_check"
  /\ UNCHANGED <<lockVars, queue, current, linkVars, reqVars, callerPc,
                 readerVars, stopperPc, failReason, modemVars, histVars>>

\* The flags are read again: gsm_ready may have gone since the wait ended.
SenderReadyCheck ==
  /\ senderPc = "ready_check"
  /\ senderPc' = IF Done(current) THEN "clear"
                 ELSE IF gsmReady THEN "write_check" ELSE "drop"
  /\ UNCHANGED <<lockVars, queue, current, linkVars, reqVars, callerPc,
                 readerVars, stopperPc, failReason, modemVars, histVars>>

\* _complete_active_request(req, False, "TIMEOUT"), up to the completion
SenderDropLock ==
  /\ senderPc = "drop" /\ activeLock = "free"
  /\ IF active # current \/ Done(current)
       THEN senderPc' = "loop" /\ UNCHANGED activeLock
       ELSE senderPc' = "dropping" /\ activeLock' = "sender"
  /\ UNCHANGED <<accepting, stopSet, active, inFlight, queue, current, linkVars,
                 reqVars, callerPc, readerVars, stopperPc, failReason,
                 modemVars, histVars>>

SenderDrop ==
  /\ senderPc = "dropping"
  /\ CompleteEither(current, "TIMEOUT")
  /\ active' = NoReq /\ activeLock' = "free" /\ senderPc' = "loop"
  /\ UNCHANGED <<accepting, stopSet, queue, current, linkVars, writeStarted,
                 expired, callerPc, readerVars, stopperPc, failReason,
                 modemVars, histVars>>

\* _write_active_request under _active_lock: still ours, still in time?
WriteCheck ==
  /\ senderPc = "write_check" /\ activeLock = "free"
  /\ IF active # current \/ Done(current)
       THEN senderPc' = "clear" /\ UNCHANGED <<activeLock, result>>
     ELSE IF expired[current]
       THEN /\ CompleteRequest(current, "TIMEOUT")
            /\ senderPc' = "clear" /\ UNCHANGED activeLock
       ELSE senderPc' = "write_start" /\ activeLock' = "sender"
            /\ UNCHANGED result
  /\ UNCHANGED <<accepting, stopSet, active, inFlight, queue, current, linkVars,
                 writeStarted, expired, callerPc, readerVars, stopperPc,
                 failReason, modemVars, histVars>>

\* The request enters the in-flight slot; a closed port fails it at once.
WriteStart ==
  /\ senderPc = "write_start"
  /\ writeStarted' = [writeStarted EXCEPT ![current] = TRUE]
  /\ IF serOpen
       THEN /\ inFlight' = current /\ senderPc' = "writing"
            /\ UNCHANGED <<activeLock, result>>
       ELSE /\ inFlight' = NoReq /\ CompleteRequest(current, "WRITE_ERROR")
            /\ senderPc' = "clear" /\ activeLock' = "free"
  /\ UNCHANGED <<accepting, stopSet, active, queue, current, linkVars, expired,
                 callerPc, readerVars, stopperPc, failReason, modemVars,
                 histVars>>

\* The bytes leave before write() returns, so the Arduino may answer early.
WriteBytesLeave ==
  /\ senderPc = "writing" /\ senderPc' = "wrote"
  /\ toModem' = Append(toModem, current)
  /\ written' = Append(written, current)
  /\ UNCHANGED <<lockVars, queue, current, linkVars, reqVars, callerPc,
                 readerVars, stopperPc, failReason, fromModem, events,
                 transmitted, admitted>>

\* write() returns and the confirmation deadline starts.
WriteReturns ==
  /\ senderPc = "wrote" /\ senderPc' = "confirm"
  /\ expired' = [expired EXCEPT ![current] = FALSE]
  /\ activeLock' = "free"
  /\ UNCHANGED <<accepting, stopSet, active, inFlight, queue, current, linkVars,
                 result, writeStarted, callerPc, readerVars, stopperPc,
                 failReason, modemVars, histVars>>

\* write() raises (its 5 s timeout, a lost port), with or without bytes gone.
WriteRaises ==
  /\ senderPc \in {"writing", "wrote"} /\ senderPc' = "clear"
  /\ events < MaxEvents /\ events' = events + 1
  /\ inFlight' = NoReq /\ CompleteRequest(current, "WRITE_ERROR")
  /\ activeLock' = "free"
  /\ UNCHANGED <<accepting, stopSet, active, queue, current, linkVars,
                 writeStarted, expired, callerPc, readerVars, stopperPc,
                 failReason, toModem, fromModem, transmitted, histVars>>

\* req.done.wait(timeout=remaining) returns True or False
SenderConfirmWait ==
  /\ senderPc = "confirm"
  /\ Done(current) \/ expired[current]
  /\ senderPc' = IF Done(current) THEN "clear" ELSE "confirm_timeout"
  /\ UNCHANGED <<lockVars, queue, current, linkVars, reqVars, callerPc,
                 readerVars, stopperPc, failReason, modemVars, histVars>>

\* mutant: an unanswered request is given up without completing it
SenderConfirmTimeoutSilent ==
  /\ senderPc = "confirm_timeout"
  /\ inFlight' = IF inFlight = current THEN NoReq ELSE inFlight
  /\ senderPc' = "clear"
  /\ UNCHANGED <<accepting, stopSet, active, activeLock, queue, current,
                 linkVars, reqVars, callerPc, readerVars,
                 stopperPc, failReason, modemVars, histVars>>

SenderConfirmTimeout ==
  /\ senderPc = "confirm_timeout"
  /\ CompleteInFlight(current, "TIMEOUT")
  /\ senderPc' = "clear"
  /\ UNCHANGED <<accepting, stopSet, active, activeLock, queue, current,
                 linkVars, writeStarted, expired, callerPc, readerVars,
                 stopperPc, failReason, modemVars, histVars>>

\* _clear_active_request
SenderClear ==
  /\ senderPc = "clear" /\ activeLock = "free"
  /\ active' = IF active = current THEN NoReq ELSE active
  /\ senderPc' = "loop"
  /\ UNCHANGED <<accepting, stopSet, inFlight, activeLock, queue, current,
                 linkVars, reqVars, callerPc, readerVars, stopperPc,
                 failReason, modemVars, histVars>>

SenderStep ==
  \/ SenderLoopHead \/ SenderGet \/ SenderActivate \/ SenderAwaitReady
  \/ SenderReadyCheck \/ SenderDropLock \/ SenderDrop \/ WriteCheck
  \/ WriteStart \/ WriteBytesLeave \/ WriteReturns \/ SenderConfirmWait
  \/ SenderConfirmTimeout \/ SenderClear

-----------------------------------------------------------------------------
(* _fail_active_request, run by the reader and by stop().                  *)

AfterFail(t) == IF t = "stopper" THEN "join"
                ELSE IF failReason[t] = "SERIAL_DISCONNECTED" THEN "closed"
                ELSE "reading"

SetPc(t, pc) ==
  /\ readerPc'  = IF t = "reader"  THEN pc ELSE readerPc
  /\ stopperPc' = IF t = "stopper" THEN pc ELSE stopperPc

PcOf(t) == IF t = "reader" THEN readerPc ELSE stopperPc

FailActiveLock(t) ==
  /\ PcOf(t) = "fail" /\ activeLock = "free"
  /\ IF active = NoReq
       THEN SetPc(t, AfterFail(t)) /\ UNCHANGED <<active, activeLock>>
     ELSE IF Done(active)
       THEN active' = NoReq /\ SetPc(t, AfterFail(t)) /\ UNCHANGED activeLock
       ELSE activeLock' = t /\ SetPc(t, "failing") /\ UNCHANGED active
  /\ UNCHANGED <<accepting, stopSet, inFlight, queue, linkVars, reqVars,
                 callerPc, senderVars, candidate, verdict, failReason,
                 modemVars, histVars>>

FailActiveComplete(t) ==
  /\ PcOf(t) = "failing"
  /\ CompleteEither(active, failReason[t])
  /\ active' = NoReq /\ activeLock' = "free" /\ SetPc(t, AfterFail(t))
  /\ UNCHANGED <<accepting, stopSet, queue, linkVars, writeStarted, expired,
                 callerPc, senderVars, candidate, verdict, failReason,
                 modemVars, histVars>>

-----------------------------------------------------------------------------
(* _reader_loop, _connect_and_read, _handle_line.                          *)

ReaderOpens ==
  /\ readerPc = "closed" /\ ~stopSet /\ InFlightLockFree
  /\ serOpen' = TRUE /\ connected' = TRUE /\ readerPc' = "reading"
  /\ UNCHANGED <<lockVars, queue, gsmReady, reqVars, callerPc, senderVars,
                 candidate, verdict, stopperPc, failReason, modemVars,
                 histVars>>

\* The port cannot be opened: whatever the sender holds is failed.
ReaderOpenFails ==
  /\ readerPc = "closed" /\ ~stopSet
  /\ connected' = FALSE /\ gsmReady' = FALSE /\ readerPc' = "fail"
  /\ failReason' = [failReason EXCEPT !["reader"] = "SERIAL_DISCONNECTED"]
  /\ UNCHANGED <<lockVars, queue, serOpen, reqVars, callerPc, senderVars,
                 candidate, verdict, stopperPc, modemVars, histVars>>

\* A read error: the port is closed, unread lines are gone, then the retry.
ReaderLosesPort ==
  /\ readerPc = "reading" /\ ~stopSet /\ InFlightLockFree
  /\ events < MaxEvents /\ events' = events + 1
  /\ serOpen' = FALSE /\ connected' = FALSE /\ gsmReady' = FALSE
  /\ fromModem' = <<>> /\ readerPc' = "fail"
  /\ failReason' = [failReason EXCEPT !["reader"] = "SERIAL_DISCONNECTED"]
  /\ UNCHANGED <<lockVars, queue, reqVars, callerPc, senderVars, candidate,
                 verdict, stopperPc, toModem, transmitted, histVars>>

\* stop() was called: the read loop ends, the port is closed, the thread too.
ReaderExits ==
  /\ readerPc \in {"reading", "closed"} /\ stopSet /\ InFlightLockFree
  /\ serOpen' = FALSE /\ connected' = FALSE /\ gsmReady' = FALSE
  /\ fromModem' = <<>> /\ readerPc' = "exited"
  /\ UNCHANGED <<lockVars, queue, reqVars, callerPc, senderVars, candidate,
                 verdict, stopperPc, failReason, toModem, events,
                 transmitted, histVars>>

HandleGsmReady ==
  /\ readerPc = "reading" /\ fromModem # <<>>
  /\ Head(fromModem).kind = "GSM_READY"
  /\ gsmReady' = TRUE
  /\ fromModem' = Tail(fromModem)
  /\ UNCHANGED <<lockVars, queue, serOpen, connected, reqVars, callerPc,
                 senderVars, readerVars, stopperPc, failReason, toModem,
                 events, transmitted, histVars>>

HandleNetworkOrSimLoss ==
  /\ readerPc = "reading" /\ fromModem # <<>>
  /\ Head(fromModem).kind \in LossKinds
  /\ gsmReady' = FALSE /\ readerPc' = "fail"
  /\ failReason' = [failReason EXCEPT !["reader"] = Head(fromModem).kind]
  /\ fromModem' = Tail(fromModem)
  /\ UNCHANGED <<lockVars, queue, serOpen, connected, reqVars, callerPc,
                 senderVars, candidate, verdict, stopperPc, toModem,
                 events, transmitted, histVars>>

\* mutant: any answer resolves whatever is in flight
AnswersAnything(line) == inFlight # NoReq

\* An answer counts for the request in flight when the phone numbers agree.
AnswersInFlight(line) ==
  inFlight # NoReq /\ NumberOf[inFlight] = NumberOf[line.req]

\* _resolve_in_flight: the lock is given up before the completion.
ResolveInFlight ==
  /\ readerPc = "reading" /\ fromModem # <<>> /\ InFlightLockFree
  /\ LET line == Head(fromModem) IN
       /\ line.kind \in AnswerKinds
       /\ IF AnswersInFlight(line)
            THEN /\ readerPc' = "resolve" /\ candidate' = inFlight
                 /\ verdict' = IF line.kind = "SMS_SENT" THEN "ok"
                               ELSE "MODEM_FAILED"
            ELSE UNCHANGED readerVars
  /\ fromModem' = Tail(fromModem)
  /\ UNCHANGED <<lockVars, queue, linkVars, reqVars, callerPc, senderVars,
                 stopperPc, failReason, toModem, events,
                 transmitted, histVars>>

ResolveComplete ==
  /\ readerPc = "resolve" /\ InFlightLockFree
  /\ CompleteInFlight(candidate, verdict)
  /\ readerPc' = "reading" /\ candidate' = NoReq /\ verdict' = "none"
  /\ UNCHANGED <<accepting, stopSet, active, activeLock, queue, linkVars,
                 writeStarted, expired, callerPc, senderVars, stopperPc,
                 failReason, modemVars, histVars>>

ReaderStep ==
  \/ ReaderOpenFails \/ ReaderExits \/ HandleGsmReady
  \/ HandleNetworkOrSimLoss \/ ResolveInFlight \/ ResolveComplete
  \/ FailActiveLock("reader") \/ FailActiveComplete("reader")

-----------------------------------------------------------------------------
(* stop(): close admission, drain, fail the active request, join.          *)

StopCutoff ==
  /\ stopperPc = "idle"
  /\ accepting' = FALSE /\ stopSet' = TRUE /\ stopperPc' = "drain"
  /\ UNCHANGED <<queue, active, inFlight, activeLock, linkVars, reqVars,
                 callerPc, senderVars, readerVars, failReason, modemVars,
                 histVars>>

StopDrain ==
  /\ stopperPc = "drain"
  /\ IF queue # <<>>
       THEN /\ queue' = Tail(queue)
            /\ CompleteRequest(Head(queue), "SERVICE_STOPPING")
            /\ UNCHANGED <<stopperPc, failReason>>
       ELSE /\ stopperPc' = "fail"
            /\ failReason' = [failReason EXCEPT !["stopper"] = "SERVICE_STOPPING"]
            /\ UNCHANGED <<queue, result>>
  /\ UNCHANGED <<lockVars, linkVars, writeStarted, expired, callerPc,
                 senderVars, readerVars, modemVars, histVars>>

\* Both joins return, at the latest after their five seconds.
StopJoin ==
  /\ stopperPc = "join" /\ stopperPc' = "stopped"
  /\ UNCHANGED <<lockVars, queue, linkVars, reqVars, callerPc, senderVars,
                 readerVars, failReason, modemVars, histVars>>

StopperStep ==
  \/ StopDrain \/ StopJoin
  \/ FailActiveLock("stopper") \/ FailActiveComplete("stopper")

-----------------------------------------------------------------------------
(* The Arduino, as far as the worker can tell: it takes SEND_SMS lines in  *)
(* order, transmits or not, answers or drops them, and speaks up unasked.  *)

ModemTransmits ==
  /\ toModem # <<>>
  /\ transmitted' = transmitted \cup {Head(toModem)}
  /\ toModem' = Tail(toModem)
  /\ fromModem' = IF serOpen
                    THEN Append(fromModem, [kind |-> "SMS_SENT",
                                            req |-> Head(toModem)])
                    ELSE fromModem
  /\ UNCHANGED <<lockVars, queue, linkVars, reqVars, callerPc, senderVars,
                 readerVars, stopperPc, failReason, events, histVars>>

ModemFails ==
  /\ toModem # <<>>
  /\ toModem' = Tail(toModem)
  /\ fromModem' = IF serOpen
                    THEN Append(fromModem, [kind |-> "SMS_FAILED",
                                            req |-> Head(toModem)])
                    ELSE fromModem
  /\ UNCHANGED <<lockVars, queue, linkVars, reqVars, callerPc, senderVars,
                 readerVars, stopperPc, failReason, events,
                 transmitted, histVars>>

\* Input read while the firmware is unregistered is thrown away.
ModemDrops ==
  /\ toModem # <<>>
  /\ toModem' = Tail(toModem)
  /\ UNCHANGED <<lockVars, queue, linkVars, reqVars, callerPc, senderVars,
                 readerVars, stopperPc, failReason, fromModem,
                 events, transmitted, histVars>>

\* What the worker will believe when it has read all there is to read.
Announced ==
  LET Losses == {i \in DOMAIN fromModem :
                   fromModem[i].kind \in LossKinds}
  IN  \/ gsmReady /\ Losses = {}
      \/ \E i \in DOMAIN fromModem : /\ fromModem[i].kind = "GSM_READY"
                                    /\ \A l \in Losses : l < i

\* onRegistered(); announcing it again to a worker that knows changes nothing.
ModemAnnouncesReady ==
  /\ serOpen /\ ~Announced
  /\ fromModem' = Append(fromModem, [kind |-> "GSM_READY", req |-> NoReq])
  /\ UNCHANGED <<lockVars, queue, linkVars, reqVars, callerPc, senderVars,
                 readerVars, stopperPc, failReason, toModem, events,
                 transmitted, histVars>>

ModemLosesService(kind) ==
  /\ serOpen /\ events < MaxEvents /\ events' = events + 1
  /\ fromModem' = Append(fromModem, [kind |-> kind, req |-> NoReq])
  /\ UNCHANGED <<lockVars, queue, linkVars, reqVars, callerPc, senderVars,
                 readerVars, stopperPc, failReason, toModem,
                 transmitted, histVars>>

-----------------------------------------------------------------------------
\* Every thread has ended and every call has its answer.
Finished ==
  /\ stopperPc = "stopped" /\ senderPc = "exited" /\ readerPc = "exited"
  /\ \A r \in Requests : callerPc[r] \in {"rejected", "returned"}
  /\ toModem = <<>>
  /\ UNCHANGED vars

Next ==
  \/ \E r \in Requests : \/ SendSmsAdmits(r) \/ SendSmsRejects(r)
                         \/ DeadlinePasses(r) \/ CallerStep(r)
  \/ SenderStep \/ WriteRaises
  \/ ReaderStep \/ ReaderOpens \/ ReaderLosesPort
  \/ StopCutoff \/ StopperStep
  \/ ModemTransmits \/ ModemFails \/ ModemDrops
  \/ ModemAnnouncesReady
  \/ \E kind \in LossKinds : ModemLosesService(kind)
  \/ Finished

Spec == Init /\ [][Next]_vars

\* Threads that can run do run, and time passes.  Nothing is assumed of the
\* modem, of the serial link, or of anybody calling send_sms() or stop().
Fairness ==
  /\ \A r \in Requests : WF_vars(CallerStep(r)) /\ WF_vars(DeadlinePasses(r))
  /\ WF_vars(SenderStep) /\ WF_vars(ReaderStep) /\ WF_vars(StopperStep)

FairSpec == Spec /\ Fairness
-----------------------------------------------------------------------------
(* What the worker promises.                                               *)

ToSet(s) == {s[i] : i \in DOMAIN s}

CallerPcs  == {"idle", "waiting", "expiring", "returned", "rejected"}
SenderPcs  == {"loop", "get", "got", "await_ready", "ready_check", "drop",
               "dropping", "write_check", "write_start", "writing", "wrote", "confirm",
               "confirm_timeout", "clear", "exited"}
ReaderPcs  == {"closed", "reading", "fail", "failing", "resolve", "exited"}
StopperPcs == {"idle", "drain", "fail", "failing", "join", "stopped"}

ThreadTypeOK ==
  /\ accepting \in BOOLEAN /\ stopSet \in BOOLEAN
  /\ activeLock \in Requests \cup ThreadNames
  /\ serOpen \in BOOLEAN /\ connected \in BOOLEAN /\ gsmReady \in BOOLEAN
  /\ callerPc \in [Requests -> CallerPcs]
  /\ senderPc \in SenderPcs /\ readerPc \in ReaderPcs
  /\ stopperPc \in StopperPcs
  /\ failReason \in [{"reader", "stopper"} -> FailReasons \cup {"none"}]
  /\ events \in 0 .. MaxEvents

RequestTypeOK ==
  /\ active \in ReqOrNone /\ inFlight \in ReqOrNone
  /\ current \in ReqOrNone /\ candidate \in ReqOrNone /\ verdict \in Verdicts
  /\ result \in [Requests -> Results]
  /\ writeStarted \in [Requests -> BOOLEAN]
  /\ expired \in [Requests -> BOOLEAN]

LineTypeOK ==
  /\ queue \in Seq(Requests) /\ Len(queue) <= Capacity
  /\ toModem \in Seq(Requests) /\ fromModem \in Seq(Lines)
  /\ admitted \in Seq(Requests) /\ written \in Seq(Requests)
  /\ transmitted \in SUBSET Requests

\* Every variable keeps its type, and the queue its capacity.
TypeOK == ThreadTypeOK /\ RequestTypeOK /\ LineTypeOK

\* A caller told CLIENT_TIMEOUT may retry: the bytes of its request have not
\* gone to the Arduino and never will (_timeout_request and
\* _write_active_request decide under _active_lock who comes first).
ClientTimeoutNeverWritten ==
  \A r \in Requests : result[r] = "CLIENT_TIMEOUT" => r \notin ToSet(written)

\* Only a request that was admitted, not completed by anybody and whose write
\* has started sits in the in-flight slot, and it is the sender's current one:
\* an answer that finds it there cannot hit a finished or foreign request.
InFlightIsLive ==
  inFlight # NoReq =>
    /\ ~Done(inFlight) /\ writeStarted[inFlight]
    /\ inFlight = current /\ senderPc \in {"writing", "wrote", "confirm", "confirm_timeout"}

Succeeded == {r \in Requests : result[r] = "ok"}

\* Every ok: TRUE stands for an SMS of its own that the modem has transmitted to
\* the caller's number ("each waits for their own confirmation", send_sms): no
\* confirmation, late or foreign, is counted twice or for another number.  It is
\* the caller's own SMS where nobody else writes to that number; an answer names
\* the number, not the request (_resolve_in_flight).
SuccessWasTransmitted ==
  \E sms \in [Succeeded -> transmitted] :
    /\ \A r \in Succeeded : NumberOf[sms[r]] = NumberOf[r]
    /\ \A r, s \in Succeeded : sms[r] = sms[s] => r = s

\* A request's outcome is decided once; no late answer, timeout or shutdown
\* changes what its caller may already have read.
CompletedOnce ==
  [][\A r \in Requests : Done(r) => result'[r] = result[r]]_vars

\* Once stop() has failed the active request no further SMS is put on the
\* serial line, although the sender thread may still be running.
ShutdownQuiesces ==
  [][(stopperPc \in {"join", "stopped"}) => (written' = written)]_vars

\* Whoever was admitted gets an answer: no lost wake-up, no deadlock among the
\* locks, whatever modem, serial link and shutdown do.
EveryCallerReturns ==
  \A r \in Requests : callerPc[r] = "waiting" ~> callerPc[r] = "returned"

\* stop() ends, and both threads with it.
StopTerminates ==
  stopSet ~> stopperPc = "stopped" /\ senderPc = "exited" /\ readerPc = "exited"
-----------------------------------------------------------------------------
\* The worker implements its abstract promise (module SmsDispatch).
Dispatch == INSTANCE SmsDispatch WITH
  open <- accepting, order <- admitted, dispatched <- written, answer <- result,
  phase <- [r \in Requests |->
              IF callerPc[r] = "expiring" THEN "waiting" ELSE callerPc[r]]

\* Every step of the threads is a step of the promise or invisible in it.
ImplementsDispatch == Dispatch!Spec
=============================================================================
