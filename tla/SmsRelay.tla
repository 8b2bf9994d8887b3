------------------------------ MODULE SmsRelay ------------------------------
(***************************************************************************)
(* The SMS gateway service around the serial worker                        *)
(* (GSM-module/GSM-fastapi/api.py, sms_handler.py, database.py): the       *)
(* inbox task that relays texts between phones, the POST /sms/send         *)
(* requests, the sms_log and sms_session tables, crash, shutdown, restart. *)
(*                                                                         *)
(* The inbox task and every request run in threads of their own and meet   *)
(* in the database: a step is one transaction or one blocking call.  Of    *)
(* the worker, module SerialWorker, a call sees that its SMS is written at *)
(* most once and that ok is returned for an SMS_SENT line of that number,  *)
(* which may be the late line of an earlier SMS.  Tables survive a crash,  *)
(* the inbox queue and the threads do not; an SMS already on the serial    *)
(* line may still go out.                                                  *)
(***************************************************************************)
EXTENDS Naturals, Sequences, FiniteSets

CONSTANTS Phones, NoPhone,
          Apis,         \* POST /sms/send requests
          MaxTexts,     \* bound on the texts that arrive
          MaxChanges,   \* bound on changes to accounts by the main server
          MaxCrashes    \* bound on crashes and shutdowns

ASSUME RelayAssumption ==
  /\ NoPhone \notin Phones /\ "inbox" \notin Apis
  /\ MaxTexts \in Nat /\ MaxChanges \in Nat /\ MaxCrashes \in Nat

Threads  == Apis \cup {"inbox"}
Accounts == {"none", "ok", "banned", "unverified"}

VARIABLES
  service,     \* "up", "stopping" or "down"
  account,     \* user rows, as the gateway reads them, by phone
  session,     \* sms_session rows: stage and target, "none" when absent
  log,         \* sms_log rows, oldest first
  inbox,       \* incoming_queue: arrival numbers
  arrived,     \* history: the texts in arrival order
  accepted,    \* history: the target each text set, if it did
  pc, cur, seen, reply,       \* the inbox task: where, which text, its locals
  sendPc, row, outcome,       \* the send each thread is in
  apiPc,
  writes,      \* times the SMS of a row was put on the serial line
  transmitted, \* rows whose SMS the modem put on the air
  answers,     \* of these, the ones whose SMS_SENT line no call has taken
  changes, crashes

handlerVars == <<pc, cur, seen, reply>>
sendVars    == <<sendPc, row, outcome>>
historyVars == <<arrived, accepted>>
modemVars   == <<writes, transmitted, answers>>
vars == <<service, account, session, log, inbox, historyVars, handlerVars,
          sendVars, apiPc, modemVars, changes, crashes>>

Init ==
  /\ service = "up"
  /\ account \in [Phones -> {"ok", "none"}]
  /\ session = [p \in Phones |-> [stage |-> "none", target |-> NoPhone]]
  /\ log = <<>> /\ inbox = <<>>
  /\ arrived = <<>> /\ accepted = <<>>
  /\ pc = "idle" /\ cur = 0 /\ seen = NoPhone /\ reply = "none"
  /\ sendPc = [t \in Threads |-> "none"]
  /\ row = [t \in Threads |-> 0]
  /\ outcome = [t \in Threads |-> "none"]
  /\ apiPc = [a \in Apis |-> "idle"]
  /\ writes = <<>> /\ transmitted = {} /\ answers = {}
  /\ changes = 0 /\ crashes = 0

Running == service # "down"
Sender  == arrived[cur].from

-----------------------------------------------------------------------------
(* _send_and_log() and the body of POST /sms/send: log a pending row, call  *)
(* the worker, settle the row.                                              *)

\* database.log_message(direction="OUT", status="pending")
LogOut(t, to, kind, text) ==
  /\ sendPc[t] = "none"
  /\ log' = Append(log, [kind |-> kind, to |-> to, text |-> text,
                         status |-> "pending"])
  /\ writes' = Append(writes, 0)
  /\ sendPc' = [sendPc EXCEPT ![t] = "called"]
  /\ row' = [row EXCEPT ![t] = Len(log) + 1]

\* the worker writes the SMS to the Arduino
WorkerWrites(t) ==
  /\ Running /\ sendPc[t] = "called"
  /\ writes' = [writes EXCEPT ![row[t]] = @ + 1]
  /\ sendPc' = [sendPc EXCEPT ![t] = "written"]
  /\ UNCHANGED <<service, account, session, log, inbox, historyVars,
                 handlerVars, row, outcome, apiPc, transmitted, answers, changes,
                 crashes>>

\* What the Arduino was given it may transmit, whoever is still listening.
ModemTransmits(id) ==
  /\ writes[id] > 0 /\ id \notin transmitted
  /\ transmitted' = transmitted \cup {id} /\ answers' = answers \cup {id}
  /\ UNCHANGED <<service, account, session, log, inbox, historyVars,
                 handlerVars, sendVars, apiPc, writes, changes, crashes>>

\* mutant: send_sms() waits for the modem with no deadline
SendReturnsOnlySuccess(t) ==
  /\ Running /\ sendPc[t] = "written" /\ row[t] \in transmitted
  /\ outcome' = [outcome EXCEPT ![t] = "sent"]
  /\ sendPc' = [sendPc EXCEPT ![t] = "returned"]
  /\ UNCHANGED <<service, account, session, log, inbox, historyVars,
                 handlerVars, row, apiPc, modemVars, changes, crashes>>

\* mutant: an unconfirmed write counts as a success
SendReturnsOptimistic(t) ==
  /\ Running /\ sendPc[t] \in {"called", "written"}
  /\ outcome' = [outcome EXCEPT ![t] = IF sendPc[t] = "written" THEN "sent"
                                       ELSE "failed"]
  /\ sendPc' = [sendPc EXCEPT ![t] = "returned"]
  /\ UNCHANGED <<service, account, session, log, inbox, historyVars,
                 handlerVars, row, apiPc, modemVars, changes, crashes>>

\* send_sms() returns its verdict or raises: the queue is full, the service
\* stops, the modem is not ready.
SendReturns(t) ==
  /\ Running /\ sendPc[t] \in {"called", "written"}
  /\ \/ /\ outcome' = [outcome EXCEPT ![t] = "failed"]
        /\ UNCHANGED answers
     \/ /\ sendPc[t] = "written"
        /\ \E id \in answers : /\ log[id].to = log[row[t]].to
                               /\ answers' = answers \ {id}
        /\ outcome' = [outcome EXCEPT ![t] = "sent"]
  /\ sendPc' = [sendPc EXCEPT ![t] = "returned"]
  /\ UNCHANGED <<service, account, session, log, inbox, historyVars,
                 handlerVars, row, apiPc, writes, transmitted, changes,
                 crashes>>

\* update_message_status(); the caller then goes on.
UpdateStatus(t) ==
  /\ sendPc[t] = "returned"
  /\ log' = [log EXCEPT ![row[t]].status = outcome[t]]
  /\ sendPc' = [sendPc EXCEPT ![t] = "none"]
  /\ row' = [row EXCEPT ![t] = 0]
  /\ outcome' = [outcome EXCEPT ![t] = "none"]

-----------------------------------------------------------------------------
(* POST /sms/send                                                          *)

\* A server shutting down takes no request.
ApiSend(a, to) ==
  /\ service = "up" /\ apiPc[a] = "idle"
  /\ LogOut(a, to, "api", 0)
  /\ apiPc' = [apiPc EXCEPT ![a] = "sending"]
  /\ UNCHANGED <<service, account, session, inbox, historyVars, handlerVars,
                 outcome, transmitted, answers, changes, crashes>>

ApiAnswers(a) ==
  /\ Running /\ UpdateStatus(a)
  /\ apiPc' = [apiPc EXCEPT ![a] = "done"]
  /\ UNCHANGED <<service, account, session, inbox, historyVars, handlerVars,
                 modemVars, changes, crashes>>

-----------------------------------------------------------------------------
(* The inbox task: _inbox_drain() hands one event at a time to             *)
(* _process_incoming(), which asks handle_incoming_sms() what to do.       *)

\* mutant: the event stays in the queue while it is handled
DrainGetPeeks ==
  /\ service = "up" /\ pc = "idle" /\ inbox # <<>>
  /\ cur' = Head(inbox) /\ UNCHANGED inbox
  /\ log' = Append(log, [kind |-> "in", to |-> NoPhone, text |-> Head(inbox),
                         status |-> "received"])
  /\ writes' = Append(writes, 0)
  /\ pc' = "check_sender"
  /\ UNCHANGED <<service, account, session, historyVars, seen, reply, sendVars,
                 apiPc, transmitted, answers, changes, crashes>>

\* After task.cancel() nothing more is taken from the queue.
DrainGet ==
  /\ service = "up" /\ pc = "idle" /\ inbox # <<>>
  /\ cur' = Head(inbox) /\ inbox' = Tail(inbox)
  /\ log' = Append(log, [kind |-> "in", to |-> NoPhone, text |-> Head(inbox),
                         status |-> "received"])
  /\ writes' = Append(writes, 0)
  /\ pc' = "check_sender"
  /\ UNCHANGED <<service, account, session, historyVars, seen, reply, sendVars,
                 apiPc, transmitted, answers, changes, crashes>>

HandlerOnly == UNCHANGED <<service, account, inbox, arrived, sendVars, apiPc,
                           modemVars, changes, crashes>>

CheckSender ==
  /\ Running /\ pc = "check_sender"
  /\ IF account[Sender] = "ok"
       THEN pc' = "read_session" /\ UNCHANGED reply
       ELSE pc' = "reject" /\ reply' = "rejected"
  /\ UNCHANGED <<session, log, accepted, cur, seen>> /\ HandlerOnly

\* update_message_status(msg_id, "rejected", reason)
Reject ==
  /\ Running /\ pc = "reject"
  /\ log' = [i \in DOMAIN log |->
               IF log[i].kind = "in" /\ log[i].text = cur
                 THEN [log[i] EXCEPT !.status = "rejected"] ELSE log[i]]
  /\ pc' = "reply"
  /\ UNCHANGED <<session, accepted, cur, seen, reply>> /\ HandlerOnly

\* lookup_number() once more, then the session row, created when missing, and
\* what it says to do with the text.
ReadSession ==
  /\ Running /\ pc = "read_session"
  /\ LET stage == session[Sender].stage IN
     \/ /\ account[Sender] \in {"none", "banned"}
        /\ pc' = "reject" /\ reply' = "rejected" /\ UNCHANGED <<session, seen>>
     \/ /\ account[Sender] \in {"ok", "unverified"}
        /\ arrived[cur].target # NoPhone
        /\ pc' = "set_target" /\ UNCHANGED <<reply, seen>>
        /\ session' = [session EXCEPT ![Sender].stage =
                         IF @ = "none" THEN "NEW" ELSE @]
     \/ /\ account[Sender] \in {"ok", "unverified"}
        /\ arrived[cur].target = NoPhone /\ stage # "ACTIVE"
        /\ session' = [session EXCEPT ![Sender].stage = "AWAITING_TARGET"]
        /\ pc' = "reply" /\ reply' = "prompt" /\ UNCHANGED seen
     \/ /\ account[Sender] \in {"ok", "unverified"}
        /\ arrived[cur].target = NoPhone /\ stage = "ACTIVE"
        /\ pc' = "check_target" /\ seen' = session[Sender].target
        /\ UNCHANGED <<session, reply>>
  /\ UNCHANGED <<log, accepted, cur>> /\ HandlerOnly

\* mutant: the target is stored before it is looked at
SetTargetUnchecked ==
  /\ Running /\ pc = "set_target"
  /\ session' = [session EXCEPT ![Sender] =
                   [stage |-> "ACTIVE", target |-> arrived[cur].target]]
  /\ LET target == arrived[cur].target IN
     IF target # Sender /\ account[target] \in {"ok", "unverified"}
       THEN accepted' = [accepted EXCEPT ![cur] = target] /\ reply' = "target_set"
       ELSE reply' = "prompt" /\ UNCHANGED accepted
  /\ pc' = "reply"
  /\ UNCHANGED <<log, cur, seen>> /\ HandlerOnly

\* _cmd_set_target.  A malformed number is answered like the sender's own.
SetTarget ==
  /\ Running /\ pc = "set_target"
  /\ LET target == arrived[cur].target IN
     IF target # Sender /\ account[target] \in {"ok", "unverified"}
       THEN /\ session' = [session EXCEPT ![Sender] =
                             [stage |-> "ACTIVE", target |-> target]]
            /\ accepted' = [accepted EXCEPT ![cur] = target]
            /\ reply' = "target_set"
       ELSE reply' = "prompt" /\ UNCHANGED <<session, accepted>>
  /\ pc' = "reply"
  /\ UNCHANGED <<log, cur, seen>> /\ HandlerOnly

\* _do_forward up to notify_app()
CheckTarget ==
  /\ Running /\ pc = "check_target"
  /\ IF account[seen] = "ok"
       THEN pc' = "notify" /\ UNCHANGED reply
       ELSE pc' = "reply" /\ reply' = "target_refused"
  /\ UNCHANGED <<session, log, accepted, cur, seen>> /\ HandlerOnly

\* notify_app(): the main server takes the text, or not; nobody looks.
NotifyApp ==
  /\ Running /\ pc = "notify"
  /\ pc' = "forward" /\ reply' = "forwarded"
  /\ UNCHANGED <<session, log, accepted, cur, seen>> /\ HandlerOnly

LogForward ==
  /\ Running /\ pc = "forward" /\ LogOut("inbox", seen, "forward", cur)
  /\ pc' = "forwarding"
  /\ UNCHANGED <<service, account, session, inbox, historyVars, cur, seen,
                 reply, outcome, apiPc, transmitted, answers, changes, crashes>>

ForwardDone ==
  /\ Running /\ pc = "forwarding" /\ UpdateStatus("inbox")
  /\ pc' = "reply"
  /\ UNCHANGED <<service, account, session, inbox, historyVars, cur, seen,
                 reply, apiPc, modemVars, changes, crashes>>

LogReply ==
  /\ Running /\ pc = "reply" /\ LogOut("inbox", Sender, reply, cur)
  /\ pc' = "replying"
  /\ UNCHANGED <<service, account, session, inbox, historyVars, cur, seen,
                 reply, outcome, apiPc, transmitted, answers, changes, crashes>>

ReplyDone ==
  /\ Running /\ pc = "replying" /\ UpdateStatus("inbox")
  /\ pc' = "idle" /\ cur' = 0 /\ seen' = NoPhone /\ reply' = "none"
  /\ UNCHANGED <<service, account, session, inbox, historyVars, apiPc,
                 modemVars, changes, crashes>>

InboxStep ==
  \/ DrainGet \/ CheckSender \/ Reject \/ ReadSession \/ SetTarget
  \/ CheckTarget \/ NotifyApp \/ LogForward \/ ForwardDone \/ LogReply
  \/ ReplyDone

-----------------------------------------------------------------------------
(* The surroundings: texts arrive, accounts change, the service goes down. *)

TextArrives(from, target) ==
  /\ Running /\ Len(arrived) < MaxTexts
  /\ arrived' = Append(arrived, [from |-> from, target |-> target])
  /\ accepted' = Append(accepted, NoPhone)
  /\ inbox' = Append(inbox, Len(arrived) + 1)
  /\ UNCHANGED <<service, account, session, log, handlerVars,
                 sendVars, apiPc, modemVars, changes, crashes>>

AccountChanges(p, state) ==
  /\ changes < MaxChanges /\ account[p] # state
  /\ changes' = changes + 1
  /\ account' = [account EXCEPT ![p] = state]
  /\ UNCHANGED <<service, session, log, inbox, historyVars, handlerVars,
                 sendVars, apiPc, modemVars, crashes>>

\* DELETE /sessions/{phone}
ResetSession(p) ==
  /\ service = "up" /\ session[p].stage # "none"
  /\ session' = [session EXCEPT ![p] = [stage |-> "NEW", target |-> NoPhone]]
  /\ UNCHANGED <<service, account, log, inbox, historyVars, handlerVars,
                 sendVars, apiPc, modemVars, changes, crashes>>

ThreadsEnd ==
  /\ service' = "down" /\ inbox' = <<>>
  /\ pc' = "idle" /\ cur' = 0 /\ seen' = NoPhone /\ reply' = "none"
  /\ sendPc' = [t \in Threads |-> "none"]
  /\ row' = [t \in Threads |-> 0]
  /\ outcome' = [t \in Threads |-> "none"]
  /\ apiPc' = [a \in Apis |-> IF apiPc[a] = "sending" THEN "done" ELSE apiPc[a]]
  /\ UNCHANGED <<account, session, log, historyVars, modemVars, changes>>

Crash ==
  /\ Running /\ crashes < MaxCrashes /\ crashes' = crashes + 1
  /\ ThreadsEnd

\* Shutdown cancels the inbox task; a text being handled is finished by the
\* executor's thread, its sends refused or answered SERVICE_STOPPING.
Shutdown ==
  /\ service = "up" /\ crashes < MaxCrashes /\ crashes' = crashes + 1
  /\ service' = "stopping"
  /\ UNCHANGED <<account, session, log, inbox, historyVars, handlerVars,
                 sendVars, apiPc, modemVars, changes>>

\* The process ends when no thread has work left.
Exit ==
  /\ service = "stopping" /\ pc = "idle"
  /\ \A t \in Threads : sendPc[t] = "none"
  /\ ThreadsEnd /\ UNCHANGED crashes

\* mutant: the orphans stay pending
NoOrphans == {}

Orphans == {i \in DOMAIN log : log[i].status = "pending"}

\* mutant: what a crash left pending is sent again
RestartReplays ==
  /\ service = "down" /\ service' = "up"
  /\ IF Orphans = {} THEN UNCHANGED <<sendPc, row>>
     ELSE \E i \in Orphans : /\ sendPc' = [sendPc EXCEPT !["inbox"] = "called"]
                             /\ row' = [row EXCEPT !["inbox"] = i]
  /\ UNCHANGED <<account, session, log, inbox, historyVars, handlerVars,
                 outcome, apiPc, modemVars, changes, crashes>>

\* lifespan(): fail_orphaned_pending_messages() runs before the worker starts.
Restart ==
  /\ service = "down" /\ service' = "up"
  /\ log' = [i \in DOMAIN log |->
               IF i \in Orphans THEN [log[i] EXCEPT !.status = "failed"]
                                ELSE log[i]]
  /\ UNCHANGED <<account, session, inbox, historyVars, handlerVars, sendVars,
                 apiPc, modemVars, changes, crashes>>

Next ==
  \/ \E t \in Threads : WorkerWrites(t) \/ SendReturns(t)
  \/ \E id \in DOMAIN writes : ModemTransmits(id)
  \/ \E a \in Apis, to \in Phones : ApiSend(a, to)
  \/ \E a \in Apis : ApiAnswers(a)
  \/ InboxStep
  \/ \E from \in Phones, target \in Phones \cup {NoPhone} :
       TextArrives(from, target)
  \/ \E p \in Phones, state \in Accounts : AccountChanges(p, state)
  \/ \E p \in Phones : ResetSession(p)
  \/ Crash \/ Shutdown \/ Exit \/ Restart

Spec == Init /\ [][Next]_vars

\* The inbox task and the sends it waits for are scheduled, and a service that
\* is down is restarted (docker-compose restarts the container).
Fairness ==
  /\ WF_vars(InboxStep) /\ WF_vars(Exit) /\ WF_vars(Restart)
  /\ WF_vars(SendReturns("inbox")) /\ \A a \in Apis : WF_vars(SendReturns(a))
  /\ \A a \in Apis : WF_vars(ApiAnswers(a))

FairSpec == Spec /\ Fairness

-----------------------------------------------------------------------------
Statuses == {"received", "rejected", "pending", "sent", "failed"}
Rows == [kind : {"in", "api", "forward", "rejected", "prompt", "target_set",
                 "target_refused", "forwarded"},
         to : Phones \cup {NoPhone}, text : 0 .. MaxTexts, status : Statuses]

\* Every variable keeps its type.
TypeOK ==
  /\ service \in {"up", "stopping", "down"}
  /\ account \in [Phones -> Accounts]
  /\ session \in [Phones -> [stage : {"none", "NEW", "AWAITING_TARGET", "ACTIVE"},
                             target : Phones \cup {NoPhone}]]
  /\ log \in Seq(Rows) /\ DOMAIN writes = DOMAIN log
  /\ transmitted \subseteq DOMAIN log /\ cur \in 0 .. Len(arrived)
  /\ \A t \in Threads : row[t] \in 0 .. Len(log)
  /\ seen \in Phones \cup {NoPhone}

\* While the service runs, every row still pending belongs to a send that is
\* under way: none is left behind by a crash, an error or a shutdown.
PendingHasOwner ==
  service = "up" =>
    \A i \in DOMAIN log : log[i].status = "pending" =>
      \E t \in Threads : row[t] = i /\ sendPc[t] # "none"

\* The audit log claims no more deliveries to a number than the modem made,
\* whatever line answered which call, across crashes and restarts.
SentWasTransmitted ==
  \A p \in Phones :
    Cardinality({i \in DOMAIN log : log[i].status = "sent" /\ log[i].to = p})
      <= Cardinality({i \in transmitted : log[i].to = p})

\* No SMS is put on the line twice, across crashes and restarts ("replay could
\* deliver duplicate emergency messages").
WrittenOnce == \A i \in DOMAIN writes : writes[i] <= 1

\* A text is relayed at most once and answered at most once.
HandledOnce ==
  \A i, j \in DOMAIN log :
    (i # j /\ log[i].text = log[j].text /\ log[i].kind = log[j].kind)
      => log[i].kind = "api"

\* A text goes to the target its sender chose last before sending it, with
\* sessions reset, accounts changed and the service restarted in between.
Chosen(n) ==
  LET choices == {m \in 1 .. n - 1 : /\ arrived[m].from = arrived[n].from
                                     /\ accepted[m] # NoPhone}
  IN  IF choices = {} THEN NoPhone
      ELSE accepted[CHOOSE m \in choices : \A k \in choices : k <= m]

ForwardFollowsTarget ==
  \A i \in DOMAIN log : log[i].kind = "forward" => log[i].to = Chosen(log[i].text)

\* A text the task has taken is answered, or its handling died with a crash.
EveryTextAnswered ==
  \A n \in 1 .. MaxTexts :
    (cur = n) ~> (cur # n /\ \A i \in DOMAIN log :
                               log[i].text = n => log[i].status # "pending")
=============================================================================
