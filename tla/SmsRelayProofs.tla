--------------------------- MODULE SmsRelayProofs ---------------------------
(***************************************************************************)
(* What holds of the gateway service for any phones, requests, texts,      *)
(* changes to accounts and crashes: every safety property of SmsRelay.     *)
(*                                                                         *)
(* The invariant has four parts.  SendInv ties a row of sms_log to the     *)
(* thread that sends it, from which a pending row has an owner and is      *)
(* written at most once.  OnceInv orders the texts: handled, in hand, in   *)
(* the queue.  TargetInv says which earlier text a session's target comes  *)
(* from.  ClaimInv counts, by number, the rows that claim a delivery and   *)
(* the SMS_SENT lines still to be taken against what the modem sent.       *)
(***************************************************************************)
EXTENDS SmsRelay, FiniteSetTheorems, TLAPS

Replies == {"rejected", "prompt", "target_set", "target_refused", "forwarded"}

Places == {"idle", "check_sender", "reject", "read_session", "set_target",
           "check_target", "notify", "forward", "forwarding", "reply",
           "replying"}

StoreInv ==
  /\ service \in {"up", "stopping", "down"}
  /\ account \in [Phones -> Accounts]
  /\ session \in [Phones -> [stage : {"none", "NEW", "AWAITING_TARGET", "ACTIVE"},
                             target : Phones \cup {NoPhone}]]
  /\ log \in Seq(Rows) /\ writes \in Seq(Nat) /\ Len(writes) = Len(log)
  /\ transmitted \subseteq 1 .. Len(log) /\ answers \subseteq 1 .. Len(log)
  /\ changes \in Nat /\ crashes \in Nat

TextInv ==
  /\ arrived \in Seq([from : Phones, target : Phones \cup {NoPhone}])
  /\ accepted \in Seq(Phones \cup {NoPhone})
  /\ Len(accepted) = Len(arrived) /\ Len(arrived) <= MaxTexts
  /\ inbox \in Seq(1 .. Len(arrived))

HandlerInv ==
  /\ pc \in Places /\ cur \in 0 .. Len(arrived)
  /\ seen \in Phones \cup {NoPhone} /\ reply \in Replies \cup {"none"}
  /\ pc # "idle" => cur # 0
  /\ pc \in {"reject", "forward", "forwarding", "reply", "replying"} =>
       reply \in Replies
  /\ pc \in {"check_target", "notify", "forward"} => seen \in Phones
  /\ pc = "set_target" => arrived[cur].target # NoPhone
  /\ service = "down" => pc = "idle" /\ inbox = <<>>

\* Where a thread is in its send, and where in its own work.
ThreadInv ==
  /\ sendPc \in [Threads -> {"none", "called", "written", "returned"}]
  /\ row \in [Threads -> Nat]
  /\ outcome \in [Threads -> {"none", "sent", "failed"}]
  /\ apiPc \in [Apis -> {"idle", "sending", "done"}]
  /\ sendPc["inbox"] # "none" <=> pc \in {"forwarding", "replying"}
  /\ \A a \in Apis : sendPc[a] # "none" <=> apiPc[a] = "sending"
  /\ service = "down" => \A t \in Threads : sendPc[t] = "none"

\* A thread in a send has a pending row of its own, unwritten until the worker
\* has written it.
SendInv ==
  /\ \A t \in Threads :
       sendPc[t] # "none" =>
         /\ row[t] \in 1 .. Len(log) /\ log[row[t]].status = "pending"
         /\ sendPc[t] = "called" => writes[row[t]] = 0
         /\ sendPc[t] = "returned" => outcome[t] # "none"
  /\ \A t, u \in Threads :
       (sendPc[t] # "none" /\ sendPc[u] # "none" /\ row[t] = row[u]) => t = u

RowInv ==
  /\ service # "down" =>
       \A i \in 1 .. Len(log) : log[i].status = "pending" =>
         \E t \in Threads : row[t] = i /\ sendPc[t] # "none"
  /\ \A i \in 1 .. Len(log) : log[i].kind = "in" => log[i].status # "pending"
  /\ \A i \in 1 .. Len(log) : log[i].to = NoPhone => log[i].kind = "in"

\* The texts are handled in the order of their arrival, each step of one once.
OnceInv ==
  /\ \A i, j \in 1 .. Len(inbox) : i < j => inbox[i] < inbox[j]
  /\ \A i \in 1 .. Len(inbox) : cur < inbox[i]
  /\ \A i \in 1 .. Len(log) : log[i].kind # "api" =>
       /\ log[i].text \in 1 .. Len(arrived)
       /\ \A j \in 1 .. Len(inbox) : log[i].text < inbox[j]
       /\ cur # 0 => log[i].text <= cur
       /\ log[i].text = cur =>
            \/ log[i].kind = "in"
            \/ log[i].kind = "forward" /\ pc \in {"forwarding", "reply", "replying"}
            \/ log[i].kind = reply /\ pc = "replying"
  /\ \A i, j \in 1 .. Len(log) :
       (i # j /\ log[i].text = log[j].text /\ log[i].kind = log[j].kind)
         => log[i].kind = "api"

\* p's last choice is q, made by a text that was handled before any other text
\* that set a target.
LastChoice(p, q) ==
  \E m \in 1 .. Len(arrived) :
    /\ arrived[m].from = p /\ accepted[m] = q /\ q # NoPhone
    /\ \A k \in 1 .. Len(arrived) :
         (arrived[k].from = p /\ accepted[k] # NoPhone) => k <= m

\* q is the last choice made before text n by the phone that sent it.
ChoiceBefore(n, q) ==
  \E m \in 1 .. n - 1 :
    /\ arrived[m].from = arrived[n].from /\ accepted[m] = q /\ q # NoPhone
    /\ \A k \in 1 .. n - 1 :
         (arrived[k].from = arrived[n].from /\ accepted[k] # NoPhone) => k <= m

ChoiceOrder ==
  \A k \in 1 .. Len(arrived) : accepted[k] # NoPhone =>
    /\ \A i \in 1 .. Len(inbox) : k < inbox[i]
    /\ cur # 0 => k <= cur
    /\ k = cur => pc \in {"reply", "replying"}

SessionTarget ==
  \A p \in Phones :
    session[p].stage = "ACTIVE" => LastChoice(p, session[p].target)

SeenTarget ==
  pc \in {"check_target", "notify", "forward"} => LastChoice(Sender, seen)

ForwardTarget ==
  \A i \in 1 .. Len(log) :
    log[i].kind = "forward" => ChoiceBefore(log[i].text, log[i].to)

TargetInv == ChoiceOrder /\ SessionTarget /\ SeenTarget /\ ForwardTarget

\* Rows that say, or whose thread is about to say, that an SMS to p went out.
Claims(p) ==
  {i \in 1 .. Len(log) :
     /\ log[i].to = p
     /\ \/ log[i].status = "sent"
        \/ \E t \in Threads : /\ row[t] = i /\ sendPc[t] = "returned"
                              /\ outcome[t] = "sent"}

AnswersTo(p) == {i \in answers : log[i].to = p}
AiredTo(p)   == {i \in transmitted : log[i].to = p}

ClaimInv == \A p \in Phones :
  Cardinality(Claims(p)) + Cardinality(AnswersTo(p)) <= Cardinality(AiredTo(p))

TypeInv == StoreInv /\ TextInv /\ HandlerInv /\ ThreadInv

IInv == /\ TypeInv /\ SendInv /\ RowInv /\ WrittenOnce
        /\ OnceInv /\ TargetInv /\ ClaimInv

-----------------------------------------------------------------------------
(* What the statements on sms_log do to its rows                           *)

SameBut(hit, status) ==
  /\ Len(log') = Len(log)
  /\ \A j \in 1 .. Len(log) :
       /\ log'[j].kind = log[j].kind /\ log'[j].to = log[j].to
       /\ log'[j].text = log[j].text
       /\ log'[j].status = IF j \in hit THEN status ELSE log[j].status

\* A row and its count of writes are added.
RowAdded(new) ==
  /\ log' \in Seq(Rows) /\ Len(log') = Len(log) + 1 /\ log'[Len(log) + 1] = new
  /\ \A j \in 1 .. Len(log) : log'[j] = log[j]
  /\ writes' \in Seq(Nat) /\ Len(writes') = Len(log) + 1
  /\ writes'[Len(log) + 1] = 0
  /\ \A j \in 1 .. Len(log) : writes'[j] = writes[j]

\* An UPDATE of the status of some rows changes nothing else.
LEMMA Marked ==
  ASSUME log \in Seq(Rows), NEW hit \in SUBSET (1 .. Len(log)),
         NEW status \in Statuses,
         log' = [j \in DOMAIN log |->
                   IF j \in hit THEN [log[j] EXCEPT !.status = status]
                                ELSE log[j]]
  PROVE  log' \in Seq(Rows) /\ SameBut(hit, status)
<1>1. DOMAIN log = 1 .. Len(log) /\ Len(log) \in Nat
  OBVIOUS
<1>2. \A j \in 1 .. Len(log) : log[j] \in Rows
  OBVIOUS
<1>3. \A j \in 1 .. Len(log) : [log[j] EXCEPT !.status = status] \in Rows
  BY <1>2 DEF Rows
<1>4. log' \in [1 .. Len(log) -> Rows]
  BY <1>1, <1>2, <1>3
<1>5. log' \in Seq(Rows) /\ Len(log') = Len(log)
  BY <1>1, <1>4
<1>6. ASSUME NEW j \in 1 .. Len(log)
      PROVE  /\ log'[j].kind = log[j].kind /\ log'[j].to = log[j].to
             /\ log'[j].text = log[j].text
             /\ log'[j].status = IF j \in hit THEN status ELSE log[j].status
  <2>1. log'[j] = IF j \in hit THEN [log[j] EXCEPT !.status = status] ELSE log[j]
    BY <1>1
  <2>2. log[j] \in Rows
    BY <1>2
  <2> QED
    BY <2>1, <2>2 DEF Rows
<1> QED
  BY <1>5, <1>6 DEF SameBut

LEMMA Settled ==
  ASSUME log \in Seq(Rows), NEW t \in Threads, row[t] \in 1 .. Len(log),
         outcome[t] \in {"sent", "failed"}, UpdateStatus(t)
  PROVE  log' \in Seq(Rows) /\ SameBut({row[t]}, outcome[t])
<1>1. DOMAIN log = 1 .. Len(log)
  OBVIOUS
<1>2. log' = [log EXCEPT ![row[t]].status = outcome[t]]
  BY DEF UpdateStatus
<1>3. log' = [j \in DOMAIN log |->
                IF j \in {row[t]} THEN [log[j] EXCEPT !.status = outcome[t]]
                                  ELSE log[j]]
  BY <1>1, <1>2
<1>4. outcome[t] \in Statuses /\ {row[t]} \in SUBSET (1 .. Len(log))
  BY DEF Statuses
<1> QED
  BY <1>3, <1>4, Marked

\* An INSERT leaves the rows there are.
LEMMA Logged ==
  ASSUME StoreInv, NEW new \in Rows, log' = Append(log, new),
         writes' = Append(writes, 0)
  PROVE  RowAdded(new)
<1>1. log \in Seq(Rows) /\ writes \in Seq(Nat) /\ Len(writes) = Len(log)
  BY DEF StoreInv
<1>2. /\ log' \in Seq(Rows) /\ Len(log') = Len(log) + 1
      /\ log'[Len(log) + 1] = new
      /\ \A j \in 1 .. Len(log) : log'[j] = log[j]
  BY <1>1
<1>3. /\ writes' \in Seq(Nat) /\ Len(writes') = Len(log) + 1
      /\ writes'[Len(log) + 1] = 0
      /\ \A j \in 1 .. Len(log) : writes'[j] = writes[j]
  BY <1>1
<1> QED
  BY <1>2, <1>3 DEF RowAdded

LEMMA SendLogged ==
  ASSUME StoreInv, NEW t \in Threads, NEW to \in Phones,
         NEW kind \in {"api", "forward"} \cup Replies,
         NEW text \in 0 .. MaxTexts, LogOut(t, to, kind, text)
  PROVE  RowAdded([kind |-> kind, to |-> to, text |-> text, status |-> "pending"])
<1>1. [kind |-> kind, to |-> to, text |-> text, status |-> "pending"] \in Rows
  BY DEF Rows, Statuses, Replies
<1> QED
  BY <1>1, Logged DEF LogOut

LEMMA TextLogged ==
  ASSUME StoreInv, TextInv, DrainGet
  PROVE  /\ cur' = inbox[1] /\ inbox' = Tail(inbox) /\ Len(inbox) > 0
         /\ RowAdded([kind |-> "in", to |-> NoPhone, text |-> cur',
                      status |-> "received"])
<1>1. cur' = inbox[1] /\ inbox' = Tail(inbox) /\ Len(inbox) > 0
  BY DEF DrainGet, TextInv
<1>2. cur' \in 0 .. MaxTexts
  BY <1>1, RelayAssumption DEF TextInv
<1>3. [kind |-> "in", to |-> NoPhone, text |-> cur', status |-> "received"] \in Rows
  BY <1>2 DEF Rows, Statuses
<1>4. /\ log' = Append(log, [kind |-> "in", to |-> NoPhone, text |-> cur',
                             status |-> "received"])
      /\ writes' = Append(writes, 0)
  BY DEF DrainGet
<1>5. RowAdded([kind |-> "in", to |-> NoPhone, text |-> cur',
                status |-> "received"])
  BY <1>3, <1>4, Logged
<1> QED
  BY <1>1, <1>5

\* A text in hand has a sender, and the target it names is a number or none.
LEMMA InHand ==
  ASSUME TypeInv, pc # "idle"
  PROVE  /\ cur \in 1 .. Len(arrived) /\ cur \in 1 .. MaxTexts
         /\ Sender \in Phones /\ arrived[cur].target \in Phones \cup {NoPhone}
<1>1. cur \in 1 .. Len(arrived) /\ cur \in 1 .. MaxTexts
  BY RelayAssumption DEF TypeInv, HandlerInv, TextInv
<1>2. arrived \in Seq([from : Phones, target : Phones \cup {NoPhone}])
  BY DEF TypeInv, TextInv
<1>3. arrived[cur] \in [from : Phones, target : Phones \cup {NoPhone}]
  <2> DEFINE Texts == [from : Phones, target : Phones \cup {NoPhone}]
  <2>1. arrived \in Seq(Texts)
    BY <1>2
  <2> HIDE DEF Texts
  <2>2. arrived[cur] \in Texts
    BY <1>1, <2>1
  <2> QED
    BY <2>2 DEF Texts
<1> QED
  BY <1>1, <1>3 DEF Sender

LEMMA ReplyLogged ==
  ASSUME TypeInv, LogReply
  PROVE  /\ Sender \in Phones /\ reply \in Replies
         /\ RowAdded([kind |-> reply, to |-> Sender, text |-> cur,
                      status |-> "pending"])
<1>1. pc = "reply" /\ LogOut("inbox", Sender, reply, cur)
  BY DEF LogReply
<1>2. reply \in Replies /\ StoreInv /\ "inbox" \in Threads
  BY <1>1 DEF TypeInv, HandlerInv, Threads
<1>3. Sender \in Phones /\ cur \in 0 .. MaxTexts
  BY <1>1, InHand, RelayAssumption
<1> QED
  BY <1>1, <1>2, <1>3, SendLogged

LEMMA ForwardLogged ==
  ASSUME TypeInv, LogForward
  PROVE  /\ seen \in Phones
         /\ RowAdded([kind |-> "forward", to |-> seen, text |-> cur,
                      status |-> "pending"])
<1>1. pc = "forward" /\ LogOut("inbox", seen, "forward", cur)
  BY DEF LogForward
<1>2. seen \in Phones /\ StoreInv /\ "inbox" \in Threads
  BY <1>1 DEF TypeInv, HandlerInv, Threads
<1>3. cur \in 0 .. MaxTexts
  BY <1>1, InHand, RelayAssumption
<1> QED
  BY <1>1, <1>2, <1>3, SendLogged

\* The rows a step marks in sms_log, and how.
LEMMA RejectMarks ==
  ASSUME StoreInv, Reject
  PROVE  /\ log' \in Seq(Rows)
         /\ SameBut({i \in 1 .. Len(log) : log[i].kind = "in" /\ log[i].text = cur},
                    "rejected")
<1> DEFINE hit == {i \in 1 .. Len(log) : log[i].kind = "in" /\ log[i].text = cur}
<1>1. log \in Seq(Rows) /\ DOMAIN log = 1 .. Len(log)
  BY DEF StoreInv
<1>2. log' = [i \in DOMAIN log |->
                IF log[i].kind = "in" /\ log[i].text = cur
                  THEN [log[i] EXCEPT !.status = "rejected"] ELSE log[i]]
  BY DEF Reject
<1>3. \A i \in DOMAIN log :
        (log[i].kind = "in" /\ log[i].text = cur) <=> i \in hit
  BY <1>1
<1>4. log' = [j \in DOMAIN log |->
                IF j \in hit THEN [log[j] EXCEPT !.status = "rejected"]
                             ELSE log[j]]
  BY <1>2, <1>3
<1>5. hit \in SUBSET (1 .. Len(log)) /\ "rejected" \in Statuses
  BY DEF Statuses
<1> HIDE DEF hit
<1>6. log' \in Seq(Rows) /\ SameBut(hit, "rejected")
  BY <1>1, <1>4, <1>5, Marked
<1> QED
  BY <1>6 DEF hit

LEMMA RestartMarks ==
  ASSUME StoreInv, Restart
  PROVE  log' \in Seq(Rows) /\ SameBut(Orphans, "failed")
<1>1. log \in Seq(Rows) /\ DOMAIN log = 1 .. Len(log)
  BY DEF StoreInv
<1>2. log' = [j \in DOMAIN log |->
                IF j \in Orphans THEN [log[j] EXCEPT !.status = "failed"]
                                 ELSE log[j]]
  BY DEF Restart
<1>3. Orphans \in SUBSET (1 .. Len(log)) /\ "failed" \in Statuses
  BY <1>1 DEF Orphans, Statuses
<1> QED
  BY <1>1, <1>2, <1>3, Marked

LEMMA SettleMarks ==
  ASSUME IInv, NEW t \in Threads, UpdateStatus(t)
  PROVE  /\ log' \in Seq(Rows) /\ SameBut({row[t]}, outcome[t])
         /\ sendPc[t] = "returned" /\ row[t] \in 1 .. Len(log)
         /\ outcome[t] \in {"sent", "failed"}
<1>1. sendPc[t] = "returned" /\ log \in Seq(Rows)
  BY DEF UpdateStatus, IInv, TypeInv, StoreInv
<1>2. row[t] \in 1 .. Len(log) /\ outcome[t] \in {"sent", "failed"}
  BY <1>1 DEF IInv, TypeInv, ThreadInv, SendInv
<1> QED
  BY <1>1, <1>2, Settled

-----------------------------------------------------------------------------
(* Every variable keeps its type                                           *)

LEMMA StoreStep ==
  ASSUME IInv, Next
  PROVE  StoreInv'
<1>1. ASSUME NEW t \in Threads, WorkerWrites(t)
      PROVE  StoreInv'
  BY <1>1 DEF WorkerWrites, handlerVars, historyVars, Running, IInv, TypeInv,
       StoreInv, ThreadInv, SendInv
<1>2. ASSUME NEW t \in Threads, SendReturns(t)
      PROVE  StoreInv'
  BY <1>2 DEF SendReturns, handlerVars, historyVars, Running, IInv, TypeInv,
       StoreInv
<1>3. ASSUME NEW id \in DOMAIN writes, ModemTransmits(id)
      PROVE  StoreInv'
  <2>1. id \in 1 .. Len(log)
    BY DEF IInv, TypeInv, StoreInv
  <2> QED
    BY <1>3, <2>1 DEF ModemTransmits, historyVars, handlerVars, sendVars, IInv, TypeInv, StoreInv
<1>4. ASSUME NEW a \in Apis, NEW to \in Phones, ApiSend(a, to)
      PROVE  StoreInv'
  <2>1. /\ LogOut(a, to, "api", 0) /\ a \in Threads
        /\ 0 \in 0 .. MaxTexts /\ StoreInv
    BY <1>4, RelayAssumption DEF ApiSend, Threads, IInv, TypeInv
  <2>2. RowAdded([kind |-> "api", to |-> to, text |-> 0, status |-> "pending"])
    BY <2>1, SendLogged
  <2> QED
    BY <1>4, <2>2 DEF ApiSend, RowAdded, IInv, TypeInv, StoreInv
<1>5. ASSUME NEW a \in Apis, ApiAnswers(a)
      PROVE  StoreInv'
  <2>1. UpdateStatus(a) /\ a \in Threads
    BY <1>5 DEF ApiAnswers, Threads
  <2>2. log' \in Seq(Rows) /\ Len(log') = Len(log)
    BY <2>1, SettleMarks DEF SameBut
  <2> QED
    BY <1>5, <2>2 DEF ApiAnswers, modemVars, IInv, TypeInv, StoreInv
<1>6. CASE DrainGet
  <2> QED
    BY <1>6, TextLogged DEF DrainGet, RowAdded, IInv, TypeInv, StoreInv
<1>7. CASE CheckSender
  BY <1>7 DEF CheckSender, HandlerOnly, Running, sendVars, modemVars, IInv,
       TypeInv, StoreInv
<1>8. CASE Reject
  <2>1. log' \in Seq(Rows) /\ Len(log') = Len(log)
    BY <1>8, RejectMarks DEF IInv, TypeInv, SameBut
  <2> QED
    BY <1>8, <2>1 DEF Reject, HandlerOnly, modemVars, IInv, TypeInv, StoreInv
<1>9. CASE ReadSession
  <2> DEFINE Stages == {"none", "NEW", "AWAITING_TARGET", "ACTIVE"}
  <2>1. Sender \in Phones
    BY <1>9, InHand DEF ReadSession, IInv
  <2>2. session \in [Phones -> [stage : Stages, target : Phones \cup {NoPhone}]]
    BY DEF IInv, TypeInv, StoreInv
  <2>3. \A s \in Stages : [session EXCEPT ![Sender].stage = s] \in
          [Phones -> [stage : Stages, target : Phones \cup {NoPhone}]]
    BY <2>1, <2>2
  <2>4. \/ session' = session
        \/ \E s \in Stages : session' = [session EXCEPT ![Sender].stage = s]
    <3>1. session[Sender].stage \in Stages
      BY <2>1, <2>2
    <3> QED
      BY <1>9, <2>1, <2>2, <3>1 DEF ReadSession
  <2>5. session' \in [Phones -> [stage : Stages, target : Phones \cup {NoPhone}]]
    BY <2>2, <2>3, <2>4
  <2> QED
    BY <1>9, <2>5 DEF ReadSession, HandlerOnly, modemVars, IInv, TypeInv, StoreInv
<1>10. CASE SetTarget
  <2>1. /\ Sender \in Phones
        /\ arrived[cur].target \in Phones \cup {NoPhone}
    BY <1>10, InHand DEF SetTarget, IInv
  <2>2. [stage |-> "ACTIVE", target |-> arrived[cur].target] \in
          [stage : {"none", "NEW", "AWAITING_TARGET", "ACTIVE"},
           target : Phones \cup {NoPhone}]
    BY <2>1
  <2>3. \/ session' = session
        \/ session' = [session EXCEPT ![Sender] =
                         [stage |-> "ACTIVE", target |-> arrived[cur].target]]
    BY <1>10 DEF SetTarget
  <2> QED
    BY <1>10, <2>1, <2>2, <2>3
       DEF SetTarget, HandlerOnly, modemVars, IInv, TypeInv, StoreInv
<1>11. CASE CheckTarget
  BY <1>11 DEF CheckTarget, HandlerOnly, Running, sendVars, modemVars, IInv,
       TypeInv, StoreInv
<1>12. CASE NotifyApp
  BY <1>12 DEF NotifyApp, HandlerOnly, Running, sendVars, modemVars, IInv,
       TypeInv, StoreInv
<1>13. CASE LogForward
  <2> QED
    BY <1>13, ForwardLogged DEF LogForward, RowAdded, IInv, TypeInv, StoreInv
<1>14. CASE ForwardDone
  <2>1. UpdateStatus("inbox") /\ "inbox" \in Threads
    BY <1>14 DEF ForwardDone, Threads
  <2>2. log' \in Seq(Rows) /\ Len(log') = Len(log)
    BY <2>1, SettleMarks DEF SameBut
  <2> QED
    BY <1>14, <2>2 DEF ForwardDone, modemVars, IInv, TypeInv, StoreInv
<1>15. CASE LogReply
  <2> QED
    BY <1>15, ReplyLogged DEF LogReply, RowAdded, IInv, TypeInv, StoreInv
<1>16. CASE ReplyDone
  <2>1. UpdateStatus("inbox") /\ "inbox" \in Threads
    BY <1>16 DEF ReplyDone, Threads
  <2>2. log' \in Seq(Rows) /\ Len(log') = Len(log)
    BY <2>1, SettleMarks DEF SameBut
  <2> QED
    BY <1>16, <2>2 DEF ReplyDone, modemVars, IInv, TypeInv, StoreInv
<1>17. ASSUME NEW from \in Phones, NEW target \in Phones \cup {NoPhone},
             TextArrives(from, target)
      PROVE  StoreInv'
  BY <1>17 DEF TextArrives, handlerVars, sendVars, modemVars, Running, IInv,
       TypeInv, StoreInv
<1>18. ASSUME NEW p \in Phones, NEW state \in Accounts, AccountChanges(p, state)
      PROVE  StoreInv'
  BY <1>18 DEF AccountChanges, handlerVars, sendVars, historyVars, modemVars,
       IInv, TypeInv, StoreInv
<1>19. ASSUME NEW p \in Phones, ResetSession(p)
      PROVE  StoreInv'
  BY <1>19 DEF ResetSession, handlerVars, sendVars, historyVars, modemVars,
       IInv, TypeInv, StoreInv
<1>20. CASE Crash
  BY <1>20 DEF Crash, ThreadsEnd, Running, historyVars, modemVars, IInv,
       TypeInv, StoreInv
<1>21. CASE Shutdown
  BY <1>21 DEF Shutdown, handlerVars, sendVars, historyVars, modemVars, IInv,
       TypeInv, StoreInv
<1>22. CASE Exit
  BY <1>22 DEF Exit, ThreadsEnd, historyVars, modemVars, IInv, TypeInv, StoreInv
<1>23. CASE Restart
  <2>1. log' \in Seq(Rows) /\ Len(log') = Len(log)
    BY <1>23, RestartMarks DEF IInv, TypeInv, SameBut
  <2> QED
    BY <1>23, <2>1 DEF Restart, modemVars, IInv, TypeInv, StoreInv
<1> QED
  BY <1>1, <1>2, <1>3, <1>4, <1>5, <1>6, <1>7, <1>8, <1>9, <1>10, <1>11, <1>12,
     <1>13, <1>14, <1>15, <1>16, <1>17, <1>18, <1>19, <1>20, <1>21, <1>22, <1>23
     DEF Next, InboxStep

LEMMA TextStep ==
  ASSUME IInv, Next
  PROVE  TextInv'
<1>1. ASSUME NEW t \in Threads, WorkerWrites(t)
      PROVE  TextInv'
  BY <1>1 DEF WorkerWrites, handlerVars, historyVars, Running, IInv, TypeInv,
       TextInv
<1>2. ASSUME NEW t \in Threads, SendReturns(t)
      PROVE  TextInv'
  BY <1>2 DEF SendReturns, handlerVars, historyVars, Running, IInv, TypeInv,
       TextInv
<1>3. ASSUME NEW id \in DOMAIN writes, ModemTransmits(id)
      PROVE  TextInv'
  BY <1>3 DEF ModemTransmits, handlerVars, sendVars, historyVars, IInv, TypeInv,
       TextInv
<1>4. ASSUME NEW a \in Apis, NEW to \in Phones, ApiSend(a, to)
      PROVE  TextInv'
  BY <1>4 DEF ApiSend, LogOut, handlerVars, historyVars, IInv, TypeInv, TextInv
<1>5. ASSUME NEW a \in Apis, ApiAnswers(a)
      PROVE  TextInv'
  BY <1>5 DEF ApiAnswers, UpdateStatus, handlerVars, historyVars, modemVars,
       Running, IInv, TypeInv, TextInv
<1>6. CASE DrainGet
  BY <1>6 DEF DrainGet, sendVars, historyVars, IInv, TypeInv, TextInv
<1>7. CASE CheckSender
  BY <1>7 DEF CheckSender, HandlerOnly, Running, sendVars, modemVars, IInv,
       TypeInv, TextInv
<1>8. CASE Reject
  BY <1>8 DEF Reject, HandlerOnly, Running, sendVars, modemVars, IInv, TypeInv,
       TextInv
<1>9. CASE ReadSession
  BY <1>9 DEF ReadSession, HandlerOnly, Running, sendVars, modemVars, IInv,
       TypeInv, TextInv
<1>10. CASE SetTarget
  <2>1. /\ arrived' = arrived /\ inbox' = inbox
        /\ \/ accepted' = accepted
           \/ accepted' = [accepted EXCEPT ![cur] = arrived[cur].target]
    BY <1>10 DEF SetTarget, HandlerOnly
  <2>2. cur \in 1 .. Len(arrived)
    BY <1>10, InHand DEF SetTarget, IInv
  <2>3. arrived[cur].target \in Phones \cup {NoPhone}
    BY <1>10, InHand DEF SetTarget, IInv
  <2> QED
    BY <2>1, <2>2, <2>3 DEF IInv, TypeInv, TextInv
<1>11. CASE CheckTarget
  BY <1>11 DEF CheckTarget, HandlerOnly, Running, sendVars, modemVars, IInv,
       TypeInv, TextInv
<1>12. CASE NotifyApp
  BY <1>12 DEF NotifyApp, HandlerOnly, Running, sendVars, modemVars, IInv,
       TypeInv, TextInv
<1>13. CASE LogForward
  BY <1>13 DEF LogForward, LogOut, historyVars, Running, IInv, TypeInv, TextInv
<1>14. CASE ForwardDone
  BY <1>14 DEF ForwardDone, UpdateStatus, historyVars, modemVars, Running, IInv,
       TypeInv, TextInv
<1>15. CASE LogReply
  BY <1>15 DEF LogReply, LogOut, historyVars, Running, IInv, TypeInv, TextInv
<1>16. CASE ReplyDone
  BY <1>16 DEF ReplyDone, UpdateStatus, historyVars, modemVars, Running, IInv,
       TypeInv, TextInv
<1>17. ASSUME NEW from \in Phones, NEW target \in Phones \cup {NoPhone},
             TextArrives(from, target)
      PROVE  TextInv'
  BY <1>17, RelayAssumption DEF TextArrives, handlerVars, sendVars, modemVars,
       Running, IInv, TypeInv, TextInv
<1>18. ASSUME NEW p \in Phones, NEW state \in Accounts, AccountChanges(p, state)
      PROVE  TextInv'
  BY <1>18 DEF AccountChanges, handlerVars, sendVars, historyVars, modemVars,
       IInv, TypeInv, TextInv
<1>19. ASSUME NEW p \in Phones, ResetSession(p)
      PROVE  TextInv'
  BY <1>19 DEF ResetSession, handlerVars, sendVars, historyVars, modemVars,
       IInv, TypeInv, TextInv
<1>20. CASE Crash
  BY <1>20 DEF Crash, ThreadsEnd, Running, historyVars, modemVars, IInv,
       TypeInv, TextInv
<1>21. CASE Shutdown
  BY <1>21 DEF Shutdown, handlerVars, sendVars, historyVars, modemVars, IInv,
       TypeInv, TextInv
<1>22. CASE Exit
  BY <1>22 DEF Exit, ThreadsEnd, historyVars, modemVars, IInv, TypeInv, TextInv
<1>23. CASE Restart
  BY <1>23 DEF Restart, Orphans, handlerVars, sendVars, historyVars, modemVars,
       IInv, TypeInv, TextInv
<1> QED
  BY <1>1, <1>2, <1>3, <1>4, <1>5, <1>6, <1>7, <1>8, <1>9, <1>10, <1>11, <1>12,
     <1>13, <1>14, <1>15, <1>16, <1>17, <1>18, <1>19, <1>20, <1>21, <1>22, <1>23
     DEF Next, InboxStep

LEMMA HandlerStep ==
  ASSUME IInv, Next
  PROVE  HandlerInv'
<1>1. ASSUME NEW t \in Threads, WorkerWrites(t)
      PROVE  HandlerInv'
  BY <1>1 DEF WorkerWrites, handlerVars, historyVars, Running, IInv, TypeInv,
       TextInv, HandlerInv, Places, Replies
<1>2. ASSUME NEW t \in Threads, SendReturns(t)
      PROVE  HandlerInv'
  BY <1>2 DEF SendReturns, handlerVars, historyVars, Running, IInv, TypeInv,
       TextInv, HandlerInv, Places, Replies
<1>3. ASSUME NEW id \in DOMAIN writes, ModemTransmits(id)
      PROVE  HandlerInv'
  BY <1>3 DEF ModemTransmits, handlerVars, sendVars, historyVars, IInv, TypeInv,
       TextInv, HandlerInv, Places, Replies
<1>4. ASSUME NEW a \in Apis, NEW to \in Phones, ApiSend(a, to)
      PROVE  HandlerInv'
  BY <1>4 DEF ApiSend, LogOut, handlerVars, historyVars, IInv, TypeInv, TextInv,
       HandlerInv, Places, Replies
<1>5. ASSUME NEW a \in Apis, ApiAnswers(a)
      PROVE  HandlerInv'
  BY <1>5 DEF ApiAnswers, UpdateStatus, handlerVars, historyVars, modemVars,
       Running, IInv, TypeInv, TextInv, HandlerInv, Places, Replies
<1>6. CASE DrainGet
  BY <1>6 DEF DrainGet, sendVars, historyVars, IInv, TypeInv, TextInv,
       HandlerInv, Places, Replies
<1>7. CASE CheckSender
  BY <1>7 DEF CheckSender, HandlerOnly, Running, sendVars, modemVars, IInv,
       TypeInv, TextInv, HandlerInv, Places, Replies
<1>8. CASE Reject
  BY <1>8 DEF Reject, HandlerOnly, Running, sendVars, modemVars, IInv, TypeInv,
       TextInv, HandlerInv, Places, Replies
<1>9. CASE ReadSession
  <2>1. seen' \in Phones \cup {NoPhone} /\ (pc' = "check_target" => seen' \in Phones)
    <3>1. Sender \in Phones
      BY <1>9, InHand DEF ReadSession, IInv
    <3>2. session[Sender].target \in Phones \cup {NoPhone}
      BY <3>1 DEF IInv, TypeInv, StoreInv
    <3>3. session[Sender].stage = "ACTIVE" => session[Sender].target # NoPhone
      BY <3>1 DEF IInv, TargetInv, SessionTarget, LastChoice
    <3>4. seen \in Phones \cup {NoPhone}
      BY DEF IInv, TypeInv, HandlerInv
    <3> QED
      BY <1>9, <3>1, <3>2, <3>3, <3>4 DEF ReadSession
  <2> QED
    BY <1>9, <2>1 DEF ReadSession, HandlerOnly, Running, IInv, TypeInv, TextInv,
         HandlerInv, Places, Replies
<1>10. CASE SetTarget
  BY <1>10 DEF SetTarget, HandlerOnly, Running, sendVars, modemVars, IInv,
       TypeInv, TextInv, HandlerInv, Places, Replies
<1>11. CASE CheckTarget
  BY <1>11 DEF CheckTarget, HandlerOnly, Running, sendVars, modemVars, IInv,
       TypeInv, TextInv, HandlerInv, Places, Replies
<1>12. CASE NotifyApp
  BY <1>12 DEF NotifyApp, HandlerOnly, Running, sendVars, modemVars, IInv,
       TypeInv, TextInv, HandlerInv, Places, Replies
<1>13. CASE LogForward
  BY <1>13 DEF LogForward, LogOut, historyVars, Running, IInv, TypeInv, TextInv,
       HandlerInv, Places, Replies
<1>14. CASE ForwardDone
  BY <1>14 DEF ForwardDone, UpdateStatus, historyVars, modemVars, Running, IInv,
       TypeInv, TextInv, HandlerInv, Places, Replies
<1>15. CASE LogReply
  BY <1>15 DEF LogReply, LogOut, historyVars, Running, IInv, TypeInv, TextInv,
       HandlerInv, Places, Replies
<1>16. CASE ReplyDone
  BY <1>16 DEF ReplyDone, UpdateStatus, historyVars, modemVars, Running, IInv,
       TypeInv, TextInv, HandlerInv, Places, Replies
<1>17. ASSUME NEW from \in Phones, NEW target \in Phones \cup {NoPhone},
             TextArrives(from, target)
      PROVE  HandlerInv'
  BY <1>17 DEF TextArrives, handlerVars, sendVars, modemVars, Running, IInv,
       TypeInv, TextInv, HandlerInv, Places, Replies
<1>18. ASSUME NEW p \in Phones, NEW state \in Accounts, AccountChanges(p, state)
      PROVE  HandlerInv'
  BY <1>18 DEF AccountChanges, handlerVars, sendVars, historyVars, modemVars,
       IInv, TypeInv, TextInv, HandlerInv, Places, Replies
<1>19. ASSUME NEW p \in Phones, ResetSession(p)
      PROVE  HandlerInv'
  BY <1>19 DEF ResetSession, handlerVars, sendVars, historyVars, modemVars,
       IInv, TypeInv, TextInv, HandlerInv, Places, Replies
<1>20. CASE Crash
  BY <1>20 DEF Crash, ThreadsEnd, Running, historyVars, modemVars, IInv,
       TypeInv, TextInv, HandlerInv, Places, Replies
<1>21. CASE Shutdown
  BY <1>21 DEF Shutdown, handlerVars, sendVars, historyVars, modemVars, IInv,
       TypeInv, TextInv, HandlerInv, Places, Replies
<1>22. CASE Exit
  BY <1>22 DEF Exit, ThreadsEnd, historyVars, modemVars, IInv, TypeInv, TextInv,
       HandlerInv, Places, Replies
<1>23. CASE Restart
  BY <1>23 DEF Restart, Orphans, handlerVars, sendVars, historyVars, modemVars,
       IInv, TypeInv, TextInv, HandlerInv, Places, Replies
<1> QED
  BY <1>1, <1>2, <1>3, <1>4, <1>5, <1>6, <1>7, <1>8, <1>9, <1>10, <1>11, <1>12,
     <1>13, <1>14, <1>15, <1>16, <1>17, <1>18, <1>19, <1>20, <1>21, <1>22, <1>23
     DEF Next, InboxStep

LEMMA ThreadStep ==
  ASSUME IInv, Next
  PROVE  ThreadInv'
<1>1. ASSUME NEW t \in Threads, WorkerWrites(t)
      PROVE  ThreadInv'
  BY <1>1 DEF WorkerWrites, handlerVars, historyVars, Running, IInv, TypeInv,
       HandlerInv, ThreadInv, Threads
<1>2. ASSUME NEW t \in Threads, SendReturns(t)
      PROVE  ThreadInv'
  BY <1>2 DEF SendReturns, handlerVars, historyVars, Running, IInv, TypeInv,
       HandlerInv, ThreadInv, Threads
<1>3. ASSUME NEW id \in DOMAIN writes, ModemTransmits(id)
      PROVE  ThreadInv'
  BY <1>3 DEF ModemTransmits, handlerVars, sendVars, historyVars, IInv, TypeInv,
       HandlerInv, ThreadInv, Threads
<1>4. ASSUME NEW a \in Apis, NEW to \in Phones, ApiSend(a, to)
      PROVE  ThreadInv'
  BY <1>4, RelayAssumption DEF ApiSend, LogOut, handlerVars, historyVars, IInv,
       TypeInv, HandlerInv, ThreadInv, Threads, StoreInv
<1>5. ASSUME NEW a \in Apis, ApiAnswers(a)
      PROVE  ThreadInv'
  BY <1>5, RelayAssumption DEF ApiAnswers, UpdateStatus, handlerVars,
       historyVars, modemVars, Running, IInv, TypeInv, HandlerInv, ThreadInv,
       Threads
<1>6. CASE DrainGet
  BY <1>6 DEF DrainGet, sendVars, historyVars, IInv, TypeInv, HandlerInv,
       ThreadInv, Threads
<1>7. CASE CheckSender
  BY <1>7 DEF CheckSender, HandlerOnly, Running, sendVars, modemVars, IInv,
       TypeInv, HandlerInv, ThreadInv, Threads
<1>8. CASE Reject
  BY <1>8 DEF Reject, HandlerOnly, Running, sendVars, modemVars, IInv, TypeInv,
       HandlerInv, ThreadInv, Threads
<1>9. CASE ReadSession
  BY <1>9 DEF ReadSession, HandlerOnly, Running, sendVars, modemVars, IInv,
       TypeInv, HandlerInv, ThreadInv, Threads
<1>10. CASE SetTarget
  BY <1>10 DEF SetTarget, HandlerOnly, Running, sendVars, modemVars, IInv,
       TypeInv, HandlerInv, ThreadInv, Threads
<1>11. CASE CheckTarget
  BY <1>11 DEF CheckTarget, HandlerOnly, Running, sendVars, modemVars, IInv,
       TypeInv, HandlerInv, ThreadInv, Threads
<1>12. CASE NotifyApp
  BY <1>12 DEF NotifyApp, HandlerOnly, Running, sendVars, modemVars, IInv,
       TypeInv, HandlerInv, ThreadInv, Threads
<1>13. CASE LogForward
  BY <1>13, RelayAssumption DEF LogForward, LogOut, historyVars, Running, IInv,
       TypeInv, HandlerInv, ThreadInv, Threads, StoreInv
<1>14. CASE ForwardDone
  BY <1>14, RelayAssumption DEF ForwardDone, UpdateStatus, historyVars,
       modemVars, Running, IInv, TypeInv, HandlerInv, ThreadInv, Threads
<1>15. CASE LogReply
  BY <1>15, RelayAssumption DEF LogReply, LogOut, historyVars, Running, IInv,
       TypeInv, HandlerInv, ThreadInv, Threads, StoreInv
<1>16. CASE ReplyDone
  BY <1>16, RelayAssumption DEF ReplyDone, UpdateStatus, historyVars, modemVars,
       Running, IInv, TypeInv, HandlerInv, ThreadInv, Threads
<1>17. ASSUME NEW from \in Phones, NEW target \in Phones \cup {NoPhone},
             TextArrives(from, target)
      PROVE  ThreadInv'
  BY <1>17 DEF TextArrives, handlerVars, sendVars, modemVars, Running, IInv,
       TypeInv, HandlerInv, ThreadInv, Threads
<1>18. ASSUME NEW p \in Phones, NEW state \in Accounts, AccountChanges(p, state)
      PROVE  ThreadInv'
  BY <1>18 DEF AccountChanges, handlerVars, sendVars, historyVars, modemVars,
       IInv, TypeInv, HandlerInv, ThreadInv, Threads
<1>19. ASSUME NEW p \in Phones, ResetSession(p)
      PROVE  ThreadInv'
  BY <1>19 DEF ResetSession, handlerVars, sendVars, historyVars, modemVars,
       IInv, TypeInv, HandlerInv, ThreadInv, Threads
<1>20. CASE Crash
  BY <1>20 DEF Crash, ThreadsEnd, Running, historyVars, modemVars, IInv,
       TypeInv, HandlerInv, ThreadInv, Threads
<1>21. CASE Shutdown
  BY <1>21 DEF Shutdown, handlerVars, sendVars, historyVars, modemVars, IInv,
       TypeInv, HandlerInv, ThreadInv, Threads
<1>22. CASE Exit
  BY <1>22 DEF Exit, ThreadsEnd, historyVars, modemVars, IInv, TypeInv,
       HandlerInv, ThreadInv, Threads
<1>23. CASE Restart
  BY <1>23 DEF Restart, Orphans, handlerVars, sendVars, historyVars, modemVars,
       IInv, TypeInv, HandlerInv, ThreadInv, Threads
<1> QED
  BY <1>1, <1>2, <1>3, <1>4, <1>5, <1>6, <1>7, <1>8, <1>9, <1>10, <1>11, <1>12,
     <1>13, <1>14, <1>15, <1>16, <1>17, <1>18, <1>19, <1>20, <1>21, <1>22, <1>23
     DEF Next, InboxStep

-----------------------------------------------------------------------------
(* What a step does to the rows and to the sends under way                 *)

rowVars == <<log, writes, sendVars, transmitted, answers>>

\* Steps that leave the rows alone.
Quiet == UNCHANGED rowVars /\ (service' # "down" => service # "down")

\* Thread t starts a send with the new row.
Starts(t, new) ==
  /\ RowAdded(new) /\ new.status = "pending" /\ new.to \in Phones /\ new.kind # "in"
  /\ sendPc[t] = "none"
  /\ sendPc' = [sendPc EXCEPT ![t] = "called"]
  /\ row' = [row EXCEPT ![t] = Len(log) + 1]
  /\ UNCHANGED <<outcome, transmitted, answers, service>> /\ service # "down"

\* Thread t settles the row of its send.
Ends(t) ==
  /\ UpdateStatus(t) /\ SameBut({row[t]}, outcome[t])
  /\ sendPc[t] = "returned" /\ row[t] \in 1 .. Len(log)
  /\ outcome[t] \in {"sent", "failed"}
  /\ UNCHANGED <<writes, transmitted, answers, service>> /\ service # "down"

\* The inbox task logs a text, or marks the text it rejects.
Receives == /\ \E n \in 0 .. MaxTexts :
                 RowAdded([kind |-> "in", to |-> NoPhone, text |-> n,
                           status |-> "received"])
            /\ UNCHANGED <<sendVars, transmitted, answers, service>>
            /\ service # "down"
Rejects == /\ SameBut({i \in 1 .. Len(log) : log[i].kind = "in" /\ log[i].text = cur},
                      "rejected")
           /\ UNCHANGED <<writes, sendVars, transmitted, answers, service>>
           /\ service # "down"

\* The threads are gone, the rows remain.
Stops == /\ service' = "down" /\ sendPc' = [t \in Threads |-> "none"]
         /\ row' = [t \in Threads |-> 0] /\ outcome' = [t \in Threads |-> "none"]
         /\ UNCHANGED <<log, writes, transmitted, answers>>

Recovers == /\ service = "down" /\ SameBut(Orphans, "failed")
            /\ UNCHANGED <<writes, sendVars, transmitted, answers>>

RowStep ==
  \/ Quiet
  \/ \E t \in Threads : WorkerWrites(t) \/ SendReturns(t)
  \/ \E id \in DOMAIN writes : ModemTransmits(id)
  \/ \E t \in Threads, new \in Rows : Starts(t, new)
  \/ \E t \in Threads : Ends(t)
  \/ Receives \/ Rejects \/ Stops \/ Recovers

LEMMA EveryRowStep ==
  ASSUME IInv, Next
  PROVE  RowStep
<1> USE DEF RowStep
<1>1. CASE \/ CheckSender \/ ReadSession \/ SetTarget \/ CheckTarget \/ NotifyApp
  BY <1>1 DEF Quiet, rowVars, sendVars, modemVars, HandlerOnly, CheckSender,
       ReadSession, SetTarget, CheckTarget, NotifyApp
<1>2. CASE \/ \E from \in Phones, target \in Phones \cup {NoPhone} :
                TextArrives(from, target)
           \/ \E p \in Phones, state \in Accounts : AccountChanges(p, state)
           \/ \E p \in Phones : ResetSession(p)
           \/ Shutdown
  BY <1>2 DEF Quiet, rowVars, sendVars, modemVars, TextArrives, AccountChanges,
       ResetSession, Shutdown
<1>3. ASSUME NEW a \in Apis, NEW to \in Phones, ApiSend(a, to)
      PROVE  RowStep
  <2> DEFINE new == [kind |-> "api", to |-> to, text |-> 0, status |-> "pending"]
  <2>1. /\ LogOut(a, to, "api", 0) /\ a \in Threads
        /\ 0 \in 0 .. MaxTexts /\ StoreInv
    BY <1>3, RelayAssumption DEF ApiSend, Threads, IInv, TypeInv
  <2>2. RowAdded(new)
    BY <2>1, SendLogged
  <2>3. new \in Rows
    BY <2>1 DEF Rows, Statuses
  <2>4. new.status = "pending" /\ new.to \in Phones /\ new.kind # "in"
    OBVIOUS
  <2> HIDE DEF new
  <2>5. Starts(a, new)
    BY <1>3, <2>1, <2>2, <2>4 DEF Starts, ApiSend, LogOut
  <2> QED
    BY <2>1, <2>3, <2>5
<1>4. CASE LogForward
  <2> DEFINE new == [kind |-> "forward", to |-> seen, text |-> cur,
                     status |-> "pending"]
  <2>1. RowAdded(new) /\ seen \in Phones /\ "inbox" \in Threads
    BY <1>4, ForwardLogged DEF IInv, Threads
  <2>2. pc # "idle"
    BY <1>4 DEF LogForward
  <2>3. new \in Rows
    BY <2>1, <2>2, InHand, RelayAssumption DEF Rows, Statuses, IInv
  <2>4. new.status = "pending" /\ new.to \in Phones /\ new.kind # "in"
    BY <2>1
  <2> HIDE DEF new
  <2>5. Starts("inbox", new)
    BY <1>4, <2>1, <2>4 DEF Starts, LogForward, LogOut, Running
  <2> QED
    BY <2>1, <2>3, <2>5
<1>5. CASE LogReply
  <2> DEFINE new == [kind |-> reply, to |-> Sender, text |-> cur,
                     status |-> "pending"]
  <2>1. RowAdded(new) /\ Sender \in Phones /\ reply \in Replies /\ "inbox" \in Threads
    BY <1>5, ReplyLogged DEF IInv, Threads
  <2>2. pc # "idle"
    BY <1>5 DEF LogReply
  <2>3. new \in Rows
    BY <2>1, <2>2, InHand, RelayAssumption DEF Rows, Statuses, IInv, Replies
  <2>4. new.status = "pending" /\ new.to \in Phones /\ new.kind # "in"
    BY <2>1 DEF Replies
  <2> HIDE DEF new
  <2>5. Starts("inbox", new)
    BY <1>5, <2>1, <2>4 DEF Starts, LogReply, LogOut, Running
  <2> QED
    BY <2>1, <2>3, <2>5
<1>6. ASSUME NEW a \in Apis, ApiAnswers(a)
      PROVE  RowStep
  <2>1. UpdateStatus(a) /\ a \in Threads
    BY <1>6 DEF ApiAnswers, Threads
  <2>2. Ends(a)
    BY <1>6, <2>1, SettleMarks DEF Ends, ApiAnswers, modemVars, Running
  <2> QED
    BY <2>1, <2>2
<1>7. CASE ForwardDone \/ ReplyDone
  <2>1. UpdateStatus("inbox") /\ "inbox" \in Threads
    BY <1>7 DEF ForwardDone, ReplyDone, Threads
  <2>2. Ends("inbox")
    BY <1>7, <2>1, SettleMarks DEF Ends, ForwardDone, ReplyDone, modemVars, Running
  <2> QED
    BY <2>1, <2>2
<1>8. CASE DrainGet
  <2>1. cur' \in 0 .. MaxTexts
    BY <1>8, RelayAssumption, TextLogged DEF IInv, TypeInv, TextInv
  <2>2. Receives
    BY <1>8, <2>1, TextLogged DEF Receives, DrainGet, IInv, TypeInv, sendVars
  <2> QED
    BY <2>2
<1>9. CASE Reject
  <2>1. Rejects
    BY <1>9, RejectMarks DEF Rejects, Reject, HandlerOnly, modemVars, sendVars, IInv,
         TypeInv, Running
  <2> QED
    BY <2>1
<1>10. CASE Crash \/ Exit
  BY <1>10 DEF Crash, Exit, ThreadsEnd, Stops, modemVars
<1>11. CASE Restart
  <2>1. Recovers
    BY <1>11, RestartMarks DEF Recovers, Restart, modemVars, sendVars, IInv, TypeInv
  <2> QED
    BY <2>1
<1> QED
  BY <1>1, <1>2, <1>3, <1>4, <1>5, <1>6, <1>7, <1>8, <1>9, <1>10, <1>11
     DEF Next, InboxStep

-----------------------------------------------------------------------------
(* The sends and their rows                                                *)

LEMMA SendStep ==
  ASSUME IInv, RowStep, ThreadInv'
  PROVE  SendInv'
<1> USE DEF SendInv
<1>1. /\ SendInv /\ Len(log) \in Nat /\ Len(writes) = Len(log)
      /\ sendPc \in [Threads -> {"none", "called", "written", "returned"}]
      /\ row \in [Threads -> Nat]
      /\ outcome \in [Threads -> {"none", "sent", "failed"}]
  BY DEF IInv, TypeInv, StoreInv, ThreadInv
<1>2. CASE Quiet
  BY <1>1, <1>2 DEF Quiet, rowVars, sendVars
<1>3. ASSUME NEW t \in Threads, WorkerWrites(t)
      PROVE  SendInv'
  <2>1. /\ sendPc[t] = "called" /\ sendPc' = [sendPc EXCEPT ![t] = "written"]
        /\ writes' = [writes EXCEPT ![row[t]] = @ + 1]
        /\ UNCHANGED <<log, row, outcome>>
    BY <1>3 DEF WorkerWrites
  <2>2. \A u \in Threads : sendPc'[u] # "none" => sendPc[u] # "none"
    BY <1>1, <2>1
  <2>3. \A u \in Threads : sendPc'[u] = "called" => u # t /\ sendPc[u] = "called"
    BY <1>1, <2>1
  <2>4. \A u \in Threads : sendPc'[u] = "called" => writes'[row[u]] = 0
    BY <1>1, <2>1, <2>3 DEF IInv, TypeInv, StoreInv
  <2>5. \A u \in Threads : sendPc'[u] = "returned" => sendPc[u] = "returned"
    BY <1>1, <2>1
  <2> QED
    BY <1>1, <2>1, <2>2, <2>4, <2>5
<1>4. ASSUME NEW t \in Threads, SendReturns(t)
      PROVE  SendInv'
  <2>1. /\ sendPc[t] # "none" /\ sendPc' = [sendPc EXCEPT ![t] = "returned"]
        /\ \E o \in {"sent", "failed"} : outcome' = [outcome EXCEPT ![t] = o]
        /\ UNCHANGED <<log, row, writes>>
    BY <1>4 DEF SendReturns
  <2> QED
    BY <1>1, <2>1
<1>5. CASE \E id \in DOMAIN writes : ModemTransmits(id)
  BY <1>1, <1>5 DEF ModemTransmits, sendVars
<1>6. ASSUME NEW t \in Threads, NEW new \in Rows, Starts(t, new)
      PROVE  SendInv'
  <2>1. /\ sendPc' = [sendPc EXCEPT ![t] = "called"]
        /\ row' = [row EXCEPT ![t] = Len(log) + 1] /\ outcome' = outcome
        /\ sendPc[t] = "none" /\ new.status = "pending"
    BY <1>6 DEF Starts
  <2>2. /\ Len(log') = Len(log) + 1 /\ log'[Len(log) + 1] = new
        /\ \A j \in 1 .. Len(log) : log'[j] = log[j] /\ writes'[j] = writes[j]
        /\ writes'[Len(log) + 1] = 0
    BY <1>6 DEF Starts, RowAdded
  <2>3. \A u \in Threads \ {t} : /\ sendPc'[u] = sendPc[u] /\ row'[u] = row[u]
                                 /\ sendPc[u] # "none" => row[u] # Len(log) + 1
    BY <1>1, <2>1
  <2>4. sendPc'[t] = "called" /\ row'[t] = Len(log) + 1
    BY <1>1, <2>1
  <2> QED
    BY <1>1, <2>1, <2>2, <2>3, <2>4
<1>7. ASSUME NEW t \in Threads, Ends(t)
      PROVE  SendInv'
  <2>1. /\ sendPc' = [sendPc EXCEPT ![t] = "none"]
        /\ row' = [row EXCEPT ![t] = 0]
        /\ outcome' = [outcome EXCEPT ![t] = "none"] /\ writes' = writes
        /\ sendPc[t] = "returned"
    BY <1>7 DEF Ends, UpdateStatus
  <2>2. /\ Len(log') = Len(log)
        /\ \A j \in 1 .. Len(log) : j # row[t] => log'[j].status = log[j].status
    BY <1>7 DEF Ends, SameBut
  <2>3. \A u \in Threads : sendPc'[u] # "none" =>
          /\ u # t /\ sendPc'[u] = sendPc[u] /\ row'[u] = row[u]
          /\ outcome'[u] = outcome[u] /\ row[u] # row[t]
    BY <1>1, <2>1
  <2>4. ASSUME NEW u \in Threads, sendPc'[u] # "none"
        PROVE  /\ row'[u] \in 1 .. Len(log') /\ log'[row'[u]].status = "pending"
               /\ sendPc'[u] = "called" => writes'[row'[u]] = 0
               /\ sendPc'[u] = "returned" => outcome'[u] # "none"
    <3>1. /\ row[u] \in 1 .. Len(log) /\ log[row[u]].status = "pending"
          /\ sendPc[u] = "called" => writes[row[u]] = 0
          /\ sendPc[u] = "returned" => outcome[u] # "none"
      BY <1>1, <2>3, <2>4
    <3> QED
      BY <2>1, <2>2, <2>3, <2>4, <3>1
  <2>5. \A u, v \in Threads :
          (sendPc'[u] # "none" /\ sendPc'[v] # "none" /\ row'[u] = row'[v]) => u = v
    BY <1>1, <2>3
  <2> QED
    BY <2>4, <2>5
<1>8. CASE Receives
  <2>1. /\ UNCHANGED <<sendPc, row, outcome>> /\ Len(log') = Len(log) + 1
        /\ \A j \in 1 .. Len(log) : log'[j] = log[j] /\ writes'[j] = writes[j]
    BY <1>8 DEF Receives, RowAdded, sendVars
  <2> QED
    BY <1>1, <2>1
<1>9. CASE Rejects
  <2>1. /\ UNCHANGED <<sendPc, row, outcome, writes>> /\ Len(log') = Len(log)
        /\ \A j \in 1 .. Len(log) : log[j].kind # "in" =>
             log'[j].status = log[j].status
    BY <1>9 DEF Rejects, SameBut, sendVars
  <2>2. \A j \in 1 .. Len(log) : log[j].status = "pending" => log[j].kind # "in"
    BY DEF IInv, RowInv
  <2> QED
    BY <1>1, <2>1, <2>2
<1>10. CASE Stops
  <2>1. \A u \in Threads : sendPc'[u] = "none"
    BY <1>10 DEF Stops
  <2> QED
    BY <2>1
<1>11. CASE Recovers
  <2>1. \A u \in Threads : sendPc'[u] = "none"
    BY <1>11 DEF Recovers, IInv, TypeInv, ThreadInv, sendVars
  <2> QED
    BY <2>1
<1> QED
  BY <1>2, <1>3, <1>4, <1>5, <1>6, <1>7, <1>8, <1>9, <1>10, <1>11 DEF RowStep

LEMMA RowInvStep ==
  ASSUME IInv, RowStep
  PROVE  RowInv'
<1> USE DEF RowInv
<1>1. /\ RowInv /\ Len(log) \in Nat /\ NoPhone \notin Phones
      /\ sendPc \in [Threads -> {"none", "called", "written", "returned"}]
      /\ row \in [Threads -> Nat]
  BY RelayAssumption DEF IInv, TypeInv, StoreInv, ThreadInv
<1>2. CASE Quiet
  BY <1>1, <1>2 DEF Quiet, rowVars, sendVars
<1>3. ASSUME NEW t \in Threads, WorkerWrites(t) \/ SendReturns(t)
      PROVE  RowInv'
  <2>1. /\ UNCHANGED <<log, row, service>> /\ service # "down"
        /\ \E step \in {"written", "returned"} :
             sendPc' = [sendPc EXCEPT ![t] = step]
    BY <1>3 DEF WorkerWrites, SendReturns, Running
  <2>2. \A u \in Threads : sendPc[u] # "none" => sendPc'[u] # "none"
    BY <1>1, <2>1
  <2> QED
    BY <1>1, <2>1, <2>2
<1>4. CASE \E id \in DOMAIN writes : ModemTransmits(id)
  BY <1>1, <1>4 DEF ModemTransmits, sendVars
<1>5. ASSUME NEW t \in Threads, NEW new \in Rows, Starts(t, new)
      PROVE  RowInv'
  <2>1. /\ sendPc' = [sendPc EXCEPT ![t] = "called"] /\ sendPc[t] = "none"
        /\ row' = [row EXCEPT ![t] = Len(log) + 1]
        /\ new.kind # "in" /\ new.to \in Phones /\ service # "down"
    BY <1>5 DEF Starts
  <2>2. /\ Len(log') = Len(log) + 1 /\ log'[Len(log) + 1] = new
        /\ \A j \in 1 .. Len(log) : log'[j] = log[j]
    BY <1>5 DEF Starts, RowAdded
  <2>3. \A u \in Threads : sendPc[u] # "none" => /\ sendPc'[u] # "none"
                                                 /\ row'[u] = row[u]
    BY <1>1, <2>1
  <2>4. sendPc'[t] # "none" /\ row'[t] = Len(log) + 1
    BY <1>1, <2>1
  <2>5. \A i \in 1 .. Len(log') : i = Len(log) + 1 \/ i \in 1 .. Len(log)
    BY <1>1, <2>2
  <2>6. ASSUME NEW i \in 1 .. Len(log'), log'[i].status = "pending"
        PROVE  \E u \in Threads : row'[u] = i /\ sendPc'[u] # "none"
    <3>1. CASE i = Len(log) + 1
      BY <2>4, <3>1
    <3>2. CASE i \in 1 .. Len(log)
      <4>1. PICK u \in Threads : row[u] = i /\ sendPc[u] # "none"
        BY <1>1, <2>1, <2>2, <2>6, <3>2
      <4> QED
        BY <2>3, <4>1
    <3> QED
      BY <2>5, <3>1, <3>2
  <2>7. ASSUME NEW i \in 1 .. Len(log')
        PROVE  /\ log'[i].kind = "in" => log'[i].status # "pending"
               /\ log'[i].to = NoPhone => log'[i].kind = "in"
    BY <1>1, <2>1, <2>2, <2>5
  <2> QED
    BY <2>6, <2>7
<1>6. ASSUME NEW t \in Threads, Ends(t)
      PROVE  RowInv'
  <2>1. /\ sendPc' = [sendPc EXCEPT ![t] = "none"]
        /\ row' = [row EXCEPT ![t] = 0] /\ service # "down"
    BY <1>6 DEF Ends, UpdateStatus
  <2>2. /\ Len(log') = Len(log) /\ outcome[t] # "pending"
        /\ \A j \in 1 .. Len(log) :
             /\ log'[j].kind = log[j].kind /\ log'[j].to = log[j].to
             /\ log'[j].status = IF j = row[t] THEN outcome[t] ELSE log[j].status
    BY <1>6 DEF Ends, SameBut
  <2>3. \A u \in Threads \ {t} : sendPc'[u] = sendPc[u] /\ row'[u] = row[u]
    BY <1>1, <2>1
  <2>4. \A i \in 1 .. Len(log') : log'[i].status = "pending" =>
          \E u \in Threads : row'[u] = i /\ sendPc'[u] # "none"
    <3> SUFFICES ASSUME NEW i \in 1 .. Len(log), log'[i].status = "pending"
                 PROVE  \E u \in Threads : row'[u] = i /\ sendPc'[u] # "none"
      BY <2>2
    <3>1. i # row[t] /\ log[i].status = "pending"
      BY <2>2
    <3>2. PICK u \in Threads : row[u] = i /\ sendPc[u] # "none"
      BY <1>1, <2>1, <3>1
    <3> QED
      BY <2>3, <3>1, <3>2
  <2>5. \A i \in 1 .. Len(log') : log'[i].kind = "in" => log'[i].status # "pending"
    BY <1>1, <2>2
  <2> QED
    BY <1>1, <2>2, <2>4, <2>5
<1>7. CASE Receives
  <2>1. PICK new \in [kind : {"in"}, to : {NoPhone}, text : Nat,
                      status : {"received"}] : RowAdded(new)
    BY <1>7, RelayAssumption DEF Receives
  <2>2. /\ UNCHANGED <<sendPc, row, outcome>> /\ service # "down"
        /\ Len(log') = Len(log) + 1 /\ log'[Len(log) + 1] = new
        /\ \A j \in 1 .. Len(log) : log'[j] = log[j]
    BY <1>7, <2>1 DEF Receives, RowAdded, sendVars
  <2>3. new.kind = "in" /\ new.status = "received"
    BY <2>1
  <2>4. \A i \in 1 .. Len(log') : i = Len(log) + 1 \/ i \in 1 .. Len(log)
    BY <1>1, <2>2
  <2>5. \A i \in 1 .. Len(log') : log'[i].status = "pending" =>
          \E u \in Threads : row'[u] = i /\ sendPc'[u] # "none"
    BY <1>1, <2>2, <2>3, <2>4
  <2>6. ASSUME NEW i \in 1 .. Len(log')
        PROVE  /\ log'[i].kind = "in" => log'[i].status # "pending"
               /\ log'[i].to = NoPhone => log'[i].kind = "in"
    BY <1>1, <2>2, <2>3, <2>4
  <2> QED
    BY <2>5, <2>6
<1>8. CASE Rejects
  <2>1. /\ UNCHANGED <<sendPc, row>> /\ Len(log') = Len(log) /\ service # "down"
        /\ \A j \in 1 .. Len(log) :
             /\ log'[j].kind = log[j].kind /\ log'[j].to = log[j].to
             /\ log'[j].status \in {log[j].status, "rejected"}
    BY <1>8 DEF Rejects, SameBut, sendVars
  <2> QED
    BY <1>1, <2>1
<1>9. CASE Stops
  BY <1>1, <1>9 DEF Stops
<1>10. CASE Recovers
  <2>1. /\ Len(log') = Len(log)
        /\ \A j \in 1 .. Len(log) :
             /\ log'[j].kind = log[j].kind /\ log'[j].to = log[j].to
             /\ log'[j].status # "pending"
    <3>1. \A j \in 1 .. Len(log) : log[j].status = "pending" => j \in Orphans
      BY <1>1 DEF Orphans, IInv, TypeInv, StoreInv
    <3> QED
      BY <1>10, <3>1 DEF Recovers, SameBut
  <2> QED
    BY <1>1, <2>1
<1> QED
  BY <1>2, <1>3, <1>4, <1>5, <1>6, <1>7, <1>8, <1>9, <1>10 DEF RowStep

\* Only an SMS no one has written is written.
LEMMA WrittenStep ==
  ASSUME IInv, RowStep
  PROVE  WrittenOnce'
<1> USE DEF WrittenOnce
<1>1. /\ WrittenOnce /\ writes \in Seq(Nat) /\ Len(writes) = Len(log)
      /\ DOMAIN writes = 1 .. Len(log) /\ Len(log) \in Nat
  BY DEF IInv, TypeInv, StoreInv
<1>2. ASSUME NEW t \in Threads, WorkerWrites(t)
      PROVE  WrittenOnce'
  <2>1. writes[row[t]] = 0 /\ row[t] \in 1 .. Len(log)
    BY <1>2 DEF WorkerWrites, IInv, SendInv
  <2> QED
    BY <1>1, <1>2, <2>1 DEF WorkerWrites
<1>3. CASE \/ Quiet \/ \E id \in DOMAIN writes : ModemTransmits(id)
           \/ \E t \in Threads : SendReturns(t) \/ Ends(t)
           \/ Rejects \/ Stops \/ Recovers
  BY <1>1, <1>3 DEF Quiet, rowVars, ModemTransmits, SendReturns, Ends, Rejects,
       Stops, Recovers
<1>4. ASSUME NEW new, RowAdded(new)
      PROVE  WrittenOnce'
  <2>1. /\ DOMAIN writes' = 1 .. Len(log) + 1 /\ writes'[Len(log) + 1] = 0
        /\ \A j \in 1 .. Len(log) : writes'[j] = writes[j]
    BY <1>4 DEF RowAdded
  <2> QED
    BY <1>1, <2>1
<1> QED
  BY <1>2, <1>3, <1>4 DEF RowStep, Starts, Receives

-----------------------------------------------------------------------------
(* The claims of deliveries                                                *)

LEMMA ClaimsAreFinite ==
  ASSUME StoreInv, NEW p \in Phones
  PROVE  /\ IsFiniteSet(Claims(p)) /\ Cardinality(Claims(p)) \in Nat
         /\ IsFiniteSet(AnswersTo(p)) /\ Cardinality(AnswersTo(p)) \in Nat
         /\ IsFiniteSet(AiredTo(p)) /\ Cardinality(AiredTo(p)) \in Nat
<1>1. Len(log) \in Nat
  BY DEF StoreInv
<1>2. IsFiniteSet(1 .. Len(log))
  BY <1>1, FS_Interval
<1>3. /\ Claims(p) \in SUBSET (1 .. Len(log))
      /\ AnswersTo(p) \in SUBSET (1 .. Len(log))
      /\ AiredTo(p) \in SUBSET (1 .. Len(log))
  BY DEF Claims, AnswersTo, AiredTo, StoreInv
<1>4. /\ IsFiniteSet(Claims(p)) /\ IsFiniteSet(AnswersTo(p))
      /\ IsFiniteSet(AiredTo(p))
  BY <1>2, <1>3, FS_Subset
<1> QED
  BY <1>4, FS_CardinalityType

\* A step that takes no line and claims nothing keeps the count.
LEMMA FewerClaims ==
  ASSUME IInv, NEW p \in Phones, Claims(p)' \subseteq Claims(p),
         AnswersTo(p)' = AnswersTo(p), AiredTo(p)' = AiredTo(p)
  PROVE  Cardinality(Claims(p)') + Cardinality(AnswersTo(p)')
           <= Cardinality(AiredTo(p)')
<1>1. StoreInv
  BY DEF IInv, TypeInv
<1>2. /\ IsFiniteSet(Claims(p)) /\ Cardinality(Claims(p)) \in Nat
      /\ Cardinality(AnswersTo(p)) \in Nat /\ Cardinality(AiredTo(p)) \in Nat
  BY <1>1, ClaimsAreFinite
<1>3. Claims(p)' \in SUBSET Claims(p)
  OBVIOUS
<1>4. /\ IsFiniteSet(Claims(p)')
      /\ Cardinality(Claims(p)') <= Cardinality(Claims(p))
  BY <1>2, <1>3, FS_Subset
<1>5. Cardinality(Claims(p)') \in Nat
  BY <1>4, FS_CardinalityType
<1>6. Cardinality(Claims(p)) + Cardinality(AnswersTo(p)) <= Cardinality(AiredTo(p))
  BY DEF IInv, ClaimInv
<1>7. /\ Cardinality(AnswersTo(p)') = Cardinality(AnswersTo(p))
      /\ Cardinality(AiredTo(p)') = Cardinality(AiredTo(p))
  OBVIOUS
<1> QED
  BY <1>2, <1>4, <1>5, <1>6, <1>7

\* A call that returns ok has taken a line of its number.
LEMMA ReturnClaims ==
  ASSUME IInv, NEW t \in Threads, SendReturns(t), NEW p \in Phones
  PROVE  Cardinality(Claims(p)') + Cardinality(AnswersTo(p)')
           <= Cardinality(AiredTo(p)')
<1>1. /\ sendPc \in [Threads -> {"none", "called", "written", "returned"}]
      /\ outcome \in [Threads -> {"none", "sent", "failed"}]
      /\ StoreInv
  BY DEF IInv, TypeInv, ThreadInv
<1>2. /\ UNCHANGED <<log, row, transmitted>>
      /\ sendPc[t] \in {"called", "written"}
      /\ sendPc' = [sendPc EXCEPT ![t] = "returned"]
  BY DEF SendReturns
<1>3. row[t] \in 1 .. Len(log)
  BY <1>2 DEF IInv, SendInv
<1>4. \A u \in Threads : (sendPc'[u] = "returned" /\ u # t) => sendPc[u] = "returned"
  BY <1>1, <1>2
<1>5. AiredTo(p)' = AiredTo(p)
  BY <1>2 DEF AiredTo
<1>6. CASE outcome' = [outcome EXCEPT ![t] = "failed"] /\ answers' = answers
  <2>1. \A u \in Threads : (sendPc'[u] = "returned" /\ outcome'[u] = "sent") =>
                             (sendPc[u] = "returned" /\ outcome[u] = "sent")
    BY <1>1, <1>4, <1>6
  <2>2. Claims(p)' \subseteq Claims(p)
    BY <1>2, <2>1 DEF Claims
  <2>3. AnswersTo(p)' = AnswersTo(p)
    BY <1>2, <1>6 DEF AnswersTo
  <2> QED
    BY <1>5, <2>2, <2>3, FewerClaims
<1>7. ASSUME NEW id \in answers, log[id].to = log[row[t]].to,
             answers' = answers \ {id}, outcome' = [outcome EXCEPT ![t] = "sent"]
      PROVE  Cardinality(Claims(p)') + Cardinality(AnswersTo(p)')
               <= Cardinality(AiredTo(p)')
  <2>1. \A u \in Threads :
          (u # t /\ sendPc'[u] = "returned" /\ outcome'[u] = "sent") =>
            (sendPc[u] = "returned" /\ outcome[u] = "sent")
    BY <1>1, <1>4, <1>7
  <2>2. CASE log[id].to # p
    <3>1. Claims(p)' \subseteq Claims(p)
      BY <1>2, <1>7, <2>1, <2>2 DEF Claims
    <3>2. AnswersTo(p)' = AnswersTo(p)
      BY <1>2, <1>7, <2>2 DEF AnswersTo
    <3> QED
      BY <1>5, <3>1, <3>2, FewerClaims
  <2>3. CASE log[id].to = p
    <3>1. Claims(p)' \subseteq Claims(p) \cup {row[t]}
      BY <1>2, <2>1 DEF Claims
    <3>2. AnswersTo(p)' = AnswersTo(p) \ {id} /\ id \in AnswersTo(p)
      BY <1>2, <1>7, <2>3 DEF AnswersTo
    <3>3. /\ IsFiniteSet(Claims(p)) /\ Cardinality(Claims(p)) \in Nat
          /\ IsFiniteSet(AnswersTo(p)) /\ Cardinality(AnswersTo(p)) \in Nat
          /\ Cardinality(AiredTo(p)) \in Nat
      BY <1>1, ClaimsAreFinite
    <3>4. /\ IsFiniteSet(Claims(p) \cup {row[t]})
          /\ Cardinality(Claims(p) \cup {row[t]}) <= Cardinality(Claims(p)) + 1
      BY <3>3, FS_AddElement
    <3>5. Claims(p)' \in SUBSET (Claims(p) \cup {row[t]})
      BY <3>1
    <3>6. /\ Cardinality(Claims(p)') <= Cardinality(Claims(p) \cup {row[t]})
          /\ IsFiniteSet(Claims(p)')
      BY <3>4, <3>5, FS_Subset
    <3>7. /\ Cardinality(Claims(p)') \in Nat
          /\ Cardinality(Claims(p) \cup {row[t]}) \in Nat
      BY <3>4, <3>6, FS_CardinalityType
    <3>8. Cardinality(AnswersTo(p)') = Cardinality(AnswersTo(p)) - 1
      BY <3>2, <3>3, FS_RemoveElement
    <3>9. Cardinality(Claims(p)) + Cardinality(AnswersTo(p))
            <= Cardinality(AiredTo(p))
      BY DEF IInv, ClaimInv
    <3>10. Cardinality(AiredTo(p)') = Cardinality(AiredTo(p))
      BY <1>5
    <3> QED
      BY <3>3, <3>4, <3>6, <3>7, <3>8, <3>9, <3>10
  <2> QED
    BY <2>2, <2>3
<1> QED
  BY <1>6, <1>7 DEF SendReturns

\* A transmission puts up one line to take.
LEMMA TransmitClaims ==
  ASSUME IInv, NEW id \in DOMAIN writes, ModemTransmits(id), NEW p \in Phones
  PROVE  Cardinality(Claims(p)') + Cardinality(AnswersTo(p)')
           <= Cardinality(AiredTo(p)')
<1>1. /\ id \notin transmitted /\ transmitted' = transmitted \cup {id}
      /\ answers' = answers \cup {id} /\ UNCHANGED <<log, sendPc, row, outcome>>
  BY DEF ModemTransmits, sendVars
<1>2. Claims(p)' = Claims(p)
  BY <1>1 DEF Claims
<1>3. CASE log[id].to # p
  <2>1. AnswersTo(p)' = AnswersTo(p) /\ AiredTo(p)' = AiredTo(p)
    BY <1>1, <1>3 DEF AnswersTo, AiredTo
  <2> QED
    BY <1>2, <2>1, FewerClaims
<1>4. CASE log[id].to = p
  <2>1. /\ AnswersTo(p)' = AnswersTo(p) \cup {id}
        /\ AiredTo(p)' = AiredTo(p) \cup {id} /\ id \notin AiredTo(p)
    BY <1>1, <1>4 DEF AnswersTo, AiredTo
  <2>2. StoreInv
    BY DEF IInv, TypeInv
  <2>3. /\ Cardinality(Claims(p)) \in Nat
        /\ IsFiniteSet(AnswersTo(p)) /\ Cardinality(AnswersTo(p)) \in Nat
        /\ IsFiniteSet(AiredTo(p)) /\ Cardinality(AiredTo(p)) \in Nat
    BY <2>2, ClaimsAreFinite
  <2>4. /\ Cardinality(AnswersTo(p)') <= Cardinality(AnswersTo(p)) + 1
        /\ Cardinality(AnswersTo(p)') \in Nat
    <3>1. Cardinality(AnswersTo(p) \cup {id}) =
            IF id \in AnswersTo(p) THEN Cardinality(AnswersTo(p))
                                   ELSE Cardinality(AnswersTo(p)) + 1
      BY <2>3, FS_AddElement
    <3>2. Cardinality(AnswersTo(p)') = Cardinality(AnswersTo(p) \cup {id})
      BY <2>1
    <3> QED
      BY <2>3, <3>1, <3>2
  <2>5. Cardinality(AiredTo(p)') = Cardinality(AiredTo(p)) + 1
    BY <2>1, <2>3, FS_AddElement
  <2>6. Cardinality(Claims(p)) + Cardinality(AnswersTo(p)) <= Cardinality(AiredTo(p))
    BY DEF IInv, ClaimInv
  <2>7. Cardinality(Claims(p)') = Cardinality(Claims(p))
    BY <1>2
  <2> QED
    BY <2>3, <2>4, <2>5, <2>6, <2>7
<1> QED
  BY <1>3, <1>4

\* The other steps claim nothing.
LEMMA NoNewClaim ==
  ASSUME IInv, NEW p \in Phones,
         \/ Quiet \/ \E t \in Threads : WorkerWrites(t) \/ Ends(t)
         \/ \E t \in Threads, new \in Rows : Starts(t, new)
         \/ Receives \/ Rejects \/ Stops \/ Recovers
  PROVE  /\ Claims(p)' \subseteq Claims(p)
         /\ AnswersTo(p)' = AnswersTo(p) /\ AiredTo(p)' = AiredTo(p)
<1>1. /\ sendPc \in [Threads -> {"none", "called", "written", "returned"}]
      /\ row \in [Threads -> Nat] /\ outcome \in [Threads -> {"none", "sent", "failed"}]
      /\ Len(log) \in Nat
      /\ answers \subseteq 1 .. Len(log) /\ transmitted \subseteq 1 .. Len(log)
      /\ \A t \in Threads : sendPc[t] # "none" => row[t] \in 1 .. Len(log)
  BY DEF IInv, TypeInv, StoreInv, ThreadInv, SendInv
<1>2. ASSUME /\ UNCHANGED <<answers, transmitted>> /\ Len(log') >= Len(log)
             /\ Len(log') \in Nat
             /\ \A i \in 1 .. Len(log) : log'[i].to = log[i].to
             /\ \A i \in 1 .. Len(log') :
                  (\/ log'[i].status = "sent"
                   \/ \E t \in Threads : /\ row'[t] = i /\ sendPc'[t] = "returned"
                                         /\ outcome'[t] = "sent")
                    => /\ i \in 1 .. Len(log)
                       /\ \/ log[i].status = "sent"
                          \/ \E t \in Threads : /\ row[t] = i /\ outcome[t] = "sent"
                                                /\ sendPc[t] = "returned"
      PROVE  /\ Claims(p)' \subseteq Claims(p)
             /\ AnswersTo(p)' = AnswersTo(p) /\ AiredTo(p)' = AiredTo(p)
  <2>1. ASSUME NEW i \in Claims(p)'
        PROVE  i \in Claims(p)
    <3>1. /\ i \in 1 .. Len(log') /\ log'[i].to = p
          /\ \/ log'[i].status = "sent"
             \/ \E t \in Threads : /\ row'[t] = i /\ sendPc'[t] = "returned"
                                   /\ outcome'[t] = "sent"
      BY <2>1 DEF Claims
    <3>2. /\ i \in 1 .. Len(log)
          /\ \/ log[i].status = "sent"
             \/ \E t \in Threads : /\ row[t] = i /\ outcome[t] = "sent"
                                   /\ sendPc[t] = "returned"
      BY <1>2, <3>1
    <3>3. log[i].to = p
      BY <1>2, <3>1, <3>2
    <3> QED
      BY <3>2, <3>3 DEF Claims
  <2>2. \A i \in answers \cup transmitted : log'[i].to = log[i].to
    BY <1>1, <1>2
  <2>3. AnswersTo(p)' = AnswersTo(p)
    BY <1>2, <2>2 DEF AnswersTo
  <2>4. AiredTo(p)' = AiredTo(p)
    BY <1>2, <2>2 DEF AiredTo
  <2> QED
    BY <2>1, <2>3, <2>4
<1>3. CASE Quiet
  BY <1>1, <1>2, <1>3 DEF Quiet, rowVars, sendVars
<1>4. ASSUME NEW t \in Threads, WorkerWrites(t)
      PROVE  /\ Claims(p)' \subseteq Claims(p)
             /\ AnswersTo(p)' = AnswersTo(p) /\ AiredTo(p)' = AiredTo(p)
  <2>1. /\ UNCHANGED <<log, row, outcome, answers, transmitted>>
        /\ sendPc' = [sendPc EXCEPT ![t] = "written"]
    BY <1>4 DEF WorkerWrites
  <2>2. \A u \in Threads : sendPc'[u] = "returned" => sendPc[u] = "returned"
    BY <1>1, <2>1
  <2> QED
    BY <1>1, <1>2, <2>1, <2>2
<1>5. ASSUME NEW t \in Threads, Ends(t)
      PROVE  /\ Claims(p)' \subseteq Claims(p)
             /\ AnswersTo(p)' = AnswersTo(p) /\ AiredTo(p)' = AiredTo(p)
  <2>1. /\ UNCHANGED <<answers, transmitted>> /\ sendPc[t] = "returned"
        /\ sendPc' = [sendPc EXCEPT ![t] = "none"]
        /\ row' = [row EXCEPT ![t] = 0]
        /\ outcome' = [outcome EXCEPT ![t] = "none"]
    BY <1>5 DEF Ends, UpdateStatus
  <2>2. /\ Len(log') = Len(log)
        /\ \A j \in 1 .. Len(log) :
             /\ log'[j].to = log[j].to
             /\ log'[j].status = IF j = row[t] THEN outcome[t] ELSE log[j].status
    BY <1>5 DEF Ends, SameBut
  <2>3. \A u \in Threads : sendPc'[u] = "returned" =>
          /\ sendPc[u] = "returned" /\ row'[u] = row[u] /\ outcome'[u] = outcome[u]
    BY <1>1, <2>1
  <2>4. ASSUME NEW i \in 1 .. Len(log'),
               \/ log'[i].status = "sent"
               \/ \E u \in Threads : /\ row'[u] = i /\ sendPc'[u] = "returned"
                                     /\ outcome'[u] = "sent"
        PROVE  /\ i \in 1 .. Len(log)
               /\ \/ log[i].status = "sent"
                  \/ \E u \in Threads : /\ row[u] = i /\ outcome[u] = "sent"
                                        /\ sendPc[u] = "returned"
    <3>1. i \in 1 .. Len(log)
      BY <2>2
    <3>2. CASE log'[i].status = "sent"
      BY <2>1, <2>2, <3>1, <3>2
    <3>3. CASE \E u \in Threads : /\ row'[u] = i /\ sendPc'[u] = "returned"
                                  /\ outcome'[u] = "sent"
      BY <2>3, <3>1, <3>3
    <3> QED
      BY <2>4, <3>2, <3>3
  <2> QED
    BY <1>1, <1>2, <2>1, <2>2, <2>4
<1>6. ASSUME NEW t \in Threads, NEW new \in Rows, Starts(t, new)
      PROVE  /\ Claims(p)' \subseteq Claims(p)
             /\ AnswersTo(p)' = AnswersTo(p) /\ AiredTo(p)' = AiredTo(p)
  <2>1. /\ UNCHANGED <<answers, transmitted, outcome>>
        /\ sendPc' = [sendPc EXCEPT ![t] = "called"]
        /\ row' = [row EXCEPT ![t] = Len(log) + 1] /\ new.status = "pending"
    BY <1>6 DEF Starts
  <2>2. /\ Len(log') = Len(log) + 1 /\ log'[Len(log) + 1] = new
        /\ \A j \in 1 .. Len(log) : log'[j] = log[j]
    BY <1>6 DEF Starts, RowAdded
  <2>3. \A u \in Threads : sendPc'[u] = "returned" =>
          /\ sendPc[u] = "returned" /\ row'[u] = row[u] /\ row[u] \in 1 .. Len(log)
    BY <1>1, <2>1
  <2>4. \A i \in 1 .. Len(log') : i = Len(log) + 1 \/ i \in 1 .. Len(log)
    BY <1>1, <2>2
  <2> QED
    BY <1>1, <1>2, <2>1, <2>2, <2>3, <2>4
<1>7. CASE Receives
  <2>1. /\ UNCHANGED <<answers, transmitted, sendPc, row, outcome>>
        /\ Len(log') = Len(log) + 1 /\ log'[Len(log) + 1].status = "received"
        /\ \A j \in 1 .. Len(log) : log'[j] = log[j]
    BY <1>7 DEF Receives, RowAdded, sendVars
  <2>2. \A i \in 1 .. Len(log') : i = Len(log) + 1 \/ i \in 1 .. Len(log)
    BY <1>1, <2>1
  <2> QED
    BY <1>1, <1>2, <2>1, <2>2
<1>8. CASE Rejects
  <2>1. /\ UNCHANGED <<answers, transmitted, sendPc, row, outcome>>
        /\ Len(log') = Len(log)
        /\ \A j \in 1 .. Len(log) :
             log'[j].to = log[j].to /\ log'[j].status \in {log[j].status, "rejected"}
    BY <1>8 DEF Rejects, SameBut, sendVars
  <2>2. \A i \in 1 .. Len(log') : log'[i].status = "sent" => log[i].status = "sent"
    BY <2>1
  <2> QED
    BY <1>1, <1>2, <2>1, <2>2
<1>9. CASE Stops
  <2>1. \A u \in Threads : sendPc'[u] # "returned"
    BY <1>9 DEF Stops
  <2> QED
    BY <1>1, <1>2, <1>9, <2>1 DEF Stops
<1>10. CASE Recovers
  <2>1. /\ UNCHANGED <<answers, transmitted, sendPc, row, outcome>>
        /\ Len(log') = Len(log)
        /\ \A j \in 1 .. Len(log) :
             log'[j].to = log[j].to /\ log'[j].status \in {log[j].status, "failed"}
    BY <1>10 DEF Recovers, SameBut, sendVars
  <2>2. \A i \in 1 .. Len(log') : log'[i].status = "sent" => log[i].status = "sent"
    BY <2>1
  <2> QED
    BY <1>1, <1>2, <2>1, <2>2
<1> QED
  BY <1>3, <1>4, <1>5, <1>6, <1>7, <1>8, <1>9, <1>10

LEMMA ClaimStep ==
  ASSUME IInv, RowStep
  PROVE  ClaimInv'
<1> SUFFICES ASSUME NEW p \in Phones
             PROVE  Cardinality(Claims(p)') + Cardinality(AnswersTo(p)')
                      <= Cardinality(AiredTo(p)')
  BY DEF ClaimInv
<1>1. CASE \E t \in Threads : SendReturns(t)
  BY <1>1, ReturnClaims
<1>2. CASE \E id \in DOMAIN writes : ModemTransmits(id)
  BY <1>2, TransmitClaims
<1>3. CASE ~(\E t \in Threads : SendReturns(t))
           /\ ~(\E id \in DOMAIN writes : ModemTransmits(id))
  BY <1>3, NoNewClaim, FewerClaims DEF RowStep
<1> QED
  BY <1>1, <1>2, <1>3

-----------------------------------------------------------------------------
(* The texts, in the order of their arrival                                *)

\* Steps after which the log names the same texts and phones.
RowsKept ==
  /\ Len(log') = Len(log)
  /\ \A i \in 1 .. Len(log) : /\ log'[i].kind = log[i].kind
                              /\ log'[i].to = log[i].to
                              /\ log'[i].text = log[i].text

\* The other steps of the inbox task keep the text in hand, and leave "reply",
\* once there, only for "replying".
GoesOn ==
  /\ UNCHANGED <<inbox, arrived, cur>> /\ RowsKept
  /\ pc \in {"forwarding", "reply", "replying"} =>
       pc' \in {"forwarding", "reply", "replying"}
  /\ pc \in {"reply", "replying"} => pc' = pc /\ reply' = reply

\* Marking rows, or not touching the log, keeps what the log names.
LEMMA MarkedIsKept ==
  ASSUME NEW hit, NEW status, SameBut(hit, status)
  PROVE  RowsKept
BY DEF SameBut, RowsKept

LEMMA SameIsKept ==
  ASSUME StoreInv, log' = log
  PROVE  RowsKept
BY DEF RowsKept, StoreInv

LEMMA EveryTextStep ==
  ASSUME IInv, Next
  PROVE  \/ GoesOn
         \/ DrainGet \/ LogForward \/ LogReply \/ ReplyDone
         \/ \E a \in Apis, to \in Phones : ApiSend(a, to)
         \/ \E from \in Phones, target \in Phones \cup {NoPhone} :
              TextArrives(from, target)
         \/ ThreadsEnd
<1>1. StoreInv
  BY DEF IInv, TypeInv
<1>2. CASE \/ CheckSender \/ ReadSession \/ SetTarget \/ CheckTarget \/ NotifyApp
  BY <1>1, <1>2, SameIsKept DEF GoesOn, HandlerOnly, CheckSender, ReadSession,
       SetTarget, CheckTarget, NotifyApp
<1>3. CASE \/ \E t \in Threads : WorkerWrites(t) \/ SendReturns(t)
           \/ \E id \in DOMAIN writes : ModemTransmits(id)
           \/ \E p \in Phones, state \in Accounts : AccountChanges(p, state)
           \/ \E p \in Phones : ResetSession(p)
           \/ Shutdown
  BY <1>1, <1>3, SameIsKept DEF GoesOn, historyVars, handlerVars, WorkerWrites,
       SendReturns, ModemTransmits, AccountChanges, ResetSession, Shutdown
<1>4. CASE Reject
  BY <1>1, <1>4, RejectMarks, MarkedIsKept DEF GoesOn, Reject, HandlerOnly
<1>5. CASE Restart
  BY <1>1, <1>5, RestartMarks, MarkedIsKept DEF GoesOn, Restart, historyVars,
       handlerVars
<1>6. ASSUME NEW a \in Apis, ApiAnswers(a)
      PROVE  GoesOn
  <2>1. UpdateStatus(a) /\ a \in Threads
    BY <1>6 DEF ApiAnswers, Threads
  <2>2. RowsKept
    BY <2>1, SettleMarks, MarkedIsKept
  <2> QED
    BY <1>6, <2>2 DEF GoesOn, ApiAnswers, historyVars, handlerVars
<1>7. CASE ForwardDone
  <2>1. UpdateStatus("inbox") /\ "inbox" \in Threads
    BY <1>7 DEF ForwardDone, Threads
  <2>2. RowsKept
    BY <2>1, SettleMarks, MarkedIsKept
  <2> QED
    BY <1>7, <2>2 DEF GoesOn, ForwardDone, historyVars
<1> QED
  BY <1>2, <1>3, <1>4, <1>5, <1>6, <1>7 DEF Next, InboxStep, Crash, Exit

LEMMA OnceStep ==
  ASSUME IInv, Next
  PROVE  OnceInv'
<1> USE DEF OnceInv
<1>1. /\ OnceInv /\ Len(log) \in Nat /\ Len(arrived) \in Nat
      /\ inbox \in Seq(1 .. Len(arrived)) /\ cur \in 0 .. Len(arrived)
      /\ pc # "idle" => cur # 0
      /\ TypeInv
  <2>1. TypeInv /\ OnceInv
    BY DEF IInv
  <2>2. Len(log) \in Nat
    BY <2>1 DEF TypeInv, StoreInv
  <2>3. Len(arrived) \in Nat /\ inbox \in Seq(1 .. Len(arrived))
    BY <2>1 DEF TypeInv, TextInv
  <2>4. cur \in 0 .. Len(arrived) /\ (pc # "idle" => cur # 0)
    BY <2>1 DEF TypeInv, HandlerInv
  <2> QED
    BY <2>1, <2>2, <2>3, <2>4
<1>2. CASE GoesOn
  BY <1>1, <1>2 DEF GoesOn, RowsKept
<1>3. CASE DrainGet
  <2>1. /\ cur' = inbox[1] /\ inbox' = Tail(inbox) /\ Len(inbox) > 0
        /\ Len(log') = Len(log) + 1
        /\ log'[Len(log) + 1].kind = "in" /\ log'[Len(log) + 1].text = cur'
        /\ \A i \in 1 .. Len(log) : log'[i] = log[i]
        /\ arrived' = arrived
    BY <1>1, <1>3, TextLogged DEF TypeInv, RowAdded, DrainGet, historyVars
  <2>2. /\ Len(inbox') = Len(inbox) - 1
        /\ \A i \in 1 .. Len(inbox') : inbox'[i] = inbox[i + 1] /\ i + 1 \in 1 .. Len(inbox)
    BY <1>1, <2>1
  <2>3. /\ \A i, j \in 1 .. Len(inbox') : i < j => inbox'[i] < inbox'[j]
        /\ \A i \in 1 .. Len(inbox') : cur' < inbox'[i]
        /\ cur' \in 1 .. Len(arrived)
    BY <1>1, <2>1, <2>2
  <2>4. \A i \in 1 .. Len(log') : i = Len(log) + 1 \/ i \in 1 .. Len(log)
    BY <1>1, <2>1
  <2>5. \A i \in 1 .. Len(log) : log[i].kind # "api" => log[i].text < cur'
    BY <1>1, <2>1
  <2>6. ASSUME NEW i \in 1 .. Len(log'), log'[i].kind # "api"
        PROVE  /\ log'[i].text \in 1 .. Len(arrived')
               /\ \A j \in 1 .. Len(inbox') : log'[i].text < inbox'[j]
               /\ log'[i].text <= cur'
               /\ log'[i].text = cur' => log'[i].kind = "in"
    <3>1. CASE i = Len(log) + 1
      BY <2>1, <2>3, <3>1
    <3>2. CASE i \in 1 .. Len(log)
      BY <1>1, <2>1, <2>2, <2>5, <2>6, <3>2
    <3> QED
      BY <2>4, <3>1, <3>2
  <2>7. ASSUME NEW i \in 1 .. Len(log'), NEW j \in 1 .. Len(log'), i # j,
               log'[i].text = log'[j].text, log'[i].kind = log'[j].kind
        PROVE  log'[i].kind = "api"
    <3>1. CASE i \in 1 .. Len(log) /\ j \in 1 .. Len(log)
      BY <1>1, <2>1, <2>7, <3>1
    <3>2. CASE i = Len(log) + 1 /\ j \in 1 .. Len(log)
      BY <1>1, <2>1, <2>3, <2>5, <2>7, <3>2
    <3>3. CASE j = Len(log) + 1 /\ i \in 1 .. Len(log)
      BY <1>1, <2>1, <2>3, <2>5, <2>7, <3>3
    <3> QED
      BY <2>4, <2>7, <3>1, <3>2, <3>3
  <2> QED
    BY <2>3, <2>6, <2>7
<1>4. ASSUME NEW new \in Rows, RowAdded(new), UNCHANGED <<inbox, arrived, cur>>,
             \/ new.kind = "api" /\ pc' = pc /\ reply' = reply
             \/ /\ new.kind = "forward" /\ pc = "forward" /\ new.text = cur
                /\ pc' = "forwarding" /\ reply \in Replies
             \/ /\ new.kind = reply /\ pc = "reply" /\ new.text = cur
                /\ pc' = "replying" /\ reply' = reply /\ reply \in Replies
      PROVE  OnceInv'
  <2>1. /\ Len(log') = Len(log) + 1 /\ log'[Len(log) + 1] = new
        /\ \A i \in 1 .. Len(log) : log'[i] = log[i]
    BY <1>4 DEF RowAdded
  <2>2. \A i \in 1 .. Len(log') : i = Len(log) + 1 \/ i \in 1 .. Len(log)
    BY <1>1, <2>1
  <2>3. \A i \in 1 .. Len(log) : log[i].kind # "api" =>
          ~(log[i].text = new.text /\ log[i].kind = new.kind)
    BY <1>1, <1>4 DEF Replies
  <2>4. ASSUME NEW i \in 1 .. Len(log'), log'[i].kind # "api"
        PROVE  /\ log'[i].text \in 1 .. Len(arrived')
               /\ \A j \in 1 .. Len(inbox') : log'[i].text < inbox'[j]
               /\ cur' # 0 => log'[i].text <= cur'
               /\ log'[i].text = cur' =>
                    \/ log'[i].kind = "in"
                    \/ /\ log'[i].kind = "forward"
                       /\ pc' \in {"forwarding", "reply", "replying"}
                    \/ log'[i].kind = reply' /\ pc' = "replying"
    <3>1. CASE i = Len(log) + 1
      BY <1>1, <1>4, <2>1, <2>4, <3>1
    <3>2. CASE i \in 1 .. Len(log)
      BY <1>1, <1>4, <2>1, <2>4, <3>2
    <3> QED
      BY <2>2, <3>1, <3>2
  <2>5. ASSUME NEW i \in 1 .. Len(log'), NEW j \in 1 .. Len(log'), i # j,
               log'[i].text = log'[j].text, log'[i].kind = log'[j].kind
        PROVE  log'[i].kind = "api"
    <3>1. CASE i \in 1 .. Len(log) /\ j \in 1 .. Len(log)
      BY <1>1, <2>1, <2>5, <3>1
    <3>2. CASE i = Len(log) + 1 /\ j \in 1 .. Len(log)
      BY <2>1, <2>3, <2>5, <3>2
    <3>3. CASE j = Len(log) + 1 /\ i \in 1 .. Len(log)
      BY <2>1, <2>3, <2>5, <3>3
    <3> QED
      BY <2>2, <2>5, <3>1, <3>2, <3>3
  <2> QED
    BY <1>1, <1>4, <2>4, <2>5
<1>5. CASE LogForward
  <2> DEFINE new == [kind |-> "forward", to |-> seen, text |-> cur,
                     status |-> "pending"]
  <2>1. RowAdded(new) /\ seen \in Phones /\ pc = "forward"
    BY <1>1, <1>5, ForwardLogged DEF LogForward
  <2>2. reply \in Replies
    BY <1>1, <2>1 DEF TypeInv, HandlerInv
  <2>3. new \in Rows
    BY <1>1, <2>1, InHand, RelayAssumption DEF Rows, Statuses
  <2>4. new.kind = "forward" /\ new.text = cur
    OBVIOUS
  <2> HIDE DEF new
  <2> QED
    BY <1>4, <1>5, <2>1, <2>2, <2>3, <2>4 DEF LogForward, historyVars
<1>6. CASE LogReply
  <2> DEFINE new == [kind |-> reply, to |-> Sender, text |-> cur,
                     status |-> "pending"]
  <2>1. RowAdded(new) /\ Sender \in Phones /\ reply \in Replies /\ pc = "reply"
    BY <1>1, <1>6, ReplyLogged DEF LogReply
  <2>2. new \in Rows
    BY <1>1, <2>1, InHand, RelayAssumption DEF Rows, Statuses, Replies
  <2>3. new.kind = reply /\ new.text = cur
    OBVIOUS
  <2> HIDE DEF new
  <2> QED
    BY <1>4, <1>6, <2>1, <2>2, <2>3 DEF LogReply, historyVars
<1>7. ASSUME NEW a \in Apis, NEW to \in Phones, ApiSend(a, to)
      PROVE  OnceInv'
  <2> DEFINE new == [kind |-> "api", to |-> to, text |-> 0, status |-> "pending"]
  <2>1. /\ LogOut(a, to, "api", 0) /\ a \in Threads /\ StoreInv
        /\ 0 \in 0 .. MaxTexts
    BY <1>1, <1>7, RelayAssumption DEF ApiSend, Threads, TypeInv
  <2>2. RowAdded(new) /\ new \in Rows
    BY <2>1, SendLogged DEF Rows, Statuses
  <2>3. new.kind = "api"
    OBVIOUS
  <2> HIDE DEF new
  <2> QED
    BY <1>4, <1>7, <2>2, <2>3 DEF ApiSend, historyVars, handlerVars
<1>8. CASE ReplyDone \/ ThreadsEnd
  <2>1. RowsKept /\ arrived' = arrived /\ cur' = 0
    <3>1. CASE ThreadsEnd
      BY <1>1, <3>1, SameIsKept DEF ThreadsEnd, TypeInv, historyVars
    <3>2. CASE ReplyDone
      <4>1. UpdateStatus("inbox") /\ "inbox" \in Threads
        BY <3>2 DEF ReplyDone, Threads
      <4> QED
        BY <3>2, <4>1, SettleMarks, MarkedIsKept DEF ReplyDone, historyVars
    <3> QED
      BY <1>8, <3>1, <3>2
  <2>2. inbox' = inbox \/ inbox' = <<>>
    BY <1>8 DEF ReplyDone, ThreadsEnd
  <2>3. /\ \A i, j \in 1 .. Len(inbox') : i < j => inbox'[i] < inbox'[j]
        /\ \A i \in 1 .. Len(inbox') : 0 < inbox'[i]
    BY <1>1, <2>2
  <2>4. \A i \in 1 .. Len(log') : log'[i].kind # "api" =>
          /\ log'[i].text \in 1 .. Len(arrived)
          /\ \A j \in 1 .. Len(inbox') : log'[i].text < inbox'[j]
    BY <1>1, <2>1, <2>2 DEF RowsKept
  <2>5. \A i, j \in 1 .. Len(log') :
          (i # j /\ log'[i].text = log'[j].text /\ log'[i].kind = log'[j].kind)
            => log'[i].kind = "api"
    BY <1>1, <2>1 DEF RowsKept
  <2> QED
    BY <2>1, <2>3, <2>4, <2>5
<1>9. ASSUME NEW from \in Phones, NEW target \in Phones \cup {NoPhone},
             TextArrives(from, target)
      PROVE  OnceInv'
  <2>1. /\ UNCHANGED <<log, cur, pc, reply>> /\ Len(arrived') = Len(arrived) + 1
        /\ inbox' = Append(inbox, Len(arrived) + 1)
    BY <1>1, <1>9 DEF TextArrives, handlerVars, TypeInv, TextInv
  <2>2. /\ Len(inbox') = Len(inbox) + 1 /\ inbox'[Len(inbox) + 1] = Len(arrived) + 1
        /\ \A i \in 1 .. Len(inbox) : inbox'[i] = inbox[i] /\ inbox[i] \in 1 .. Len(arrived)
        /\ \A i \in 1 .. Len(inbox') : i = Len(inbox) + 1 \/ i \in 1 .. Len(inbox)
    BY <1>1, <2>1
  <2>3. /\ \A i, j \in 1 .. Len(inbox') : i < j => inbox'[i] < inbox'[j]
        /\ \A i \in 1 .. Len(inbox') : cur < inbox'[i]
    BY <1>1, <2>1, <2>2
  <2>4. \A i \in 1 .. Len(log) : log[i].kind # "api" =>
          /\ log[i].text \in 1 .. Len(arrived')
          /\ \A j \in 1 .. Len(inbox') : log[i].text < inbox'[j]
    BY <1>1, <2>1, <2>2
  <2> QED
    BY <1>1, <2>1, <2>3, <2>4
<1> QED
  BY <1>2, <1>3, <1>5, <1>6, <1>7, <1>8, <1>9, EveryTextStep

-----------------------------------------------------------------------------
(* The targets of the sessions                                             *)

\* A choice that is the last one before the text in hand is the last one
\* before any later text of that phone, until that phone chooses again.
LEMMA LastIsBefore ==
  ASSUME TypeInv, TargetInv, pc = "forward"
  PROVE  ChoiceBefore(cur, seen)
<1>1. PICK m \in 1 .. Len(arrived) :
        /\ arrived[m].from = Sender /\ accepted[m] = seen /\ seen # NoPhone
        /\ \A k \in 1 .. Len(arrived) :
             (arrived[k].from = Sender /\ accepted[k] # NoPhone) => k <= m
  BY DEF TargetInv, SeenTarget, LastChoice
<1>2. cur \in 1 .. Len(arrived) /\ Len(arrived) \in Nat
  BY InHand DEF TypeInv, TextInv
<1>3. m <= cur /\ m # cur
  BY <1>1, <1>2 DEF TargetInv, ChoiceOrder
<1>4. m \in 1 .. cur - 1 /\ \A k \in 1 .. cur - 1 : k \in 1 .. Len(arrived)
  BY <1>2, <1>3
<1> QED
  BY <1>1, <1>4 DEF ChoiceBefore, Sender

\* The text a target was chosen before determines it.
LEMMA BeforeIsChosen ==
  ASSUME NEW n \in Nat, NEW q, ChoiceBefore(n, q)
  PROVE  Chosen(n) = q
<1> DEFINE choices == {m \in 1 .. n - 1 : /\ arrived[m].from = arrived[n].from
                                          /\ accepted[m] # NoPhone}
<1>1. PICK m \in 1 .. n - 1 :
        /\ arrived[m].from = arrived[n].from /\ accepted[m] = q /\ q # NoPhone
        /\ \A k \in 1 .. n - 1 :
             (arrived[k].from = arrived[n].from /\ accepted[k] # NoPhone) => k <= m
  BY DEF ChoiceBefore
<1>2. m \in choices /\ \A k \in choices : k <= m /\ k \in Int
  BY <1>1
<1> HIDE DEF choices
<1> DEFINE c == CHOOSE x \in choices : \A k \in choices : k <= x
<1>3. c \in choices /\ \A k \in choices : k <= c
  BY <1>2
<1> HIDE DEF c
<1>4. c = m
  BY <1>2, <1>3
<1>5. Chosen(n) = IF choices = {} THEN NoPhone ELSE accepted[c]
  BY DEF Chosen, choices, c
<1> QED
  BY <1>1, <1>2, <1>4, <1>5

\* Choices stay when texts arrive and choices are made later.
LEMMA BeforeStays ==
  ASSUME NEW n \in Nat, NEW q, ChoiceBefore(n, q),
         arrived'[n] = arrived[n],
         \A m \in 1 .. n - 1 : arrived'[m] = arrived[m] /\ accepted'[m] = accepted[m]
  PROVE  ChoiceBefore(n, q)'
BY DEF ChoiceBefore

LEMMA LastStays ==
  ASSUME NEW p, NEW q, LastChoice(p, q), Len(arrived) \in Nat,
         Len(arrived') \in Nat, Len(arrived') >= Len(arrived),
         \A m \in 1 .. Len(arrived) :
           arrived'[m] = arrived[m] /\ (accepted'[m] = accepted[m] \/ arrived[m].from # p),
         \A m \in 1 .. Len(arrived') :
           m \notin 1 .. Len(arrived) => accepted'[m] = NoPhone
  PROVE  LastChoice(p, q)'
<1>1. PICK m \in 1 .. Len(arrived) :
        /\ arrived[m].from = p /\ accepted[m] = q /\ q # NoPhone
        /\ \A k \in 1 .. Len(arrived) :
             (arrived[k].from = p /\ accepted[k] # NoPhone) => k <= m
  BY DEF LastChoice
<1>2. m \in 1 .. Len(arrived') /\ arrived'[m].from = p /\ accepted'[m] = q
  BY <1>1
<1>3. ASSUME NEW k \in 1 .. Len(arrived'), arrived'[k].from = p,
             accepted'[k] # NoPhone
      PROVE  k <= m
  <2>1. k \in 1 .. Len(arrived)
    BY <1>3
  <2> QED
    BY <1>1, <1>3, <2>1
<1> QED
  BY <1>1, <1>2, <1>3 DEF LastChoice

\* With the histories and the rows as they were, each part of TargetInv needs
\* only what it is about.
LEMMA CalmTarget ==
  ASSUME IInv, UNCHANGED <<arrived, accepted>>
  PROVE  /\ (UNCHANGED <<inbox, cur>>
              /\ (pc \in {"reply", "replying"} => pc' \in {"reply", "replying"}))
           => ChoiceOrder'
         /\ session' = session => SessionTarget'
         /\ (UNCHANGED <<cur, seen>>
              /\ (pc' \in {"check_target", "notify", "forward"} =>
                     pc \in {"check_target", "notify", "forward"})) => SeenTarget'
         /\ RowsKept => ForwardTarget'
<1> USE DEF IInv, TargetInv
<1>1. \A p, q : LastChoice(p, q) => LastChoice(p, q)'
  BY DEF LastChoice
<1>2. \A n, q : ChoiceBefore(n, q) => ChoiceBefore(n, q)'
  BY DEF ChoiceBefore
<1>3. (UNCHANGED <<inbox, cur>>
         /\ (pc \in {"reply", "replying"} => pc' \in {"reply", "replying"}))
        => ChoiceOrder'
  BY DEF ChoiceOrder
<1>4. session' = session => SessionTarget'
  BY <1>1 DEF SessionTarget
<1>5. (UNCHANGED <<cur, seen>>
         /\ (pc' \in {"check_target", "notify", "forward"} =>
                pc \in {"check_target", "notify", "forward"})) => SeenTarget'
  BY <1>1 DEF SeenTarget, Sender
<1>6. RowsKept => ForwardTarget'
  BY <1>2 DEF ForwardTarget, RowsKept
<1> QED
  BY <1>3, <1>4, <1>5, <1>6

\* A row that is added is not a forward, or goes to the last choice.
LEMMA AddedTarget ==
  ASSUME IInv, UNCHANGED <<arrived, accepted>>, NEW new \in Rows, RowAdded(new),
         new.kind = "forward" => ChoiceBefore(new.text, new.to)
  PROVE  ForwardTarget'
<1>1. /\ Len(log') = Len(log) + 1 /\ log'[Len(log) + 1] = new
      /\ \A i \in 1 .. Len(log) : log'[i] = log[i]
  BY DEF RowAdded
<1>2. \A i \in 1 .. Len(log') : i = Len(log) + 1 \/ i \in 1 .. Len(log)
  BY <1>1 DEF IInv, TypeInv, StoreInv
<1> SUFFICES ASSUME NEW i \in 1 .. Len(log'), log'[i].kind = "forward",
                    NEW n, NEW q, n = log'[i].text, q = log'[i].to
             PROVE  ChoiceBefore(n, q)'
  BY DEF ForwardTarget, ChoiceBefore
<1>3. CASE i = Len(log) + 1
  BY <1>1, <1>3 DEF ChoiceBefore
<1>4. CASE i \in 1 .. Len(log)
  <2>1. ChoiceBefore(log[i].text, log[i].to) /\ log'[i] = log[i]
    BY <1>1, <1>4 DEF IInv, TargetInv, ForwardTarget
  <2> QED
    BY <2>1 DEF ChoiceBefore
<1> QED
  BY <1>2, <1>3, <1>4

LEMMA ReadTarget ==
  ASSUME IInv, ReadSession
  PROVE  TargetInv'
<1>1. /\ UNCHANGED <<arrived, accepted, inbox, cur, log>> /\ pc = "read_session"
      /\ StoreInv /\ pc' \notin {"notify", "forward"}
  BY DEF ReadSession, HandlerOnly, IInv, TypeInv
<1>2. Sender \in Phones
  BY <1>1, InHand DEF IInv
<1>3. /\ session \in [Phones -> [stage : {"none", "NEW", "AWAITING_TARGET", "ACTIVE"},
                                 target : Phones \cup {NoPhone}]]
  BY <1>1 DEF StoreInv
<1>4. \A p, q : LastChoice(p, q) => LastChoice(p, q)'
  BY <1>1 DEF LastChoice
<1>5. \A p \in Phones : session'[p].stage = "ACTIVE" =>
        session[p].stage = "ACTIVE" /\ session'[p].target = session[p].target
  <2>1. CASE session' = session
    BY <2>1
  <2>2. CASE session' = [session EXCEPT ![Sender].stage =
                           IF @ = "none" THEN "NEW" ELSE @]
    BY <1>2, <1>3, <2>2
  <2>3. CASE session' = [session EXCEPT ![Sender].stage = "AWAITING_TARGET"]
    BY <1>2, <1>3, <2>3
  <2> QED
    BY <2>1, <2>2, <2>3 DEF ReadSession
<1>6. SessionTarget'
  BY <1>4, <1>5 DEF SessionTarget, IInv, TargetInv
<1>7. pc' = "check_target" => LastChoice(Sender, seen')
  BY <1>2 DEF ReadSession, IInv, TargetInv, SessionTarget
<1>8. SeenTarget'
  <2>1. Sender' = Sender
    BY <1>1 DEF Sender
  <2> QED
    BY <1>1, <1>4, <1>7, <2>1 DEF SeenTarget
<1>9. ChoiceOrder' /\ ForwardTarget'
  BY <1>1, CalmTarget, SameIsKept
<1> QED
  BY <1>6, <1>8, <1>9 DEF TargetInv

LEMMA ChooseTarget ==
  ASSUME IInv, SetTarget
  PROVE  TargetInv'
<1>1. /\ UNCHANGED <<arrived, inbox, cur, log, seen>> /\ pc = "set_target"
      /\ pc' = "reply" /\ StoreInv /\ TextInv
  BY DEF SetTarget, HandlerOnly, IInv, TypeInv
<1>2. CASE UNCHANGED <<session, accepted>>
  BY <1>1, <1>2, CalmTarget, SameIsKept DEF TargetInv
<1>3. CASE /\ arrived[cur].target \in Phones
           /\ session' = [session EXCEPT ![Sender] =
                             [stage |-> "ACTIVE", target |-> arrived[cur].target]]
           /\ accepted' = [accepted EXCEPT ![cur] = arrived[cur].target]
  <2>1. /\ cur \in 1 .. Len(arrived) /\ Sender \in Phones
        /\ Len(arrived) \in Nat /\ NoPhone \notin Phones
        /\ accepted \in Seq(Phones \cup {NoPhone}) /\ Len(accepted) = Len(arrived)
    BY <1>1, InHand, RelayAssumption DEF IInv, TextInv
  <2>2. /\ accepted'[cur] = arrived[cur].target
        /\ \A k \in 1 .. Len(arrived) : k # cur => accepted'[k] = accepted[k]
    BY <1>3, <2>1
  <2>3. \A k \in 1 .. Len(arrived) : accepted'[k] # NoPhone => k <= cur
    BY <2>1, <2>2 DEF IInv, TargetInv, ChoiceOrder
  <2>4. ChoiceOrder'
    BY <1>1, <2>1, <2>2, <2>3 DEF ChoiceOrder, IInv, TargetInv, OnceInv
  <2>5. LastChoice(Sender, arrived[cur].target)'
    BY <1>1, <1>3, <2>1, <2>2, <2>3 DEF LastChoice, Sender
  <2>6. \A p, q : (p \in Phones /\ p # Sender /\ LastChoice(p, q)) => LastChoice(p, q)'
    <3> SUFFICES ASSUME NEW p \in Phones, NEW q, p # Sender, LastChoice(p, q)
                 PROVE  LastChoice(p, q)'
      OBVIOUS
    <3>1. \A m \in 1 .. Len(arrived) :
            /\ arrived'[m] = arrived[m]
            /\ accepted'[m] = accepted[m] \/ arrived[m].from # p
      BY <1>1, <2>2 DEF Sender
    <3> QED
      BY <1>1, <2>1, <3>1, LastStays
  <2>7. SessionTarget'
    <3> SUFFICES ASSUME NEW p \in Phones, session'[p].stage = "ACTIVE",
                        NEW q, q = session'[p].target
                 PROVE  LastChoice(p, q)'
      BY DEF SessionTarget, LastChoice
    <3>1. CASE p = Sender
      <4>1. session'[p].target = arrived[cur].target
        BY <1>1, <1>3, <2>1, <3>1 DEF StoreInv
      <4> QED
        BY <1>1, <2>5, <3>1, <4>1 DEF LastChoice, Sender
    <3>2. CASE p # Sender
      <4>1. session'[p] = session[p]
        BY <1>1, <1>3, <3>2 DEF StoreInv
      <4>2. LastChoice(p, session[p].target)
        BY <4>1 DEF IInv, TargetInv, SessionTarget
      <4> QED
        BY <2>6, <3>2, <4>1, <4>2
    <3> QED
      BY <3>1, <3>2
  <2>8. SeenTarget'
    BY <1>1 DEF SeenTarget
  <2>9. ForwardTarget'
    <3> SUFFICES ASSUME NEW i \in 1 .. Len(log), log[i].kind = "forward"
                 PROVE  ChoiceBefore(log[i].text, log[i].to)'
      BY <1>1 DEF ForwardTarget
    <3>1. ChoiceBefore(log[i].text, log[i].to)
      BY DEF IInv, TargetInv, ForwardTarget
    <3>2. log[i].text \in 1 .. Len(arrived) /\ log[i].text <= cur
      BY <2>1 DEF IInv, OnceInv
    <3>3. \A m \in 1 .. log[i].text - 1 :
            arrived'[m] = arrived[m] /\ accepted'[m] = accepted[m]
      BY <1>1, <2>1, <2>2, <3>2
    <3> QED
      BY <1>1, <3>1, <3>2, <3>3, BeforeStays
  <2> QED
    BY <2>4, <2>7, <2>8, <2>9 DEF TargetInv
<1>4. arrived[cur].target \in Phones
  BY <1>1, InHand DEF IInv, TypeInv, HandlerInv
<1>5. account \in [Phones -> Accounts]
  BY <1>1 DEF StoreInv
<1> QED
  BY <1>1, <1>2, <1>3, <1>4, <1>5 DEF SetTarget

LEMMA ArriveTarget ==
  ASSUME IInv, NEW from \in Phones, NEW target \in Phones \cup {NoPhone},
         TextArrives(from, target)
  PROVE  TargetInv'
<1>1. /\ UNCHANGED <<cur, pc, seen, log, session>> /\ TextInv /\ StoreInv
      /\ Len(arrived) \in Nat /\ pc # "idle" => cur \in 1 .. Len(arrived)
      /\ OnceInv
  <2>1. TypeInv /\ OnceInv /\ UNCHANGED <<cur, pc, seen, log, session>>
    BY DEF TextArrives, handlerVars, IInv
  <2> QED
    BY <2>1, InHand DEF TypeInv, TextInv
<1>2. /\ Len(arrived') = Len(arrived) + 1
      /\ \A k \in 1 .. Len(arrived) :
           arrived'[k] = arrived[k] /\ accepted'[k] = accepted[k]
      /\ accepted'[Len(arrived) + 1] = NoPhone
      /\ \A k \in 1 .. Len(arrived') : k = Len(arrived) + 1 \/ k \in 1 .. Len(arrived)
  BY <1>1 DEF TextArrives, TextInv
<1>3. \A p, q : LastChoice(p, q) => LastChoice(p, q)'
  <2> SUFFICES ASSUME NEW p, NEW q, LastChoice(p, q)
               PROVE  LastChoice(p, q)'
    OBVIOUS
  <2> QED
    BY <1>1, <1>2, LastStays
<1>4. ChoiceOrder'
  <2>1. /\ inbox' = Append(inbox, Len(arrived) + 1)
        /\ inbox \in Seq(1 .. Len(arrived))
    BY <1>1 DEF TextArrives, TextInv
  <2>2. \A i \in 1 .. Len(inbox') :
          inbox'[i] = Len(arrived) + 1 \/ (i \in 1 .. Len(inbox) /\ inbox'[i] = inbox[i])
    BY <2>1
  <2> QED
    BY <1>1, <1>2, <2>2 DEF ChoiceOrder, IInv, TargetInv
<1>5. SessionTarget'
  BY <1>1, <1>3 DEF SessionTarget, IInv, TargetInv
<1>6. SeenTarget'
  <2>1. pc # "idle" => Sender' = Sender
    BY <1>1, <1>2 DEF Sender
  <2> QED
    BY <1>1, <1>3, <2>1 DEF SeenTarget, IInv, TargetInv
<1>7. ForwardTarget'
  <2> SUFFICES ASSUME NEW i \in 1 .. Len(log), log[i].kind = "forward"
               PROVE  ChoiceBefore(log[i].text, log[i].to)'
    BY <1>1 DEF ForwardTarget
  <2>1. ChoiceBefore(log[i].text, log[i].to)
    BY DEF IInv, TargetInv, ForwardTarget
  <2>2. log[i].text \in 1 .. Len(arrived)
    BY <1>1 DEF OnceInv
  <2> QED
    BY <1>1, <1>2, <2>1, <2>2, BeforeStays
<1> QED
  BY <1>4, <1>5, <1>6, <1>7 DEF TargetInv

LEMMA TargetStep ==
  ASSUME IInv, Next
  PROVE  TargetInv'
<1>1. StoreInv /\ TypeInv /\ TextInv /\ Len(arrived) \in Nat
  BY DEF IInv, TypeInv, TextInv
<1>2. CASE \/ CheckSender \/ CheckTarget \/ NotifyApp
           \/ \E t \in Threads : WorkerWrites(t) \/ SendReturns(t)
           \/ \E id \in DOMAIN writes : ModemTransmits(id)
           \/ \E p \in Phones, state \in Accounts : AccountChanges(p, state)
           \/ Shutdown
  <2>1. /\ UNCHANGED <<arrived, accepted, inbox, cur, seen, session, log>>
        /\ pc \in {"reply", "replying"} => pc' \in {"reply", "replying"}
        /\ pc' \in {"check_target", "notify", "forward"} =>
             pc \in {"check_target", "notify", "forward"}
    BY <1>2 DEF HandlerOnly, handlerVars, historyVars, CheckSender, CheckTarget,
         NotifyApp, WorkerWrites, SendReturns, ModemTransmits, AccountChanges,
         Shutdown
  <2> QED
    BY <1>1, <2>1, CalmTarget, SameIsKept DEF TargetInv
<1>3. CASE \/ Reject \/ Restart \/ ForwardDone \/ \E a \in Apis : ApiAnswers(a)
  <2>1. RowsKept
    <3>1. \A t \in Threads : UpdateStatus(t) => RowsKept
      BY SettleMarks, MarkedIsKept
    <3>2. "inbox" \in Threads /\ \A a \in Apis : a \in Threads
      BY DEF Threads
    <3> QED
      BY <1>1, <1>3, <3>1, <3>2, RejectMarks, RestartMarks, MarkedIsKept
         DEF ForwardDone, ApiAnswers
  <2>2. /\ UNCHANGED <<arrived, accepted, inbox, cur, seen, session>>
        /\ pc \in {"reply", "replying"} => pc' \in {"reply", "replying"}
        /\ pc' \in {"check_target", "notify", "forward"} =>
             pc \in {"check_target", "notify", "forward"}
    BY <1>3 DEF HandlerOnly, handlerVars, historyVars, Reject, Restart, ForwardDone,
         ApiAnswers
  <2> QED
    BY <2>1, <2>2, CalmTarget DEF TargetInv
<1>4. ASSUME NEW p \in Phones, ResetSession(p)
      PROVE  TargetInv'
  <2>1. /\ UNCHANGED <<arrived, accepted, inbox, cur, seen, log, pc>>
        /\ session' = [session EXCEPT ![p] = [stage |-> "NEW", target |-> NoPhone]]
    BY <1>4 DEF ResetSession, historyVars, handlerVars
  <2>2. \A r \in Phones : session'[r].stage = "ACTIVE" => session'[r] = session[r]
    BY <1>1, <2>1 DEF StoreInv
  <2>3. \A r, q : LastChoice(r, q) => LastChoice(r, q)'
    BY <2>1 DEF LastChoice
  <2>4. SessionTarget'
    BY <2>2, <2>3 DEF SessionTarget, IInv, TargetInv
  <2> QED
    BY <1>1, <2>1, <2>4, CalmTarget, SameIsKept DEF TargetInv
<1>5. CASE DrainGet
  <2>1. /\ UNCHANGED <<arrived, accepted, session>> /\ pc' = "check_sender"
        /\ cur' = inbox[1] /\ inbox' = Tail(inbox) /\ Len(inbox) > 0
    BY <1>1, <1>5, TextLogged DEF DrainGet, historyVars
  <2>2. \A i \in 1 .. Len(inbox') : \E j \in 1 .. Len(inbox) : inbox'[i] = inbox[j]
    BY <1>1, <2>1 DEF TextInv
  <2>3. 1 \in 1 .. Len(inbox) /\ cur' \in 1 .. Len(arrived)
    BY <1>1, <2>1 DEF TextInv
  <2>4. ChoiceOrder'
    BY <1>1, <2>1, <2>2, <2>3 DEF ChoiceOrder, IInv, TargetInv
  <2>5. SeenTarget'
    BY <2>1 DEF SeenTarget
  <2>6. ForwardTarget'
    <3> DEFINE new == [kind |-> "in", to |-> NoPhone, text |-> cur',
                       status |-> "received"]
    <3>1. RowAdded(new)
      BY <1>1, <1>5, TextLogged
    <3>2. new \in Rows /\ new.kind = "in"
      BY <1>1, <2>3, RelayAssumption DEF Rows, Statuses, TextInv
    <3> HIDE DEF new
    <3> QED
      BY <2>1, <3>1, <3>2, AddedTarget
  <2> QED
    BY <2>1, <2>4, <2>5, <2>6, CalmTarget DEF TargetInv
<1>6. CASE LogForward
  <2> DEFINE new == [kind |-> "forward", to |-> seen, text |-> cur,
                     status |-> "pending"]
  <2>1. /\ RowAdded(new) /\ seen \in Phones /\ pc = "forward" /\ pc' = "forwarding"
        /\ UNCHANGED <<arrived, accepted, inbox, cur, seen, session>>
    BY <1>1, <1>6, ForwardLogged DEF LogForward, historyVars
  <2>2. ChoiceBefore(cur, seen)
    BY <1>1, <2>1, LastIsBefore DEF IInv
  <2>3. new \in Rows /\ new.to = seen /\ new.text = cur
    BY <1>1, <2>1, InHand, RelayAssumption DEF Rows, Statuses
  <2> HIDE DEF new
  <2>4. ForwardTarget'
    BY <2>1, <2>2, <2>3, AddedTarget
  <2> QED
    BY <2>1, <2>4, CalmTarget DEF TargetInv
<1>7. CASE LogReply
  <2> DEFINE new == [kind |-> reply, to |-> Sender, text |-> cur,
                     status |-> "pending"]
  <2>1. /\ RowAdded(new) /\ Sender \in Phones /\ reply \in Replies /\ pc = "reply"
        /\ pc' = "replying"
        /\ UNCHANGED <<arrived, accepted, inbox, cur, seen, session>>
    BY <1>1, <1>7, ReplyLogged DEF LogReply, historyVars
  <2>2. new \in Rows /\ new.kind # "forward"
    BY <1>1, <2>1, InHand, RelayAssumption DEF Rows, Statuses, Replies
  <2> HIDE DEF new
  <2>3. ForwardTarget'
    BY <2>1, <2>2, AddedTarget
  <2> QED
    BY <2>1, <2>3, CalmTarget DEF TargetInv
<1>8. ASSUME NEW a \in Apis, NEW to \in Phones, ApiSend(a, to)
      PROVE  TargetInv'
  <2> DEFINE new == [kind |-> "api", to |-> to, text |-> 0, status |-> "pending"]
  <2>1. /\ LogOut(a, to, "api", 0) /\ a \in Threads /\ 0 \in 0 .. MaxTexts
        /\ UNCHANGED <<arrived, accepted, inbox, cur, seen, session, pc>>
    BY <1>8, RelayAssumption DEF ApiSend, Threads, historyVars, handlerVars
  <2>2. RowAdded(new) /\ new \in Rows /\ new.kind # "forward"
    BY <1>1, <2>1, SendLogged DEF Rows, Statuses
  <2> HIDE DEF new
  <2>3. ForwardTarget'
    BY <2>1, <2>2, AddedTarget
  <2> QED
    BY <2>1, <2>3, CalmTarget DEF TargetInv
<1>9. CASE ReplyDone \/ ThreadsEnd
  <2>1. /\ RowsKept /\ UNCHANGED <<arrived, accepted, session>> /\ cur' = 0
        /\ pc' = "idle" /\ (inbox' = inbox \/ inbox' = <<>>)
    <3>1. CASE ThreadsEnd
      BY <1>1, <3>1, SameIsKept DEF ThreadsEnd, historyVars
    <3>2. CASE ReplyDone
      <4>1. UpdateStatus("inbox") /\ "inbox" \in Threads
        BY <3>2 DEF ReplyDone, Threads
      <4> QED
        BY <3>2, <4>1, SettleMarks, MarkedIsKept DEF ReplyDone, historyVars
    <3> QED
      BY <1>9, <3>1, <3>2
  <2>2. ChoiceOrder' /\ SeenTarget'
    BY <1>1, <2>1 DEF ChoiceOrder, SeenTarget, IInv, TargetInv
  <2> QED
    BY <2>1, <2>2, CalmTarget DEF TargetInv
<1> QED
  BY <1>2, <1>3, <1>4, <1>5, <1>6, <1>7, <1>8, <1>9, ReadTarget, ChooseTarget,
     ArriveTarget DEF Next, InboxStep, Crash, Exit

-----------------------------------------------------------------------------
(* The invariant                                                           *)

LEMMA InitIInv == Init => IInv
<1> SUFFICES ASSUME Init
             PROVE  IInv
  OBVIOUS
<1> USE RelayAssumption DEF Init
<1>1. /\ log = <<>> /\ Len(log) = 0 /\ Len(inbox) = 0 /\ Len(arrived) = 0
      /\ DOMAIN writes = {}
  OBVIOUS
<1>2. StoreInv
  BY DEF StoreInv, Accounts
<1>3. TextInv
  BY DEF TextInv
<1>4. HandlerInv /\ ThreadInv
  BY DEF HandlerInv, ThreadInv, Threads, Places
<1>5. SendInv /\ RowInv /\ WrittenOnce /\ OnceInv
  BY <1>1 DEF SendInv, RowInv, WrittenOnce, OnceInv
<1>6. TargetInv
  BY <1>1 DEF TargetInv, ChoiceOrder, SessionTarget, SeenTarget, ForwardTarget
<1>7. ClaimInv
  <2> SUFFICES ASSUME NEW p \in Phones
               PROVE  Cardinality(Claims(p)) + Cardinality(AnswersTo(p))
                        <= Cardinality(AiredTo(p))
    BY DEF ClaimInv
  <2>1. Claims(p) = {} /\ AnswersTo(p) = {} /\ AiredTo(p) = {}
    BY <1>1 DEF Claims, AnswersTo, AiredTo
  <2> QED
    BY <2>1, FS_EmptySet
<1> QED
  BY <1>2, <1>3, <1>4, <1>5, <1>6, <1>7 DEF IInv, TypeInv

LEMMA StutterIInv == IInv /\ UNCHANGED vars => IInv'
<1> SUFFICES ASSUME IInv, UNCHANGED vars
             PROVE  IInv'
  OBVIOUS
<1> USE DEF vars, handlerVars, sendVars, historyVars, modemVars
<1>1. TypeInv'
  BY DEF IInv, TypeInv, StoreInv, TextInv, HandlerInv, ThreadInv
<1>2. SendInv' /\ RowInv' /\ WrittenOnce' /\ OnceInv'
  BY DEF IInv, SendInv, RowInv, WrittenOnce, OnceInv
<1>3. TargetInv'
  BY DEF IInv, TargetInv, ChoiceOrder, SessionTarget, SeenTarget, ForwardTarget,
     LastChoice, ChoiceBefore, Sender
<1>4. ClaimInv'
  <2>1. \A p : Claims(p)' = Claims(p) /\ AnswersTo(p)' = AnswersTo(p)
               /\ AiredTo(p)' = AiredTo(p)
    BY DEF Claims, AnswersTo, AiredTo
  <2> QED
    BY <2>1 DEF IInv, ClaimInv
<1> QED
  BY <1>1, <1>2, <1>3, <1>4 DEF IInv

\* The invariant holds in every reachable state.
THEOREM Invariance == Spec => []IInv
<1>1. IInv /\ [Next]_vars => IInv'
  <2> SUFFICES ASSUME IInv, Next
               PROVE  IInv'
    BY StutterIInv
  <2>1. TypeInv'
    BY StoreStep, TextStep, HandlerStep, ThreadStep DEF TypeInv
  <2>2. RowStep
    BY EveryRowStep
  <2>3. SendInv' /\ RowInv' /\ WrittenOnce' /\ ClaimInv'
    BY <2>1, <2>2, SendStep, RowInvStep, WrittenStep, ClaimStep DEF TypeInv
  <2>4. OnceInv' /\ TargetInv'
    BY OnceStep, TargetStep
  <2> QED
    BY <2>1, <2>3, <2>4 DEF IInv
<1> QED
  BY <1>1, InitIInv, PTL DEF Spec

\* For any phones, requests, texts and crashes: while the service runs, a row
\* left pending in sms_log is one that a thread is sending.
THEOREM OwnedRows == Spec => []PendingHasOwner
<1>1. IInv => PendingHasOwner
  BY DEF IInv, TypeInv, StoreInv, RowInv, PendingHasOwner
<1> QED
  BY <1>1, Invariance, PTL

\* For any phones, requests, texts and crashes: no SMS is put on the serial
\* line twice.
THEOREM NoSecondWrite == Spec => []WrittenOnce
<1>1. IInv => WrittenOnce
  BY DEF IInv
<1> QED
  BY <1>1, Invariance, PTL

\* For any phones, requests, texts and crashes: sms_log claims no more
\* deliveries to a number than the modem made to it.
THEOREM HonestLog == Spec => []SentWasTransmitted
<1>1. ASSUME IInv, NEW p \in Phones
      PROVE  Cardinality({i \in DOMAIN log : log[i].status = "sent" /\ log[i].to = p})
               <= Cardinality({i \in transmitted : log[i].to = p})
  <2> DEFINE said == {i \in DOMAIN log : log[i].status = "sent" /\ log[i].to = p}
  <2>1. StoreInv /\ DOMAIN log = 1 .. Len(log)
    BY <1>1 DEF IInv, TypeInv, StoreInv
  <2>2. /\ IsFiniteSet(Claims(p)) /\ Cardinality(Claims(p)) \in Nat
        /\ Cardinality(AnswersTo(p)) \in Nat /\ Cardinality(AiredTo(p)) \in Nat
    BY <2>1, ClaimsAreFinite
  <2>3. said \in SUBSET Claims(p)
    BY <2>1 DEF Claims
  <2> HIDE DEF said
  <2>4. Cardinality(said) <= Cardinality(Claims(p)) /\ Cardinality(said) \in Nat
    BY <2>2, <2>3, FS_Subset, FS_CardinalityType
  <2>5. Cardinality(Claims(p)) + Cardinality(AnswersTo(p)) <= Cardinality(AiredTo(p))
    BY <1>1 DEF IInv, ClaimInv
  <2>6. Cardinality(said) <= Cardinality(AiredTo(p))
    BY <2>2, <2>4, <2>5
  <2> QED
    BY <2>6 DEF said, AiredTo
<1>2. IInv => SentWasTransmitted
  BY <1>1 DEF SentWasTransmitted
<1> QED
  BY <1>2, Invariance, PTL

\* For any phones, texts and crashes: a text is received, relayed and answered
\* at most once.
THEOREM NoSecondHandling == Spec => []HandledOnce
<1>1. IInv => HandledOnce
  BY DEF IInv, TypeInv, StoreInv, OnceInv, HandledOnce
<1> QED
  BY <1>1, Invariance, PTL

\* For any phones, texts, resets and crashes: a relayed text went to the target
\* its sender had chosen last when it was sent.
THEOREM RightTarget == Spec => []ForwardFollowsTarget
<1>1. ASSUME IInv, NEW i \in DOMAIN log, log[i].kind = "forward"
      PROVE  log[i].to = Chosen(log[i].text)
  <2>1. /\ i \in 1 .. Len(log) /\ log[i].text \in Nat
        /\ ChoiceBefore(log[i].text, log[i].to)
    BY <1>1 DEF IInv, TypeInv, StoreInv, OnceInv, TargetInv, ForwardTarget
  <2> QED
    BY <2>1, BeforeIsChosen
<1>2. IInv => ForwardFollowsTarget
  BY <1>1 DEF ForwardFollowsTarget
<1> QED
  BY <1>2, Invariance, PTL
=============================================================================
