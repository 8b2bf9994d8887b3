------------------------- MODULE SerialWorkerProofs -------------------------
(***************************************************************************)
(* What holds of the serial worker for every number of callers, every      *)
(* queue capacity and every behaviour of modem and link.                   *)
(*                                                                         *)
(* The argument: _active_lock has one holder (LockInv), a request is in    *)
(* one place only (PlaceInv), the in-flight slot holds nothing but the     *)
(* sender's live request (SlotInv).  Completions then cannot collide, and  *)
(* a caller can only time out what has not been written (WriteInv).        *)
(***************************************************************************)
EXTENDS SerialWorker, TLAPS, SequenceTheorems

\* Where the sender has a request in hand, and where it holds _active_lock.
Busy    == SenderPcs \ {"loop", "get", "exited"}
Holding == {"dropping", "write_start", "writing", "wrote"}
Sent    == {"writing", "wrote", "confirm", "confirm_timeout"}

\* _active_lock excludes.
LockInv ==
  /\ \A r \in Requests : callerPc[r] = "expiring" => activeLock = r
  /\ senderPc \in Holding => activeLock = "sender"
  /\ readerPc = "failing" => activeLock = "reader"
  /\ stopperPc = "failing" => activeLock = "stopper"

\* A request waits in one place of the queue or is in the sender's hands.
PlaceInv ==
  /\ \A i, j \in DOMAIN queue : queue[i] = queue[j] => i = j
  /\ \A i \in DOMAIN queue : callerPc[queue[i]] # "idle"
  /\ senderPc \in Busy =>
       /\ current \in Requests /\ callerPc[current] # "idle"
       /\ \A i \in DOMAIN queue : queue[i] # current

\* The slot is the sender's, and only while it writes or waits for the answer.
SlotInv ==
  /\ inFlight # NoReq =>
       /\ inFlight = current /\ senderPc \in Sent
       /\ ~Done(inFlight) /\ writeStarted[inFlight]
  /\ senderPc = "write_start" => ~Done(current)
  /\ senderPc \in {"writing", "wrote"} => inFlight = current

\* Timing out and writing exclude each other.
WriteInv ==
  /\ \A r \in Requests : callerPc[r] = "expiring" => ~writeStarted[r]
  /\ \A r \in Requests : result[r] = "CLIENT_TIMEOUT" => ~writeStarted[r]
  /\ \A i \in DOMAIN written : writeStarted[written[i]]

\* stop() leaves nothing behind that could be written.
StopInv ==
  /\ stopperPc # "idle" => ~accepting
  /\ stopperPc \in {"join", "stopped"} =>
       active = NoReq /\ senderPc \notin {"write_start", "writing"}

IInv == TypeOK /\ LockInv /\ PlaceInv /\ SlotInv /\ WriteInv /\ StopInv

-----------------------------------------------------------------------------
USE DEF vars, lockVars, linkVars, reqVars, senderVars, readerVars, modemVars, histVars

LEMMA HeadTail ==
  ASSUME NEW S, NEW s \in Seq(S), s # <<>>
  PROVE  Head(s) \in S /\ Tail(s) \in Seq(S) /\ Len(Tail(s)) = Len(s) - 1
  OBVIOUS

LEMMA ThreadTypeStep ==
  ASSUME ThreadTypeOK, [Next]_vars PROVE ThreadTypeOK'
<1> USE WorkerAssumption DEF ThreadTypeOK, ThreadNames
<1>1. ASSUME NEW r \in Requests,
             SendSmsAdmits(r) \/ SendSmsRejects(r) \/ DeadlinePasses(r) \/ CallerStep(r)
      PROVE  ThreadTypeOK'
  BY <1>1 DEF SendSmsAdmits, SendSmsRejects, DeadlinePasses, CallerStep,
     TimeoutRequestLock, TimeoutRequestComplete, SendSmsReturns, CallerPcs
<1>2. ASSUME SenderStep \/ WriteRaises PROVE ThreadTypeOK'
  BY <1>2 DEF SenderStep, SenderPcs, SenderLoopHead, SenderGet, SenderActivate,
     SenderAwaitReady, SenderReadyCheck, SenderDropLock, SenderDrop, WriteCheck,
     WriteStart, WriteBytesLeave, WriteReturns, SenderConfirmWait,
     SenderConfirmTimeout, SenderClear, WriteRaises
<1>3. ASSUME NEW t \in {"reader", "stopper"},
             FailActiveLock(t) \/ FailActiveComplete(t)
      PROVE  ThreadTypeOK'
  BY <1>3 DEF FailActiveLock, FailActiveComplete, SetPc, PcOf, AfterFail,
     ReaderPcs, StopperPcs
<1>4. ASSUME ReaderOpens \/ ReaderOpenFails \/ ReaderExits PROVE ThreadTypeOK'
  BY <1>4 DEF ReaderOpens, ReaderOpenFails, ReaderExits, ReaderPcs, FailReasons
<1>9. ASSUME ReaderLosesPort PROVE ThreadTypeOK'
  <2>1. events' \in 0 .. MaxEvents
    BY <1>9 DEF ReaderLosesPort
  <2> QED
    BY <1>9, <2>1 DEF ReaderLosesPort, ReaderPcs, FailReasons
<1>5. ASSUME HandleGsmReady \/ HandleNetworkOrSimLoss \/ ResolveInFlight \/ ResolveComplete
      PROVE  ThreadTypeOK'
  BY <1>5 DEF HandleGsmReady, HandleNetworkOrSimLoss, ResolveInFlight,
     ResolveComplete, ReaderPcs, FailReasons
<1>6. ASSUME StopCutoff \/ StopDrain \/ StopJoin PROVE ThreadTypeOK'
  BY <1>6 DEF StopCutoff, StopDrain, StopJoin, StopperPcs, FailReasons
<1>7. ASSUME ModemTransmits \/ ModemFails \/ ModemDrops \/ ModemAnnouncesReady
      PROVE  ThreadTypeOK'
  BY <1>7 DEF ModemTransmits, ModemFails, ModemDrops, ModemAnnouncesReady
<1>10. ASSUME NEW k \in LossKinds, ModemLosesService(k) PROVE ThreadTypeOK'
  BY <1>10 DEF ModemLosesService
<1>8. CASE UNCHANGED vars
  BY <1>8
<1> QED
  BY <1>1, <1>2, <1>3, <1>4, <1>5, <1>6, <1>7, <1>8, <1>9, <1>10
     DEF Next, ReaderStep, StopperStep, Finished

LEMMA CompletionType ==
  ASSUME result \in [Requests -> Results], inFlight \in ReqOrNone,
         NEW r, NEW res \in Results
  PROVE  /\ CompleteRequest(r, res) => result' \in [Requests -> Results]
         /\ CompleteInFlight(r, res) =>
              result' \in [Requests -> Results] /\ inFlight' \in ReqOrNone
         /\ CompleteEither(r, res) =>
              result' \in [Requests -> Results] /\ inFlight' \in ReqOrNone
<1>1. CompleteRequest(r, res) => result' \in [Requests -> Results]
  BY DEF CompleteRequest
<1>2. CompleteInFlight(r, res) =>
        result' \in [Requests -> Results] /\ inFlight' \in ReqOrNone
  BY DEF CompleteInFlight, ReqOrNone
<1> QED  BY <1>1, <1>2 DEF CompleteEither

LEMMA RequestTypeStep ==
  ASSUME TypeOK, [Next]_vars PROVE RequestTypeOK'
<1> USE DEF RequestTypeOK
<1>0. RequestTypeOK  BY DEF TypeOK
<1>a. "SERVICE_STOPPING" \in Results /\ "TIMEOUT" \in Results
  BY DEF Results, FailReasons

<1>1. ASSUME NEW r \in Requests,
             SendSmsAdmits(r) \/ SendSmsRejects(r) \/ DeadlinePasses(r)
             \/ TimeoutRequestLock(r) \/ SendSmsReturns(r)
      PROVE  RequestTypeOK'
  BY <1>0, <1>1 DEF SendSmsAdmits, SendSmsRejects, DeadlinePasses, TimeoutRequestLock,
     SendSmsReturns
<1>2. ASSUME NEW r \in Requests, TimeoutRequestComplete(r) PROVE RequestTypeOK'
  BY <1>0, <1>2, CompletionType DEF TimeoutRequestComplete, Results, ReqOrNone
<1>3. ASSUME SenderLoopHead \/ SenderAwaitReady \/ SenderReadyCheck
             \/ SenderDropLock \/ WriteBytesLeave \/ SenderConfirmWait \/ SenderClear
      PROVE  RequestTypeOK'
  BY <1>0, <1>3 DEF SenderLoopHead, SenderAwaitReady, SenderReadyCheck, SenderDropLock,
     WriteBytesLeave, SenderConfirmWait, SenderClear, ReqOrNone
<1>4. ASSUME SenderGet PROVE RequestTypeOK'
  BY <1>0, <1>4, HeadTail DEF SenderGet, TypeOK, LineTypeOK, ReqOrNone
<1>5. ASSUME SenderActivate \/ WriteCheck PROVE RequestTypeOK'
  <2>1. \/ UNCHANGED result \/ CompleteRequest(current, "SERVICE_STOPPING")
        \/ CompleteRequest(current, "TIMEOUT")
    BY <1>5 DEF SenderActivate, WriteCheck
  <2>2. result' \in [Requests -> Results]
    BY <1>0, <1>a, <2>1, CompletionType
  <2> QED
    BY <1>0, <1>5, <2>2 DEF SenderActivate, WriteCheck
<1>6. ASSUME SenderDrop \/ SenderConfirmTimeout PROVE RequestTypeOK'
  BY <1>0, <1>6, CompletionType DEF SenderDrop, SenderConfirmTimeout, Results, ReqOrNone
<1>7. ASSUME WriteStart \/ WriteReturns \/ WriteRaises PROVE RequestTypeOK'
  BY <1>0, <1>7, CompletionType DEF WriteStart, WriteReturns, WriteRaises, Results, ReqOrNone
<1>8. ASSUME NEW t \in {"reader", "stopper"}, FailActiveLock(t) PROVE RequestTypeOK'
  BY <1>0, <1>8 DEF FailActiveLock, SetPc, ReqOrNone
<1>9. ASSUME NEW t \in {"reader", "stopper"}, FailActiveComplete(t) PROVE RequestTypeOK'
  BY <1>0, <1>9, CompletionType
     DEF FailActiveComplete, SetPc, ReqOrNone, TypeOK, ThreadTypeOK, Results
<1>10. ASSUME ReaderOpens \/ ReaderOpenFails \/ ReaderLosesPort \/ ReaderExits
              \/ HandleGsmReady \/ HandleNetworkOrSimLoss
       PROVE  RequestTypeOK'
  BY <1>0, <1>10 DEF ReaderOpens, ReaderOpenFails, ReaderLosesPort, ReaderExits,
     HandleGsmReady, HandleNetworkOrSimLoss
<1>11. ASSUME ResolveInFlight PROVE RequestTypeOK'
  BY <1>0, <1>11 DEF ResolveInFlight, Verdicts
<1>12. ASSUME ResolveComplete PROVE RequestTypeOK'
  BY <1>0, <1>12, CompletionType DEF ResolveComplete, Results, ReqOrNone, Verdicts
<1>13. ASSUME StopDrain PROVE RequestTypeOK'
  <2>1. UNCHANGED result \/ CompleteRequest(Head(queue), "SERVICE_STOPPING")
    BY <1>13 DEF StopDrain
  <2>2. result' \in [Requests -> Results]
    BY <1>0, <1>a, <2>1, CompletionType
  <2> QED
    BY <1>0, <1>13, <2>2 DEF StopDrain
<1>14. ASSUME StopCutoff \/ StopJoin \/ ModemTransmits \/ ModemFails \/ ModemDrops
              \/ ModemAnnouncesReady \/ \E k \in LossKinds : ModemLosesService(k)
       PROVE  RequestTypeOK'
  BY <1>0, <1>14 DEF StopCutoff, StopJoin, ModemTransmits, ModemFails, ModemDrops,
     ModemAnnouncesReady, ModemLosesService
<1>15. CASE UNCHANGED vars
  BY <1>0, <1>15
<1> QED
  BY <1>1, <1>2, <1>3, <1>4, <1>5, <1>6, <1>7, <1>8, <1>9, <1>10, <1>11, <1>12, <1>13,
     <1>14, <1>15
     DEF Next, CallerStep, SenderStep, ReaderStep, StopperStep, Finished

LEMMA LineTypeStep ==
  ASSUME TypeOK, PlaceInv, [Next]_vars PROVE LineTypeOK'
<1> USE DEF LineTypeOK
<1>0. LineTypeOK  BY DEF TypeOK
<1>1. ASSUME NEW r \in Requests, SendSmsAdmits(r) PROVE LineTypeOK'
  <2>1. Len(queue') <= Capacity
    BY <1>0, <1>1, WorkerAssumption DEF SendSmsAdmits, QueueHasRoom
  <2> QED
    BY <1>0, <1>1, <2>1 DEF SendSmsAdmits
<1>2. ASSUME NEW r \in Requests, SendSmsRejects(r) \/ DeadlinePasses(r) \/ CallerStep(r)
      PROVE  LineTypeOK'
  BY <1>0, <1>2 DEF SendSmsRejects, DeadlinePasses, CallerStep, TimeoutRequestLock,
     TimeoutRequestComplete, SendSmsReturns
<1>3. ASSUME SenderGet PROVE LineTypeOK'
  <2>1. queue # <<>> => Tail(queue) \in Seq(Requests) /\ Len(Tail(queue)) <= Capacity
    BY <1>0, HeadTail, WorkerAssumption
  <2> QED
    BY <1>0, <1>3, <2>1 DEF SenderGet
<1>4. ASSUME WriteBytesLeave PROVE LineTypeOK'
  BY <1>0, <1>4 DEF WriteBytesLeave, PlaceInv, Busy, SenderPcs
<1>5. ASSUME SenderLoopHead \/ SenderActivate \/ SenderAwaitReady \/ SenderReadyCheck
             \/ SenderDropLock \/ SenderDrop \/ WriteCheck \/ WriteStart
             \/ WriteReturns \/ WriteRaises \/ SenderConfirmWait
             \/ SenderConfirmTimeout \/ SenderClear
      PROVE  LineTypeOK'
  BY <1>0, <1>5 DEF SenderLoopHead, SenderActivate, SenderAwaitReady, SenderReadyCheck,
     SenderDropLock, SenderDrop, WriteCheck, WriteStart, WriteReturns,
     WriteRaises, SenderConfirmWait, SenderConfirmTimeout, SenderClear
<1>6. ASSUME NEW t \in {"reader", "stopper"}, FailActiveLock(t) \/ FailActiveComplete(t)
      PROVE  LineTypeOK'
  BY <1>0, <1>6 DEF FailActiveLock, FailActiveComplete
<1>7. ASSUME ReaderOpens \/ ReaderOpenFails \/ ReaderLosesPort \/ ReaderExits
             \/ ResolveComplete
      PROVE  LineTypeOK'
  <2>1. fromModem' \in {fromModem, <<>>}
    BY <1>7 DEF ReaderOpens, ReaderOpenFails, ReaderLosesPort, ReaderExits,
       ResolveComplete
  <2>2. fromModem' \in Seq(Lines)
    BY <1>0, <2>1, EmptySeq
  <2> QED
    BY <1>0, <1>7, <2>2 DEF ReaderOpens, ReaderOpenFails, ReaderLosesPort,
       ReaderExits, ResolveComplete
<1>8. ASSUME HandleGsmReady \/ HandleNetworkOrSimLoss \/ ResolveInFlight
      PROVE  LineTypeOK'
  BY <1>0, <1>8, HeadTail DEF HandleGsmReady, HandleNetworkOrSimLoss, ResolveInFlight
<1>9. ASSUME StopCutoff \/ StopJoin PROVE LineTypeOK'
  BY <1>0, <1>9 DEF StopCutoff, StopJoin
<1>10. ASSUME StopDrain PROVE LineTypeOK'
  <2>1. queue # <<>> => Tail(queue) \in Seq(Requests) /\ Len(Tail(queue)) <= Capacity
    BY <1>0, HeadTail, WorkerAssumption
  <2> QED
    BY <1>0, <1>10, <2>1 DEF StopDrain
<1>11. ASSUME ModemTransmits PROVE LineTypeOK'
  <2>1. Head(toModem) \in Requests /\ Tail(toModem) \in Seq(Requests)
    BY <1>0, <1>11, HeadTail DEF ModemTransmits
  <2>2. [kind |-> "SMS_SENT", req |-> Head(toModem)] \in Lines
    BY <2>1 DEF Lines, AnswerKinds, ReqOrNone
  <2>3. fromModem' \in Seq(Lines)
    BY <1>0, <1>11, <2>2 DEF ModemTransmits
  <2> QED
    BY <1>0, <1>11, <2>1, <2>3 DEF ModemTransmits
<1>12. ASSUME ModemFails PROVE LineTypeOK'
  <2>1. Head(toModem) \in Requests /\ Tail(toModem) \in Seq(Requests)
    BY <1>0, <1>12, HeadTail DEF ModemFails
  <2>2. [kind |-> "SMS_FAILED", req |-> Head(toModem)] \in Lines
    BY <2>1 DEF Lines, AnswerKinds, ReqOrNone
  <2>3. fromModem' \in Seq(Lines)
    BY <1>0, <1>12, <2>2 DEF ModemFails
  <2> QED
    BY <1>0, <1>12, <2>1, <2>3 DEF ModemFails
<1>13. ASSUME ModemDrops PROVE LineTypeOK'
  BY <1>0, <1>13, HeadTail DEF ModemDrops
<1>14. ASSUME NEW k \in LossKinds \cup {"GSM_READY"},
              (ModemAnnouncesReady /\ k = "GSM_READY") \/ ModemLosesService(k)
       PROVE  LineTypeOK'
  <2>1. [kind |-> k, req |-> NoReq] \in Lines
    BY DEF Lines, ReqOrNone
  <2>2. fromModem' = Append(fromModem, [kind |-> k, req |-> NoReq])
    BY <1>14 DEF ModemAnnouncesReady, ModemLosesService
  <2>3. fromModem' \in Seq(Lines)
    BY <1>0, <2>1, <2>2
  <2> QED
    BY <1>0, <1>14, <2>3 DEF ModemAnnouncesReady, ModemLosesService
<1>15. CASE UNCHANGED vars
  BY <1>0, <1>15
<1> QED
  BY <1>1, <1>2, <1>3, <1>4, <1>5, <1>6, <1>7, <1>8, <1>9, <1>10, <1>11, <1>12, <1>13,
     <1>14, <1>15
     DEF Next, SenderStep, ReaderStep, StopperStep, Finished
LEMMA LockStep ==
  ASSUME TypeOK, LockInv, [Next]_vars PROVE LockInv'
<1> USE WorkerAssumption DEF TypeOK, ThreadTypeOK, ThreadNames, LockInv
<1>1. ASSUME NEW r \in Requests,
             SendSmsAdmits(r) \/ SendSmsRejects(r) \/ DeadlinePasses(r) \/ CallerStep(r)
      PROVE  LockInv'
  BY <1>1 DEF SendSmsAdmits, SendSmsRejects, DeadlinePasses, CallerStep,
     TimeoutRequestLock, TimeoutRequestComplete, SendSmsReturns
<1>2. ASSUME SenderStep \/ WriteRaises PROVE LockInv'
  BY <1>2 DEF SenderStep, Holding, SenderLoopHead, SenderGet, SenderActivate,
     SenderAwaitReady, SenderReadyCheck, SenderDropLock, SenderDrop, WriteCheck,
     WriteStart, WriteBytesLeave, WriteReturns, SenderConfirmWait,
     SenderConfirmTimeout, SenderClear, WriteRaises
<1>3. ASSUME NEW t \in {"reader", "stopper"},
             FailActiveLock(t) \/ FailActiveComplete(t)
      PROVE  LockInv'
  BY <1>3 DEF FailActiveLock, FailActiveComplete, SetPc, PcOf, AfterFail
<1>4. ASSUME ReaderOpens \/ ReaderOpenFails \/ ReaderLosesPort \/ ReaderExits PROVE LockInv'
  BY <1>4 DEF ReaderOpens, ReaderOpenFails, ReaderLosesPort, ReaderExits
<1>5. ASSUME HandleGsmReady \/ HandleNetworkOrSimLoss \/ ResolveInFlight \/ ResolveComplete
      PROVE  LockInv'
  BY <1>5 DEF HandleGsmReady, HandleNetworkOrSimLoss, ResolveInFlight, ResolveComplete
<1>6. ASSUME StopCutoff \/ StopDrain \/ StopJoin PROVE LockInv'
  BY <1>6 DEF StopCutoff, StopDrain, StopJoin
<1>7. ASSUME ModemTransmits \/ ModemFails \/ ModemDrops \/ ModemAnnouncesReady
             \/ \E k \in LossKinds : ModemLosesService(k)
      PROVE  LockInv'
  BY <1>7 DEF ModemTransmits, ModemFails, ModemDrops, ModemAnnouncesReady,
     ModemLosesService
<1>8. CASE UNCHANGED vars
  BY <1>8
<1> QED
  BY <1>1, <1>2, <1>3, <1>4, <1>5, <1>6, <1>7, <1>8
     DEF Next, ReaderStep, StopperStep, Finished

LEMMA PlaceStep ==
  ASSUME TypeOK, PlaceInv, [Next]_vars PROVE PlaceInv'
<1> USE DEF TypeOK, PlaceInv
<1>0. queue # <<>> =>
        /\ Head(queue) = queue[1] /\ 1 \in DOMAIN queue
        /\ Len(Tail(queue)) = Len(queue) - 1
        /\ DOMAIN Tail(queue) = 1 .. Len(queue) - 1
        /\ \A i \in DOMAIN Tail(queue) : i + 1 \in DOMAIN queue /\ Tail(queue)[i] = queue[i + 1]
  BY DEF LineTypeOK
<1>t. queue \in Seq(Requests) /\ callerPc \in [Requests -> CallerPcs]
  BY DEF LineTypeOK, ThreadTypeOK
<1>1. ASSUME NEW r \in Requests, SendSmsAdmits(r) PROVE PlaceInv'
  <2>1. /\ DOMAIN queue' = DOMAIN queue \cup {Len(queue) + 1}
        /\ \A i \in DOMAIN queue : queue'[i] = queue[i]
        /\ queue'[Len(queue) + 1] = r
    BY <1>1, <1>t DEF SendSmsAdmits
  <2>2. \A i \in DOMAIN queue : queue[i] # r
    BY <1>1 DEF SendSmsAdmits
  <2>3. \A q \in Requests : callerPc'[q] = IF q = r THEN "waiting" ELSE callerPc[q]
    BY <1>1, <1>t DEF SendSmsAdmits
  <2>4. \A i \in DOMAIN queue : queue[i] \in Requests
    BY <1>t
  <2>5. senderPc \in Busy => current # r
    BY <1>1 DEF SendSmsAdmits
  <2> QED
    BY <1>1, <2>1, <2>2, <2>3, <2>4, <2>5 DEF SendSmsAdmits
<1>2. ASSUME NEW r \in Requests,
             SendSmsRejects(r) \/ DeadlinePasses(r) \/ CallerStep(r)
      PROVE  PlaceInv'
  <2>1. \A q \in Requests : callerPc[q] # "idle" => callerPc'[q] # "idle"
    BY <1>2, <1>t DEF SendSmsRejects, DeadlinePasses, CallerStep,
       TimeoutRequestLock, TimeoutRequestComplete, SendSmsReturns
  <2>2. UNCHANGED <<queue, senderPc, current>>
    BY <1>2 DEF SendSmsRejects, DeadlinePasses, CallerStep,
       TimeoutRequestLock, TimeoutRequestComplete, SendSmsReturns
  <2>3. \A i \in DOMAIN queue : queue[i] \in Requests
    BY <1>t
  <2> QED
    BY <2>1, <2>2, <2>3
<1>3. ASSUME SenderGet PROVE PlaceInv'
  <2>1. CASE queue = <<>>
    BY <1>3, <2>1 DEF SenderGet, Busy
  <2>2. CASE queue # <<>>
    <3>1. queue[1] \in Requests /\ callerPc[queue[1]] # "idle"
      BY <1>0, <1>t, <2>2
    <3>2. /\ queue' = Tail(queue) /\ current' = queue[1]
          /\ UNCHANGED callerPc
      BY <1>0, <1>3, <2>2 DEF SenderGet
    <3> QED
      BY <1>0, <2>2, <3>1, <3>2 
  <2> QED
    BY <2>1, <2>2
<1>4. ASSUME StopDrain PROVE PlaceInv'
  <2>1. CASE queue = <<>>
    BY <1>4, <2>1 DEF StopDrain
  <2>2. CASE queue # <<>>
    <3>1. /\ queue' = Tail(queue)
          /\ UNCHANGED <<callerPc, senderPc, current>>
      BY <1>4, <2>2 DEF StopDrain
    <3> QED
      BY <1>0, <2>2, <3>1
  <2> QED
    BY <2>1, <2>2
<1>5. ASSUME SenderLoopHead \/ SenderActivate \/ SenderAwaitReady \/ SenderReadyCheck
             \/ SenderDropLock \/ SenderDrop \/ WriteCheck \/ WriteStart
             \/ WriteBytesLeave \/ WriteReturns \/ WriteRaises \/ SenderConfirmWait
             \/ SenderConfirmTimeout \/ SenderClear
      PROVE  PlaceInv'
  BY <1>5 DEF Busy, SenderPcs, SenderLoopHead, SenderActivate, SenderAwaitReady,
     SenderReadyCheck, SenderDropLock, SenderDrop, WriteCheck, WriteStart,
     WriteBytesLeave, WriteReturns, WriteRaises, SenderConfirmWait,
     SenderConfirmTimeout, SenderClear
<1>6. ASSUME NEW t \in {"reader", "stopper"}, FailActiveLock(t) \/ FailActiveComplete(t)
      PROVE  PlaceInv'
  BY <1>6 DEF FailActiveLock, FailActiveComplete
<1>7. ASSUME ReaderOpens \/ ReaderOpenFails \/ ReaderLosesPort \/ ReaderExits
             \/ HandleGsmReady \/ HandleNetworkOrSimLoss \/ ResolveInFlight
             \/ ResolveComplete
      PROVE  PlaceInv'
  BY <1>7 DEF ReaderOpens, ReaderOpenFails, ReaderLosesPort, ReaderExits,
     HandleGsmReady, HandleNetworkOrSimLoss, ResolveInFlight, ResolveComplete
<1>8. ASSUME StopCutoff \/ StopJoin \/ ModemTransmits \/ ModemFails \/ ModemDrops
             \/ ModemAnnouncesReady \/ \E k \in LossKinds : ModemLosesService(k)
      PROVE  PlaceInv'
  BY <1>8 DEF StopCutoff, StopJoin, ModemTransmits, ModemFails, ModemDrops,
     ModemAnnouncesReady, ModemLosesService
<1>9. CASE UNCHANGED vars
  BY <1>9
<1> QED
  BY <1>1, <1>2, <1>3, <1>4, <1>5, <1>6, <1>7, <1>8, <1>9
     DEF Next, SenderStep, ReaderStep, StopperStep, Finished

LEMMA SlotStep ==
  ASSUME TypeOK, LockInv, PlaceInv, SlotInv, [Next]_vars PROVE SlotInv'
<1> USE DEF SlotInv, Sent, Done
<1>t. /\ result \in [Requests -> Results] /\ writeStarted \in [Requests -> BOOLEAN]
      /\ senderPc \in Busy => current \in Requests
      /\ "none" \notin Results \ {"none"} /\ NoReq \notin Requests
  BY WorkerAssumption DEF TypeOK, RequestTypeOK, PlaceInv
<1>s. inFlight # NoReq => inFlight \in Requests
  BY DEF TypeOK, RequestTypeOK, ReqOrNone
<1>b. Sent \cup {"write_start", "got", "write_check"} \subseteq Busy
  BY DEF Busy, SenderPcs
<1>1. ASSUME NEW r \in Requests,
             SendSmsAdmits(r) \/ SendSmsRejects(r) \/ DeadlinePasses(r)
             \/ TimeoutRequestLock(r) \/ SendSmsReturns(r)
      PROVE  SlotInv'
  BY <1>1 DEF SendSmsAdmits, SendSmsRejects, DeadlinePasses, TimeoutRequestLock,
     SendSmsReturns
<1>2. ASSUME NEW r \in Requests, TimeoutRequestComplete(r) PROVE SlotInv'
  <2>1. activeLock = r /\ senderPc \notin Holding
    BY <1>2, WorkerAssumption DEF TimeoutRequestComplete, LockInv, ThreadNames
  <2> QED
    BY <1>2, <2>1, <1>t, <1>s DEF TimeoutRequestComplete, CompleteRequest, Holding
<1>3. ASSUME SenderLoopHead \/ SenderGet \/ SenderAwaitReady \/ SenderReadyCheck
             \/ SenderDropLock \/ SenderConfirmWait \/ SenderClear
      PROVE  SlotInv'
  BY <1>3 DEF SenderLoopHead, SenderGet, SenderAwaitReady, SenderReadyCheck,
     SenderDropLock, SenderConfirmWait, SenderClear
<1>4. ASSUME SenderActivate \/ WriteCheck PROVE SlotInv'
  BY <1>4 DEF SenderActivate, WriteCheck
<1>5. ASSUME SenderDrop \/ SenderConfirmTimeout PROVE SlotInv'
  BY <1>5 DEF SenderDrop, SenderConfirmTimeout, CompleteEither, CompleteInFlight
<1>6. ASSUME WriteStart PROVE SlotInv'
  BY <1>6, <1>t, <1>b DEF WriteStart
<1>7. ASSUME WriteBytesLeave \/ WriteReturns \/ WriteRaises PROVE SlotInv'
  BY <1>7 DEF WriteBytesLeave, WriteReturns, WriteRaises
<1>8. ASSUME NEW t \in {"reader", "stopper"}, FailActiveLock(t) PROVE SlotInv'
  BY <1>8 DEF FailActiveLock
<1>9. ASSUME NEW t \in {"reader", "stopper"}, FailActiveComplete(t) PROVE SlotInv'
  <2>1. senderPc \notin Holding
    BY <1>9 DEF FailActiveComplete, PcOf, LockInv
  <2> QED
    BY <1>9, <2>1, <1>t, <1>s DEF FailActiveComplete, CompleteEither,
       CompleteInFlight, CompleteRequest, Holding
<1>10. ASSUME ReaderOpens \/ ReaderOpenFails \/ ReaderLosesPort \/ ReaderExits
              \/ HandleGsmReady \/ HandleNetworkOrSimLoss \/ ResolveInFlight
       PROVE  SlotInv'
  BY <1>10 DEF ReaderOpens, ReaderOpenFails, ReaderLosesPort, ReaderExits,
     HandleGsmReady, HandleNetworkOrSimLoss, ResolveInFlight
<1>11. ASSUME ResolveComplete PROVE SlotInv'
  <2>1. CASE inFlight # candidate
    BY <1>11, <2>1 DEF ResolveComplete, CompleteInFlight
  <2>2. CASE inFlight = candidate
    <3>1. /\ inFlight' = NoReq /\ UNCHANGED <<senderPc, current>>
          /\ senderPc \notin {"writing", "wrote"}
      BY <1>11, <2>2 DEF ResolveComplete, CompleteInFlight, InFlightLockFree
    <3>2. senderPc = "write_start" => inFlight = NoReq
      OBVIOUS
    <3>3. senderPc = "write_start" => ~Done(current)'
      BY <1>11, <1>t, <1>b, <2>2, <3>1, <3>2 DEF ResolveComplete, CompleteInFlight
    <3> QED
      BY <3>1, <3>3
  <2> QED
    BY <2>1, <2>2
<1>12. ASSUME StopDrain PROVE SlotInv'
  <2>1. CASE queue = <<>>
    BY <1>12, <2>1 DEF StopDrain
  <2>2. CASE queue # <<>>
    <3>1. Head(queue) = queue[1] /\ 1 \in DOMAIN queue
      BY <2>2 DEF TypeOK, LineTypeOK
    <3>2. senderPc \in Busy => Head(queue) # current
      BY <3>1 DEF PlaceInv
    <3>3. UNCHANGED <<inFlight, senderPc, current, writeStarted>>
      BY <1>12, <2>2 DEF StopDrain
    <3>4. senderPc \in Busy => result'[current] = result[current]
      BY <1>12, <1>t, <2>2, <3>2 DEF StopDrain, CompleteRequest
    <3> QED
      BY <1>b, <3>3, <3>4
  <2> QED
    BY <2>1, <2>2
<1>13. ASSUME StopCutoff \/ StopJoin \/ ModemTransmits \/ ModemFails \/ ModemDrops
              \/ ModemAnnouncesReady \/ \E k \in LossKinds : ModemLosesService(k)
       PROVE  SlotInv'
  BY <1>13 DEF StopCutoff, StopJoin, ModemTransmits, ModemFails, ModemDrops,
     ModemAnnouncesReady, ModemLosesService
<1>14. CASE UNCHANGED vars
  BY <1>14
<1> QED
  BY <1>1, <1>2, <1>3, <1>4, <1>5, <1>6, <1>7, <1>8, <1>9, <1>10, <1>11, <1>12, <1>13, <1>14
     DEF Next, CallerStep, SenderStep, ReaderStep, StopperStep, Finished

\* What a completion helper does to the results: those of the others stay, and
\* its own becomes res or stays.
LEMMA CompletionEffect ==
  ASSUME result \in [Requests -> Results], NEW r, NEW res,
         \/ CompleteRequest(r, res) \/ CompleteInFlight(r, res) \/ CompleteEither(r, res)
  PROVE  \A q \in Requests : result'[q] = result[q] \/ (q = r /\ result'[q] = res)
  BY DEF CompleteRequest, CompleteInFlight, CompleteEither

LEMMA WriteStep ==
  ASSUME TypeOK, LockInv, PlaceInv, SlotInv, WriteInv, [Next]_vars PROVE WriteInv'
<1> USE DEF WriteInv
<1>t. /\ result \in [Requests -> Results] /\ writeStarted \in [Requests -> BOOLEAN]
      /\ written \in Seq(Requests) /\ callerPc \in [Requests -> CallerPcs]
  BY DEF TypeOK, RequestTypeOK, LineTypeOK, ThreadTypeOK
<1>c. ASSUME UNCHANGED <<writeStarted, written>>,
             \A r \in Requests : callerPc'[r] = "expiring" => callerPc[r] = "expiring",
             NEW r, NEW res, res # "CLIENT_TIMEOUT",
             \/ CompleteRequest(r, res) \/ CompleteInFlight(r, res)
             \/ CompleteEither(r, res) \/ UNCHANGED result
      PROVE  WriteInv'
  BY <1>c, <1>t, CompletionEffect
<1>1. ASSUME NEW r \in Requests,
             SendSmsAdmits(r) \/ SendSmsRejects(r) \/ DeadlinePasses(r)
             \/ TimeoutRequestLock(r) \/ SendSmsReturns(r)
      PROVE  WriteInv'
  BY <1>1, <1>t DEF SendSmsAdmits, SendSmsRejects, DeadlinePasses,
     TimeoutRequestLock, MayTimeOut, SendSmsReturns
<1>2. ASSUME NEW r \in Requests, TimeoutRequestComplete(r) PROVE WriteInv'
  <2>1. ~writeStarted[r]
    BY <1>2 DEF TimeoutRequestComplete
  <2>2. \A q \in Requests : callerPc'[q] = "expiring" => callerPc[q] = "expiring"
    BY <1>2, <1>t DEF TimeoutRequestComplete
  <2>3. \A q \in Requests : result'[q] = result[q] \/ q = r
    BY <1>2, <1>t, CompletionEffect DEF TimeoutRequestComplete
  <2> QED
    BY <1>2, <2>1, <2>2, <2>3 DEF TimeoutRequestComplete
<1>3. ASSUME SenderLoopHead \/ SenderGet \/ SenderAwaitReady \/ SenderReadyCheck
             \/ SenderDropLock \/ SenderConfirmWait \/ SenderClear
      PROVE  WriteInv'
  BY <1>3 DEF SenderLoopHead, SenderGet, SenderAwaitReady, SenderReadyCheck,
     SenderDropLock, SenderConfirmWait, SenderClear
<1>4. ASSUME SenderActivate \/ WriteCheck PROVE WriteInv'
  BY <1>4, <1>c DEF SenderActivate, WriteCheck
<1>5. ASSUME SenderDrop \/ SenderConfirmTimeout PROVE WriteInv'
  BY <1>5, <1>c DEF SenderDrop, SenderConfirmTimeout
<1>6. ASSUME WriteStart PROVE WriteInv'
  <2>1. current \in Requests /\ callerPc[current] # "expiring" /\ ~Done(current)
    BY <1>6, WorkerAssumption
       DEF WriteStart, PlaceInv, Busy, SenderPcs, LockInv, Holding, SlotInv, ThreadNames
  <2>2. \A q \in Requests : result'[q] = result[q] \/ (q = current /\ result'[q] = "WRITE_ERROR")
    BY <1>6, <1>t, CompletionEffect DEF WriteStart
  <2>3. \A q \in Requests : writeStarted'[q] = (q = current \/ writeStarted[q])
    BY <1>6, <1>t DEF WriteStart
  <2>4. UNCHANGED <<callerPc, written>>
    BY <1>6 DEF WriteStart
  <2>5. \A i \in DOMAIN written : written[i] \in Requests
    BY <1>t
  <2> QED
    BY <2>1, <2>2, <2>3, <2>4, <2>5 DEF Done
<1>7. ASSUME WriteBytesLeave PROVE WriteInv'
  <2>1. writeStarted[current]
    BY <1>7, WorkerAssumption
       DEF WriteBytesLeave, SlotInv, PlaceInv, Busy, SenderPcs
  <2>2. /\ DOMAIN written' = DOMAIN written \cup {Len(written) + 1}
        /\ \A i \in DOMAIN written : written'[i] = written[i]
        /\ written'[Len(written) + 1] = current
    BY <1>7, <1>t DEF WriteBytesLeave, PlaceInv, Busy, SenderPcs
  <2> QED
    BY <1>7, <2>1, <2>2 DEF WriteBytesLeave
<1>8. ASSUME WriteReturns \/ WriteRaises PROVE WriteInv'
  BY <1>8, <1>c DEF WriteReturns, WriteRaises
<1>9. ASSUME NEW t \in {"reader", "stopper"}, FailActiveLock(t) PROVE WriteInv'
  BY <1>9 DEF FailActiveLock
<1>10. ASSUME NEW t \in {"reader", "stopper"}, FailActiveComplete(t) PROVE WriteInv'
  <2>1. failReason[t] # "CLIENT_TIMEOUT"
    BY DEF TypeOK, ThreadTypeOK, FailReasons
  <2> QED
    BY <1>10, <1>c, <2>1 DEF FailActiveComplete
<1>11. ASSUME ReaderOpens \/ ReaderOpenFails \/ ReaderLosesPort \/ ReaderExits
              \/ HandleGsmReady \/ HandleNetworkOrSimLoss \/ ResolveInFlight
       PROVE  WriteInv'
  BY <1>11 DEF ReaderOpens, ReaderOpenFails, ReaderLosesPort, ReaderExits,
     HandleGsmReady, HandleNetworkOrSimLoss, ResolveInFlight
<1>12. ASSUME ResolveComplete PROVE WriteInv'
  <2>1. verdict # "CLIENT_TIMEOUT"
    BY DEF TypeOK, RequestTypeOK, Verdicts
  <2> QED
    BY <1>12, <1>c, <2>1 DEF ResolveComplete
<1>13. ASSUME StopDrain PROVE WriteInv'
  BY <1>13, <1>c DEF StopDrain
<1>14. ASSUME StopCutoff \/ StopJoin \/ ModemTransmits \/ ModemFails \/ ModemDrops
              \/ ModemAnnouncesReady \/ \E k \in LossKinds : ModemLosesService(k)
       PROVE  WriteInv'
  BY <1>14 DEF StopCutoff, StopJoin, ModemTransmits, ModemFails, ModemDrops,
     ModemAnnouncesReady, ModemLosesService
<1>15. CASE UNCHANGED vars
  BY <1>15
<1> QED
  BY <1>1, <1>2, <1>3, <1>4, <1>5, <1>6, <1>7, <1>8, <1>9, <1>10, <1>11, <1>12,
     <1>13, <1>14, <1>15
     DEF Next, CallerStep, SenderStep, ReaderStep, StopperStep, Finished

LEMMA StopStep ==
  ASSUME TypeOK, LockInv, PlaceInv, StopInv, [Next]_vars PROVE StopInv'
<1> USE DEF StopInv
<1>1. ASSUME NEW r \in Requests,
             SendSmsAdmits(r) \/ SendSmsRejects(r) \/ DeadlinePasses(r) \/ CallerStep(r)
      PROVE  StopInv'
  BY <1>1 DEF SendSmsAdmits, SendSmsRejects, DeadlinePasses, CallerStep,
     TimeoutRequestLock, TimeoutRequestComplete, SendSmsReturns
<1>2. ASSUME WriteCheck PROVE StopInv'
  <2>1. current # NoReq
    BY <1>2, WorkerAssumption DEF WriteCheck, PlaceInv, Busy, SenderPcs
  <2> QED
    BY <1>2, <2>1 DEF WriteCheck
<1>3. ASSUME SenderLoopHead \/ SenderGet \/ SenderActivate \/ SenderAwaitReady
             \/ SenderReadyCheck \/ SenderDropLock \/ SenderDrop \/ WriteStart
             \/ WriteBytesLeave \/ WriteReturns \/ WriteRaises \/ SenderConfirmWait
             \/ SenderConfirmTimeout \/ SenderClear
      PROVE  StopInv'
  BY <1>3 DEF SenderLoopHead, SenderGet, SenderActivate, MayStart,
     SenderAwaitReady, SenderReadyCheck, SenderDropLock, SenderDrop, WriteStart, WriteBytesLeave,
     WriteReturns, WriteRaises, SenderConfirmWait, SenderConfirmTimeout, SenderClear
<1>4. ASSUME FailActiveLock("stopper") \/ FailActiveComplete("stopper") PROVE StopInv'
  <2>1. senderPc \notin Holding \/ active' = active
    BY <1>4, WorkerAssumption
       DEF FailActiveLock, FailActiveComplete, LockInv, PcOf, ThreadNames
  <2>2. stopperPc' = "join" => senderPc \notin Holding
    BY <1>4, WorkerAssumption
       DEF FailActiveLock, FailActiveComplete, LockInv, PcOf, SetPc, ThreadNames
  <2> QED
    BY <1>4, <2>1, <2>2
       DEF FailActiveLock, FailActiveComplete, SetPc, PcOf, AfterFail, Holding
<1>5. ASSUME FailActiveLock("reader") \/ FailActiveComplete("reader") PROVE StopInv'
  BY <1>5 DEF FailActiveLock, FailActiveComplete, SetPc
<1>6. ASSUME ReaderOpens \/ ReaderOpenFails \/ ReaderLosesPort \/ ReaderExits
             \/ HandleGsmReady \/ HandleNetworkOrSimLoss \/ ResolveInFlight
             \/ ResolveComplete
      PROVE  StopInv'
  BY <1>6 DEF ReaderOpens, ReaderOpenFails, ReaderLosesPort, ReaderExits,
     HandleGsmReady, HandleNetworkOrSimLoss, ResolveInFlight, ResolveComplete
<1>7. ASSUME StopCutoff \/ StopDrain \/ StopJoin PROVE StopInv'
  BY <1>7 DEF StopCutoff, StopDrain, StopJoin
<1>8. ASSUME ModemTransmits \/ ModemFails \/ ModemDrops PROVE StopInv'
  BY <1>8 DEF ModemTransmits, ModemFails, ModemDrops
<1>10. ASSUME ModemAnnouncesReady \/ \E k \in LossKinds : ModemLosesService(k)
       PROVE  StopInv'
  <2>1. UNCHANGED <<accepting, active, senderPc, stopperPc>>
    BY <1>10 DEF ModemAnnouncesReady, ModemLosesService
  <2> QED
    BY <2>1
<1>9. CASE UNCHANGED vars
  BY <1>9
<1> QED
  BY <1>1, <1>2, <1>3, <1>4, <1>5, <1>6, <1>7, <1>8, <1>9, <1>10
     DEF Next, SenderStep, ReaderStep, StopperStep, Finished

-----------------------------------------------------------------------------
LEMMA InitInv == Init => IInv
<1> SUFFICES ASSUME Init PROVE IInv
  OBVIOUS
<1>1. ThreadTypeOK
  <2>1. failReason \in [{"reader", "stopper"} -> FailReasons \cup {"none"}]
    BY DEF Init
  <2>2. callerPc \in [Requests -> CallerPcs]
    BY DEF Init, CallerPcs
  <2>3. /\ accepting = TRUE /\ stopSet = FALSE /\ activeLock = "free"
        /\ serOpen = FALSE /\ connected = FALSE /\ gsmReady = FALSE
        /\ senderPc = "loop" /\ readerPc = "closed" /\ stopperPc = "idle"
        /\ events = 0
    BY DEF Init
  <2>4. events \in 0 .. MaxEvents
    BY <2>3, WorkerAssumption
  <2>5. /\ activeLock \in Requests \cup ThreadNames /\ senderPc \in SenderPcs
        /\ readerPc \in ReaderPcs /\ stopperPc \in StopperPcs
    BY <2>3 DEF ThreadNames, SenderPcs, ReaderPcs, StopperPcs
  <2> QED
    BY <2>1, <2>2, <2>3, <2>4, <2>5 DEF ThreadTypeOK
<1>2. RequestTypeOK
  BY DEF Init, RequestTypeOK, ReqOrNone, Results, Verdicts
<1>3. LineTypeOK
  BY EmptySeq, WorkerAssumption DEF Init, LineTypeOK
<1>4. LockInv /\ PlaceInv /\ SlotInv /\ StopInv
  BY DEF Init, LockInv, PlaceInv, SlotInv, StopInv, Holding, Busy
<1>5. WriteInv
  BY DEF Init, WriteInv
<1> QED
  BY <1>1, <1>2, <1>3, <1>4, <1>5 DEF IInv, TypeOK

LEMMA StepInv == IInv /\ [Next]_vars => IInv'
<1> SUFFICES ASSUME IInv, [Next]_vars PROVE IInv'
  OBVIOUS
<1>1. TypeOK'
  BY ThreadTypeStep, RequestTypeStep, LineTypeStep DEF IInv, TypeOK
<1> QED
  BY <1>1, LockStep, PlaceStep, SlotStep, WriteStep, StopStep DEF IInv

\* The inductive invariant of the worker.
THEOREM Invariance == Spec => []IInv
  BY InitInv, StepInv, PTL DEF Spec

\* Every variable keeps its type, and the queue never exceeds the capacity it
\* was configured with.
THEOREM Typing == Spec => []TypeOK
<1>1. IInv => TypeOK
  BY DEF IInv
<1> QED
  BY <1>1, Invariance, PTL

\* A caller that is told CLIENT_TIMEOUT may retry: its SMS was not written to
\* the Arduino and never will be, for any number of callers.
THEOREM ClientTimeoutSafe == Spec => []ClientTimeoutNeverWritten
<1>1. IInv => ClientTimeoutNeverWritten
  BY DEF IInv, WriteInv, ClientTimeoutNeverWritten, ToSet
<1> QED
  BY <1>1, Invariance, PTL

\* The in-flight slot holds nothing but the sender's own unfinished request.
THEOREM SlotSafe == Spec => []InFlightIsLive
<1>1. IInv => InFlightIsLive
  BY DEF IInv, SlotInv, InFlightIsLive, Sent
<1> QED
  BY <1>1, Invariance, PTL

\* After stop() has failed the active request nothing is written any more.
THEOREM ShutdownSafe == Spec => ShutdownQuiesces
<1>1. IInv /\ [Next]_vars =>
        [(stopperPc \in {"join", "stopped"}) => (written' = written)]_vars
  <2> SUFFICES ASSUME IInv, Next, stopperPc \in {"join", "stopped"}
               PROVE  written' = written
    OBVIOUS
  <2>1. ~WriteBytesLeave /\ ~accepting
    BY DEF IInv, StopInv, WriteBytesLeave
  <2> QED
    BY <2>1 DEF Next, CallerStep, SenderStep, ReaderStep, StopperStep, Finished,
       SendSmsAdmits, SendSmsRejects, DeadlinePasses, TimeoutRequestLock,
       TimeoutRequestComplete, SendSmsReturns, SenderLoopHead, SenderGet,
       SenderActivate, SenderAwaitReady, SenderReadyCheck, SenderDropLock,
       SenderDrop, WriteCheck, WriteStart, WriteReturns, WriteRaises,
       SenderConfirmWait, SenderConfirmTimeout, SenderClear, FailActiveLock,
       FailActiveComplete, ReaderOpens, ReaderOpenFails, ReaderLosesPort,
       ReaderExits, HandleGsmReady, HandleNetworkOrSimLoss, ResolveInFlight,
       ResolveComplete, StopCutoff, StopDrain, StopJoin, ModemTransmits,
       ModemFails, ModemDrops, ModemAnnouncesReady, ModemLosesService
<1> QED
  BY <1>1, Invariance, PTL DEF Spec, ShutdownQuiesces

\* No step changes a result that is there.
LEMMA ResultStays ==
  ASSUME IInv, [Next]_vars, NEW q \in Requests, Done(q)
  PROVE  result'[q] = result[q]
<1>u. SUFFICES ASSUME Next PROVE result'[q] = result[q]
  OBVIOUS
<1>t. result \in [Requests -> Results] /\ inFlight # q
  BY WorkerAssumption DEF IInv, TypeOK, RequestTypeOK, SlotInv
<1>c. ASSUME NEW r, NEW res,
             \/ CompleteRequest(r, res) \/ CompleteInFlight(r, res)
             \/ CompleteEither(r, res)
      PROVE  result'[q] = result[q]
  BY <1>c, <1>t DEF CompleteRequest, CompleteInFlight, CompleteEither, Done
<1>1. ASSUME NEW r \in Requests,
             SendSmsAdmits(r) \/ SendSmsRejects(r) \/ DeadlinePasses(r) \/ CallerStep(r)
      PROVE  result'[q] = result[q]
  BY <1>1, <1>c DEF SendSmsAdmits, SendSmsRejects, DeadlinePasses, CallerStep,
     TimeoutRequestLock, TimeoutRequestComplete, SendSmsReturns
<1>2. ASSUME SenderLoopHead \/ SenderGet \/ SenderAwaitReady \/ SenderReadyCheck
             \/ SenderDropLock \/ WriteBytesLeave \/ WriteReturns
             \/ SenderConfirmWait \/ SenderClear
      PROVE  result'[q] = result[q]
  BY <1>2 DEF SenderLoopHead, SenderGet, SenderAwaitReady, SenderReadyCheck,
     SenderDropLock, WriteBytesLeave, WriteReturns, SenderConfirmWait, SenderClear
<1>3. ASSUME SenderActivate \/ SenderDrop \/ WriteCheck \/ WriteStart
             \/ WriteRaises \/ SenderConfirmTimeout
      PROVE  result'[q] = result[q]
  BY <1>3, <1>c DEF SenderActivate, SenderDrop, WriteCheck, WriteStart,
     WriteRaises, SenderConfirmTimeout
<1>4. ASSUME NEW t \in {"reader", "stopper"},
             FailActiveLock(t) \/ FailActiveComplete(t)
      PROVE  result'[q] = result[q]
  BY <1>4, <1>c DEF FailActiveLock, FailActiveComplete
<1>5. ASSUME ReaderOpens \/ ReaderOpenFails \/ ReaderLosesPort \/ ReaderExits
             \/ HandleGsmReady \/ HandleNetworkOrSimLoss \/ ResolveInFlight
             \/ ResolveComplete
      PROVE  result'[q] = result[q]
  BY <1>5, <1>c DEF ReaderOpens, ReaderOpenFails, ReaderLosesPort, ReaderExits,
     HandleGsmReady, HandleNetworkOrSimLoss, ResolveInFlight, ResolveComplete
<1>6. ASSUME StopCutoff \/ StopDrain \/ StopJoin \/ Finished
      PROVE  result'[q] = result[q]
  BY <1>6, <1>c DEF StopCutoff, StopDrain, StopJoin, Finished
<1>7. ASSUME ModemTransmits \/ ModemFails \/ ModemDrops \/ ModemAnnouncesReady
             \/ \E k \in LossKinds : ModemLosesService(k)
      PROVE  result'[q] = result[q]
  BY <1>7 DEF ModemTransmits, ModemFails, ModemDrops, ModemAnnouncesReady,
     ModemLosesService
<1> QED
  BY <1>1, <1>2, <1>3, <1>4, <1>5, <1>6, <1>7
     DEF Next, SenderStep, ReaderStep, StopperStep

\* Whatever order timeout, failure, confirmation and shutdown come in, the
\* first completion of a request is the only one.
THEOREM CompletionSafe == Spec => CompletedOnce
<1>1. IInv /\ [Next]_vars =>
        [\A r \in Requests : Done(r) => result'[r] = result[r]]_vars
  BY ResultStays
<1> QED
  BY <1>1, Invariance, PTL DEF Spec, CompletedOnce

-----------------------------------------------------------------------------
(* The worker implements SmsDispatch: every step of its threads is a step  *)
(* of the promise or invisible in it, for any number of callers and any    *)
(* behaviour of modem and link.                                            *)
(*                                                                         *)
(* The argument: the queue holds the last requests admitted, and whatever  *)
(* left it is completed or in the sender's hands (QueueInv), so the SMS    *)
(* that is written is the oldest without an answer; what is completed was  *)
(* admitted and not returned (AdmittedInv, ActiveInv); what the modem      *)
(* confirms was written, and nothing twice (WrittenInv).                   *)

\* How many requests have left the queue, and that r is one of them.
Gone == Len(admitted) - Len(queue)
Taken(r) == \E i \in 1 .. Gone : admitted[i] = r

\* A request is admitted once, and its call returns with a result.
AdmittedInv ==
  /\ \A i, j \in DOMAIN admitted : admitted[i] = admitted[j] => i = j
  /\ \A i \in DOMAIN admitted :
       callerPc[admitted[i]] \in {"waiting", "expiring", "returned"}
  /\ \A r \in Requests : callerPc[r] = "returned" => Done(r)

\* The queue is the end of the admitted; the others are completed, but for the
\* sender's.
QueueInv ==
  /\ Gone >= 0
  /\ \A j \in DOMAIN queue : queue[j] = admitted[Gone + j]
  /\ \A i \in 1 .. Gone :
       Done(admitted[i]) \/ (senderPc \in Busy /\ current = admitted[i])
  /\ senderPc \in Busy => Taken(current)

\* The sender lets go of a request only when it is completed.
ActiveInv ==
  /\ active # NoReq => Taken(active)
  /\ senderPc \in Busy \ {"got"} => active = current \/ Done(current)
  /\ senderPc = "clear" => Done(current)
  /\ senderPc \in {"confirm", "confirm_timeout"} => inFlight = current \/ Done(current)
  /\ "failing" \in {readerPc, stopperPc} => active # NoReq

\* A request is written once, by the sender that holds it.
Unwritten == Busy \ {"wrote", "confirm", "confirm_timeout", "clear"}

WrittenInv ==
  /\ \A i \in DOMAIN written : Taken(written[i])
  /\ senderPc \in Unwritten => \A i \in DOMAIN written : written[i] # current
  /\ senderPc \in {"wrote", "confirm", "confirm_timeout"} =>
       \E i \in DOMAIN written : written[i] = current

\* A verdict or a failure on its way says which.
ReasonInv ==
  /\ readerPc = "resolve" => verdict # "none"
  /\ readerPc \in {"fail", "failing"} => failReason["reader"] # "none"
  /\ stopperPc \in {"fail", "failing"} => failReason["stopper"] # "none"

RefInv == AdmittedInv /\ QueueInv /\ ActiveInv /\ WrittenInv /\ ReasonInv

-----------------------------------------------------------------------------
(* What steps do to the queue, the sender and the results.                 *)

LEMMA Types ==
  ASSUME TypeOK
  PROVE  /\ queue \in Seq(Requests) /\ admitted \in Seq(Requests)
         /\ written \in Seq(Requests) /\ result \in [Requests -> Results]
         /\ callerPc \in [Requests -> CallerPcs]
         /\ Len(queue) \in Nat /\ Len(admitted) \in Nat /\ Gone \in Int
BY DEF TypeOK, RequestTypeOK, LineTypeOK, ThreadTypeOK, Gone

LEMMA DoneStays ==
  ASSUME IInv, [Next]_vars
  PROVE  \A r \in Requests : Done(r) => Done(r)'
BY ResultStays DEF Done

\* The steps of the callers, and those of all the others.
CallerMoves(r) ==
  SendSmsAdmits(r) \/ SendSmsRejects(r) \/ DeadlinePasses(r) \/ CallerStep(r)

LEMMA CallersOnly ==
  ASSUME [Next]_vars, \A r \in Requests : ~CallerMoves(r)
  PROVE  UNCHANGED <<callerPc, admitted>>
<1>1. ASSUME SenderStep \/ WriteRaises PROVE UNCHANGED <<callerPc, admitted>>
  BY <1>1 DEF SenderStep, SenderLoopHead, SenderGet, SenderActivate, SenderAwaitReady,
     SenderReadyCheck, SenderDropLock, SenderDrop, WriteCheck, WriteStart,
     WriteBytesLeave, WriteReturns, WriteRaises, SenderConfirmWait,
     SenderConfirmTimeout, SenderClear
<1>2. ASSUME ReaderStep \/ ReaderOpens \/ ReaderLosesPort
      PROVE  UNCHANGED <<callerPc, admitted>>
  BY <1>2 DEF ReaderStep, ReaderOpens, ReaderLosesPort, ReaderOpenFails, ReaderExits,
     HandleGsmReady, HandleNetworkOrSimLoss, ResolveInFlight, ResolveComplete,
     FailActiveLock, FailActiveComplete
<1>3. ASSUME StopCutoff \/ StopperStep PROVE UNCHANGED <<callerPc, admitted>>
  BY <1>3 DEF StopCutoff, StopperStep, StopDrain, StopJoin, FailActiveLock,
     FailActiveComplete
<1>4. ASSUME ModemTransmits \/ ModemFails \/ ModemDrops \/ ModemAnnouncesReady
             \/ \E k \in LossKinds : ModemLosesService(k)
      PROVE  UNCHANGED <<callerPc, admitted>>
  BY <1>4 DEF ModemTransmits, ModemFails, ModemDrops, ModemAnnouncesReady,
     ModemLosesService
<1> QED
  BY <1>1, <1>2, <1>3, <1>4 DEF Next, CallerMoves, Finished

LEMMA AdmittedStep ==
  ASSUME IInv, AdmittedInv, [Next]_vars PROVE AdmittedInv'
<1>t. /\ admitted \in Seq(Requests) /\ callerPc \in [Requests -> CallerPcs]
      /\ \A r \in Requests : Done(r) => Done(r)'
  BY Types, DoneStays DEF IInv
<1>1. ASSUME NEW r \in Requests, SendSmsAdmits(r) PROVE AdmittedInv'
  <2>1. /\ DOMAIN admitted' = DOMAIN admitted \cup {Len(admitted) + 1}
        /\ \A i \in DOMAIN admitted : admitted'[i] = admitted[i]
        /\ admitted'[Len(admitted) + 1] = r
    BY <1>1, <1>t DEF SendSmsAdmits
  <2>2. \A q \in Requests : callerPc'[q] = IF q = r THEN "waiting" ELSE callerPc[q]
    BY <1>1, <1>t DEF SendSmsAdmits
  <2>3. \A i \in DOMAIN admitted : admitted[i] \in Requests /\ admitted[i] # r
    BY <1>1, <1>t DEF SendSmsAdmits, AdmittedInv
  <2> QED
    BY <1>1, <1>t, <2>1, <2>2, <2>3 DEF AdmittedInv
<1>2. ASSUME NEW r \in Requests, SendSmsRejects(r) \/ DeadlinePasses(r) \/ CallerStep(r)
      PROVE  AdmittedInv'
  <2>1. /\ UNCHANGED admitted
        /\ \A q \in Requests : \/ callerPc'[q] = callerPc[q]
                               \/ callerPc[q] = "idle" /\ callerPc'[q] = "rejected"
                               \/ callerPc'[q] \in {"waiting", "expiring"}
                               \/ callerPc'[q] = "returned" /\ Done(q)
    BY <1>2, <1>t DEF SendSmsRejects, DeadlinePasses, CallerStep,
       TimeoutRequestLock, TimeoutRequestComplete, SendSmsReturns
  <2>2. \A i \in DOMAIN admitted : admitted[i] \in Requests
    BY <1>t
  <2> QED
    BY <1>t, <2>1, <2>2 DEF AdmittedInv
<1>3. ASSUME \A r \in Requests : ~CallerMoves(r) PROVE AdmittedInv'
  <2>1. UNCHANGED <<callerPc, admitted>>
    BY <1>3, CallersOnly
  <2> QED
    BY <1>t, <2>1 DEF AdmittedInv
<1> QED
  BY <1>1, <1>2, <1>3 DEF CallerMoves

\* The queue gains at its end what is admitted and loses its head.
QueueGains(r) ==
  /\ callerPc[r] = "idle"
  /\ queue' = Append(queue, r) /\ admitted' = Append(admitted, r)
QueueLoses ==
  queue # <<>> /\ queue' = Tail(queue) /\ UNCHANGED admitted

LEMMA GoneGrows ==
  ASSUME IInv, QueueInv,
         \/ UNCHANGED <<queue, admitted>> \/ QueueLoses
         \/ \E r \in Requests : QueueGains(r)
  PROVE  /\ Gone <= Gone' /\ Gone' \in Nat
         /\ \A i \in 1 .. Gone : i \in 1 .. Gone' /\ admitted'[i] = admitted[i]
         /\ \A r : Taken(r) => Taken(r)'
<1>t. /\ queue \in Seq(Requests) /\ admitted \in Seq(Requests) /\ Gone \in Nat
      /\ Len(queue) \in Nat /\ Len(admitted) \in Nat
  BY Types DEF IInv, QueueInv
<1>1. CASE UNCHANGED <<queue, admitted>>
  BY <1>1, <1>t DEF Gone, Taken
<1>2. CASE QueueLoses
  <2>1. Len(queue') = Len(queue) - 1 /\ admitted' = admitted
    BY <1>2, <1>t, HeadTail DEF QueueLoses
  <2>2. Gone' = Gone + 1
    BY <1>t, <2>1 DEF Gone
  <2> QED
    BY <1>t, <2>1, <2>2 DEF Taken
<1>3. ASSUME NEW r \in Requests, QueueGains(r)
      PROVE  Gone' = Gone /\ \A i \in 1 .. Gone : admitted'[i] = admitted[i]
  <2>1. Len(queue') = Len(queue) + 1 /\ Len(admitted') = Len(admitted) + 1
    BY <1>3, <1>t DEF QueueGains
  <2>2. Gone' = Gone
    BY <1>t, <2>1 DEF Gone
  <2>3. \A i \in 1 .. Gone : i \in 1 .. Len(admitted)
    BY <1>t DEF Gone
  <2> QED
    BY <1>3, <1>t, <2>2, <2>3 DEF QueueGains
<1> QED
  BY <1>1, <1>2, <1>3, <1>t DEF Taken

\* Everything but the sender leaves the sender alone.
LEMMA SenderOnly ==
  ASSUME [Next]_vars, ~SenderStep, ~WriteRaises
  PROVE  UNCHANGED <<senderPc, current, written, writeStarted>>
<1>1. ASSUME NEW r \in Requests, CallerMoves(r)
      PROVE  UNCHANGED <<senderPc, current, written, writeStarted>>
  BY <1>1 DEF CallerMoves, SendSmsAdmits, SendSmsRejects, DeadlinePasses, CallerStep,
     TimeoutRequestLock, TimeoutRequestComplete, SendSmsReturns
<1>2. ASSUME ReaderStep \/ ReaderOpens \/ ReaderLosesPort
      PROVE  UNCHANGED <<senderPc, current, written, writeStarted>>
  BY <1>2 DEF ReaderStep, ReaderOpens, ReaderLosesPort, ReaderOpenFails, ReaderExits,
     HandleGsmReady, HandleNetworkOrSimLoss, ResolveInFlight, ResolveComplete,
     FailActiveLock, FailActiveComplete
<1>3. ASSUME StopCutoff \/ StopperStep
      PROVE  UNCHANGED <<senderPc, current, written, writeStarted>>
  BY <1>3 DEF StopCutoff, StopperStep, StopDrain, StopJoin, FailActiveLock,
     FailActiveComplete
<1>4. ASSUME ModemTransmits \/ ModemFails \/ ModemDrops \/ ModemAnnouncesReady
             \/ \E k \in LossKinds : ModemLosesService(k)
      PROVE  UNCHANGED <<senderPc, current, written, writeStarted>>
  BY <1>4 DEF ModemTransmits, ModemFails, ModemDrops, ModemAnnouncesReady,
     ModemLosesService
<1> QED
  BY <1>1, <1>2, <1>3, <1>4 DEF Next, CallerMoves, Finished

\* A completion leaves its request completed.
LEMMA CompletionDone ==
  ASSUME result \in [Requests -> Results], NEW r \in Requests, NEW res, res # "none",
         \/ CompleteRequest(r, res) \/ CompleteEither(r, res)
         \/ CompleteInFlight(r, res) /\ (inFlight = r \/ Done(r))
  PROVE  Done(r)'
<1>1. CASE CompleteRequest(r, res)
  BY <1>1 DEF CompleteRequest, Done
<1>2. CASE CompleteInFlight(r, res) /\ (inFlight = r \/ Done(r))
  BY <1>2 DEF CompleteInFlight, Done
<1> QED
  BY <1>1, <1>2 DEF CompleteEither

\* The sender goes on with its request, or leaves it completed.
SenderKeeps ==
  /\ senderPc \in Busy /\ UNCHANGED <<queue, admitted, current>>
  /\ senderPc' \in Busy \/ Done(current)'

LEMMA SenderMoves ==
  ASSUME IInv, ActiveInv, SenderStep \/ WriteRaises
  PROVE  \/ UNCHANGED <<queue, admitted>> /\ senderPc \notin Busy /\ senderPc' \notin Busy
         \/ /\ QueueLoses /\ senderPc = "get"
            /\ senderPc' = "got" /\ current' = Head(queue)
         \/ SenderKeeps
<1>t. /\ result \in [Requests -> Results]
      /\ senderPc \in Busy => current \in Requests
  BY Types DEF IInv, PlaceInv
<1> USE DEF Busy, SenderPcs
<1>1. CASE SenderLoopHead
  BY <1>1 DEF SenderLoopHead
<1>2. CASE SenderGet
  BY <1>2 DEF SenderGet, QueueLoses
<1>3. CASE SenderActivate
  BY <1>3, <1>t, CompletionDone DEF SenderActivate, SenderKeeps
<1>4. CASE SenderAwaitReady \/ SenderReadyCheck \/ SenderConfirmWait \/ WriteReturns
           \/ WriteBytesLeave
  BY <1>4 DEF SenderAwaitReady, SenderReadyCheck, SenderConfirmWait, WriteReturns,
     WriteBytesLeave, SenderKeeps
<1>5. CASE SenderDropLock
  BY <1>5 DEF SenderDropLock, SenderKeeps, ActiveInv, Done
<1>6. CASE SenderDrop
  BY <1>6, <1>t, CompletionDone DEF SenderDrop, SenderKeeps
<1>7. CASE WriteCheck \/ WriteStart \/ WriteRaises \/ SenderConfirmTimeout
  BY <1>7 DEF WriteCheck, WriteStart, WriteRaises, SenderConfirmTimeout, SenderKeeps
<1>8. CASE SenderClear
  BY <1>8 DEF SenderClear, SenderKeeps, ActiveInv, Done
<1> QED
  BY <1>1, <1>2, <1>3, <1>4, <1>5, <1>6, <1>7, <1>8 DEF SenderStep

\* The four ways a step treats queue and sender.
QueueRests == UNCHANGED <<queue, admitted, senderPc, current>>
QueueDrains ==
  QueueLoses /\ UNCHANGED <<senderPc, current>> /\ result'[Head(queue)] # "none"

LEMMA QueueMoves ==
  ASSUME IInv, ActiveInv, [Next]_vars
  PROVE  \/ QueueRests \/ QueueDrains
         \/ \E r \in Requests : QueueGains(r) /\ UNCHANGED <<senderPc, current>>
         \/ SenderStep \/ WriteRaises
<1>t. queue \in Seq(Requests) /\ result \in [Requests -> Results]
  BY Types DEF IInv
<1>1. ASSUME NEW r \in Requests, SendSmsAdmits(r)
      PROVE  QueueGains(r) /\ UNCHANGED <<senderPc, current>>
  BY <1>1 DEF SendSmsAdmits, QueueGains
<1>2. ASSUME NEW r \in Requests, SendSmsRejects(r) \/ DeadlinePasses(r) \/ CallerStep(r)
      PROVE  QueueRests
  BY <1>2 DEF SendSmsRejects, DeadlinePasses, CallerStep, TimeoutRequestLock,
     TimeoutRequestComplete, SendSmsReturns, QueueRests
<1>3. ASSUME ReaderStep \/ ReaderOpens \/ ReaderLosesPort PROVE QueueRests
  BY <1>3 DEF ReaderStep, ReaderOpens, ReaderLosesPort, ReaderOpenFails, ReaderExits,
     HandleGsmReady, HandleNetworkOrSimLoss, ResolveInFlight, ResolveComplete,
     FailActiveLock, FailActiveComplete, QueueRests
<1>4. ASSUME StopCutoff \/ StopJoin \/ FailActiveLock("stopper")
             \/ FailActiveComplete("stopper")
      PROVE  QueueRests
  BY <1>4 DEF StopCutoff, StopJoin, FailActiveLock, FailActiveComplete, QueueRests
<1>5. ASSUME StopDrain PROVE QueueRests \/ QueueDrains
  <2>1. CASE queue = <<>>
    BY <1>5, <2>1 DEF StopDrain, QueueRests
  <2>2. CASE queue # <<>>
    <3>1. Head(queue) \in Requests
      BY <1>t, <2>2, HeadTail
    <3>2. result'[Head(queue)] # "none"
      BY <1>5, <1>t, <2>2, <3>1 DEF StopDrain, CompleteRequest
    <3> QED
      BY <1>5, <2>2, <3>2 DEF StopDrain, QueueDrains, QueueLoses
  <2> QED
    BY <2>1, <2>2
<1>6. ASSUME ModemTransmits \/ ModemFails \/ ModemDrops \/ ModemAnnouncesReady
             \/ \E k \in LossKinds : ModemLosesService(k)
      PROVE  QueueRests
  BY <1>6 DEF ModemTransmits, ModemFails, ModemDrops, ModemAnnouncesReady,
     ModemLosesService, QueueRests
<1>7. CASE UNCHANGED vars
  BY <1>7 DEF QueueRests
<1> QED
  BY <1>1, <1>2, <1>3, <1>4, <1>5, <1>6, <1>7 DEF Next, StopperStep, Finished


LEMMA QueueStep ==
  ASSUME IInv, AdmittedInv, QueueInv, ActiveInv, [Next]_vars PROVE QueueInv'
<1>t. /\ queue \in Seq(Requests) /\ admitted \in Seq(Requests) /\ Gone \in Nat
      /\ Len(queue) \in Nat /\ Len(admitted) \in Nat /\ Len(admitted) = Gone + Len(queue)
      /\ \A r \in Requests : Done(r) => Done(r)'
      /\ \A i \in 1 .. Gone : admitted[i] \in Requests
  BY Types, DoneStays DEF IInv, QueueInv, Gone
<1>s. queue \in Seq(Requests) /\ admitted \in Seq(Requests)
  BY <1>t
<1>1. ASSUME NEW r \in Requests, QueueGains(r), UNCHANGED <<senderPc, current>>
      PROVE  QueueInv'
  <2>1. Len(queue') = Len(queue) + 1 /\ Len(admitted') = Len(admitted) + 1
    BY <1>1, <1>s DEF QueueGains
  <2>2. Gone' = Gone
    BY <1>t, <2>1 DEF Gone
  <2>3. /\ \A i \in 1 .. Gone : admitted'[i] = admitted[i]
        /\ \A q : Taken(q) => Taken(q)'
    BY <1>1, GoneGrows
  <2>4. ASSUME NEW j \in DOMAIN queue' PROVE queue'[j] = admitted'[Gone + j]
    <3>1. j \in 1 .. Len(queue) + 1
      BY <1>1, <1>t DEF QueueGains
    <3>2. CASE j = Len(queue) + 1
      BY <1>1, <1>t, <3>2 DEF QueueGains
    <3>3. CASE j \in 1 .. Len(queue)
      <4>1. Gone + j \in 1 .. Len(admitted)
        BY <1>t, <3>3
      <4>2. queue'[j] = queue[j] /\ admitted'[Gone + j] = admitted[Gone + j]
        BY <1>1, <1>t, <3>3, <4>1 DEF QueueGains
      <4> QED
        BY <1>t, <3>3, <4>2 DEF QueueInv
    <3> QED
      BY <1>t, <3>1, <3>2, <3>3
  <2> QED
    BY <1>1, <1>t, <2>2, <2>3, <2>4 DEF QueueInv
<1>2. ASSUME QueueLoses
      PROVE  /\ Gone' = Gone + 1 /\ admitted[Gone + 1] = Head(queue)
             /\ \A j \in DOMAIN queue' : queue'[j] = admitted'[Gone' + j]
             /\ \E i \in 1 .. Gone' : admitted'[i] = Head(queue)
             /\ Head(queue) \in Requests
  <2>1. /\ Len(queue') = Len(queue) - 1 /\ admitted' = admitted
        /\ Head(queue) = queue[1] /\ 1 \in DOMAIN queue /\ Head(queue) \in Requests
        /\ \A j \in DOMAIN queue' : j \in Nat /\ j + 1 \in DOMAIN queue /\ queue'[j] = queue[j + 1]
    BY <1>2, <1>t DEF QueueLoses
  <2>2. Gone' = Gone + 1
    BY <1>t, <2>1 DEF Gone
  <2>3. admitted[Gone + 1] = Head(queue)
    BY <2>1 DEF QueueInv
  <2>4. \A j \in DOMAIN queue' : queue'[j] = admitted'[Gone' + j]
    <3>1. ASSUME NEW j \in DOMAIN queue' PROVE queue'[j] = admitted'[Gone' + j]
      <4>1. queue[j + 1] = admitted[Gone + (j + 1)]
        BY <2>1 DEF QueueInv
      <4>2. Gone + (j + 1) = Gone' + j
        BY <1>t, <2>1, <2>2
      <4> QED
        BY <2>1, <4>1, <4>2
    <3> QED
      BY <3>1
  <2>5. \E i \in 1 .. Gone' : admitted'[i] = Head(queue)
    BY <1>t, <2>1, <2>2, <2>3
  <2> QED
    BY <2>1, <2>2, <2>3, <2>4, <2>5
<1>3. CASE QueueRests
  <2>1. Gone' = Gone
    BY <1>3 DEF QueueRests, Gone
  <2> QED
    BY <1>3, <1>t, <2>1 DEF QueueInv, QueueRests, Taken
<1>4. CASE QueueDrains
  <2>1. QueueLoses /\ UNCHANGED <<senderPc, current>> /\ admitted' = admitted
    BY <1>4 DEF QueueDrains, QueueLoses
  <2>2. /\ Gone' = Gone + 1 /\ admitted[Gone + 1] = Head(queue)
        /\ \A j \in DOMAIN queue' : queue'[j] = admitted'[Gone' + j]
        /\ Head(queue) \in Requests
    BY <1>2, <2>1
  <2>3. ASSUME NEW i \in 1 .. Gone'
        PROVE  Done(admitted[i])' \/ (senderPc \in Busy /\ current = admitted[i])
    <3>1. CASE i = Gone + 1
      BY <1>4, <2>1, <2>2, <3>1 DEF QueueDrains, Done
    <3>2. CASE i \in 1 .. Gone
      <4>1. PICK q \in Requests : q = admitted[i]
        BY <1>t, <3>2
      <4>2. Done(q) \/ (senderPc \in Busy /\ current = q)
        BY <3>2, <4>1 DEF QueueInv
      <4>3. Done(q) => Done(q)'
        BY <1>t
      <4> QED
        BY <2>1, <4>1, <4>2, <4>3 DEF Done
    <3> QED
      BY <1>t, <2>2, <3>1, <3>2
  <2>4. senderPc \in Busy => Taken(current)'
    <3>1. Taken(current) => Taken(current)'
      BY <2>1, <2>2, <1>t DEF Taken
    <3> QED
      BY <3>1 DEF QueueInv
  <2> QED
    BY <1>t, <2>1, <2>2, <2>3, <2>4 DEF QueueInv, Done
<1>5. CASE /\ QueueLoses /\ senderPc = "get"
           /\ senderPc' = "got" /\ current' = Head(queue)
  <2>1. /\ Gone' = Gone + 1 /\ admitted[Gone + 1] = Head(queue)
        /\ \A j \in DOMAIN queue' : queue'[j] = admitted'[Gone' + j]
        /\ \E i \in 1 .. Gone' : admitted'[i] = Head(queue)
    BY <1>2, <1>5
  <2>2. admitted' = admitted /\ senderPc \notin Busy /\ senderPc' \in Busy
    BY <1>5 DEF QueueLoses, Busy, SenderPcs
  <2>3. ASSUME NEW i \in 1 .. Gone'
        PROVE  Done(admitted[i])' \/ (senderPc' \in Busy /\ current' = admitted'[i])
    <3>1. CASE i = Gone + 1
      BY <1>5, <2>1, <2>2, <3>1
    <3>2. CASE i \in 1 .. Gone
      <4>1. PICK q \in Requests : q = admitted[i]
        BY <1>t, <3>2
      <4>2. Done(q)
        BY <2>2, <3>2, <4>1 DEF QueueInv
      <4>3. Done(q)'
        BY <1>t, <4>2
      <4> QED
        BY <2>2, <4>1, <4>3 DEF Done
    <3> QED
      BY <1>t, <2>1, <3>1, <3>2
  <2>4. Taken(current)'
    BY <1>5, <2>1 DEF Taken
  <2> QED
    BY <1>t, <2>1, <2>2, <2>3, <2>4 DEF QueueInv, Done
<1>6. CASE \/ SenderKeeps
           \/ UNCHANGED <<queue, admitted>> /\ senderPc \notin Busy /\ senderPc' \notin Busy
  <2>1. UNCHANGED <<queue, admitted>> /\ Gone' = Gone
    BY <1>6 DEF SenderKeeps, Gone
  <2>2. ASSUME NEW i \in 1 .. Gone
        PROVE  Done(admitted[i])' \/ (senderPc' \in Busy /\ current' = admitted'[i])
    <3>1. PICK q \in Requests : q = admitted[i]
      BY <1>t
    <3>2. Done(q) \/ (senderPc \in Busy /\ current = q)
      BY <3>1 DEF QueueInv
    <3>3. Done(q) => Done(q)'
      BY <1>t
    <3> QED
      BY <1>6, <2>1, <3>1, <3>2, <3>3 DEF SenderKeeps, Done
  <2>3. senderPc' \in Busy => Taken(current)'
    BY <1>6, <2>1 DEF SenderKeeps, QueueInv, Taken
  <2> QED
    BY <1>t, <2>1, <2>2, <2>3 DEF QueueInv, Done
<1> QED
  BY <1>1, <1>3, <1>4, <1>5, <1>6, QueueMoves, SenderMoves

LEMMA QueueGrows ==
  ASSUME IInv, ActiveInv, [Next]_vars
  PROVE  \/ UNCHANGED <<queue, admitted>> \/ QueueLoses
         \/ \E r \in Requests : QueueGains(r)
BY QueueMoves, SenderMoves DEF QueueRests, QueueDrains, SenderKeeps

LEMMA ActiveStep ==
  ASSUME IInv, QueueInv, ActiveInv, ReasonInv, [Next]_vars PROVE ActiveInv'
<1>t. /\ result \in [Requests -> Results] /\ NoReq \notin Requests
      /\ senderPc \in Busy => current \in Requests /\ Taken(current)
      /\ \A r : Taken(r) => Taken(r)'
      /\ \A r \in Requests : Done(r) => Done(r)'
      /\ inFlight \in ReqOrNone /\ active \in ReqOrNone
  BY Types, GoneGrows, QueueGrows, DoneStays, WorkerAssumption
     DEF IInv, PlaceInv, QueueInv, TypeOK, RequestTypeOK
<1>l. /\ senderPc \in Holding => activeLock = "sender"
      /\ "failing" \in {readerPc, stopperPc} => activeLock \in {"reader", "stopper"}
  BY DEF IInv, LockInv
<1>a. ASSUME UNCHANGED <<active, senderPc, current>>,
             senderPc \in Busy =>
               (inFlight = current => inFlight' = current \/ Done(current)'),
             "failing" \in {readerPc', stopperPc'} => "failing" \in {readerPc, stopperPc}
      PROVE  ActiveInv'
  <2>1. senderPc \in Busy => (Done(current) => Done(current)')
    BY <1>a, <1>t DEF Done
  <2>2. active' # NoReq => Taken(active)'
    BY <1>a, <1>t DEF ActiveInv, Taken
  <2> QED
    BY <1>a, <1>t, <2>1, <2>2 DEF ActiveInv, Busy, SenderPcs
<1>1. ASSUME NEW r \in Requests, CallerMoves(r) PROVE ActiveInv'
  <2>1. CASE TimeoutRequestComplete(r)
    <3>1. inFlight' = inFlight \/ (inFlight = r /\ Done(r)')
      BY <1>t, <2>1, CompletionDone DEF TimeoutRequestComplete
    <3>2. UNCHANGED <<active, senderPc, current, readerPc, stopperPc>>
      BY <2>1 DEF TimeoutRequestComplete
    <3> QED
      BY <1>a, <3>1, <3>2 DEF Done
  <2>2. CASE ~TimeoutRequestComplete(r)
    <3>1. UNCHANGED <<active, senderPc, current, inFlight, readerPc, stopperPc>>
      BY <1>1, <2>2 DEF CallerMoves, SendSmsAdmits, SendSmsRejects, DeadlinePasses,
         CallerStep, TimeoutRequestLock, SendSmsReturns
    <3> QED
      BY <1>a, <3>1
  <2> QED
    BY <2>1, <2>2
<1>2. ASSUME ReaderOpens \/ ReaderOpenFails \/ ReaderLosesPort \/ ReaderExits
             \/ HandleGsmReady \/ HandleNetworkOrSimLoss \/ ResolveInFlight
      PROVE  ActiveInv'
  <2>1. /\ UNCHANGED <<active, senderPc, current, inFlight, stopperPc>>
        /\ readerPc' = "failing" => readerPc = "failing"
    BY <1>2 DEF ReaderOpens, ReaderOpenFails, ReaderLosesPort, ReaderExits,
       HandleGsmReady, HandleNetworkOrSimLoss, ResolveInFlight
  <2> QED
    BY <1>a, <2>1
<1>3. ASSUME ResolveComplete PROVE ActiveInv'
  <2>1. verdict # "none"
    BY <1>3 DEF ResolveComplete, ReasonInv
  <2>2. /\ UNCHANGED <<active, senderPc, current, stopperPc>> /\ readerPc' = "reading"
        /\ inFlight' = inFlight \/ (inFlight = candidate /\ result' = [result EXCEPT ![candidate] = verdict])
    BY <1>3 DEF ResolveComplete, CompleteInFlight
  <2>3. senderPc \in Busy /\ inFlight = current => inFlight' = current \/ Done(current)'
    BY <1>t, <2>1, <2>2 DEF Done
  <2> QED
    BY <1>a, <2>2, <2>3
<1>4. ASSUME StopCutoff \/ StopJoin \/ StopDrain PROVE ActiveInv'
  <2>1. /\ UNCHANGED <<active, senderPc, current, inFlight, readerPc>>
        /\ stopperPc' = "failing" => stopperPc = "failing"
    BY <1>4 DEF StopCutoff, StopJoin, StopDrain
  <2> QED
    BY <1>a, <2>1
<1>5. ASSUME ModemTransmits \/ ModemFails \/ ModemDrops \/ ModemAnnouncesReady
             \/ \E k \in LossKinds : ModemLosesService(k)
      PROVE  ActiveInv'
  <2>1. UNCHANGED <<active, senderPc, current, inFlight, readerPc, stopperPc>>
    BY <1>5 DEF ModemTransmits, ModemFails, ModemDrops, ModemAnnouncesReady,
       ModemLosesService
  <2> QED
    BY <1>a, <2>1
<1>6. CASE UNCHANGED vars
  BY <1>6, <1>a
<1>7. ASSUME NEW t \in {"reader", "stopper"}, FailActiveLock(t) PROVE ActiveInv'
  <2>1. UNCHANGED <<senderPc, current, inFlight, result>>
    BY <1>7 DEF FailActiveLock
  <2>2. \/ active' = active /\ ("failing" \in {readerPc', stopperPc'} => active # NoReq)
        \/ active' = NoReq /\ Done(active) /\ "failing" \notin {readerPc', stopperPc'}
    <3>1. activeLock = "free" /\ "failing" \notin {readerPc, stopperPc}
      BY <1>7, <1>l DEF FailActiveLock
    <3> QED
      BY <1>7, <3>1 DEF FailActiveLock, SetPc, AfterFail
  <2> QED
    BY <1>t, <2>1, <2>2 DEF ActiveInv, Done, Taken
<1>8. ASSUME NEW t \in {"reader", "stopper"}, FailActiveComplete(t) PROVE ActiveInv'
  <2>1. UNCHANGED <<senderPc, current>> /\ active' = NoReq
    BY <1>8 DEF FailActiveComplete
  <2>2. active # NoReq /\ failReason[t] # "none"
    BY <1>8 DEF FailActiveComplete, PcOf, ActiveInv, ReasonInv
  <2>3. active \in Requests
    BY <1>t, <2>2 DEF ReqOrNone
  <2>4. CompleteEither(active, failReason[t])
    BY <1>8 DEF FailActiveComplete
  <2>5. result'[active] # "none"
    BY <1>t, <2>2, <2>3, <2>4 DEF CompleteEither, CompleteInFlight, CompleteRequest
  <2>6. inFlight' = inFlight \/ inFlight = active
    BY <2>4 DEF CompleteEither, CompleteInFlight
  <2>7. "failing" \notin {readerPc', stopperPc'}
    <3>1. readerPc = "failing" => activeLock = "reader"
      BY DEF IInv, LockInv
    <3>2. stopperPc = "failing" => activeLock = "stopper"
      BY DEF IInv, LockInv
    <3> QED
      BY <1>8, <3>1, <3>2 DEF FailActiveComplete, PcOf, SetPc, AfterFail
  <2>8. senderPc \in Busy \ {"got"} => Done(current)'
    <3>1. SUFFICES ASSUME senderPc \in Busy \ {"got"} PROVE result'[current] # "none"
      BY <2>1 DEF Done
    <3>2. active = current \/ Done(current)
      BY <3>1 DEF ActiveInv
    <3> QED
      BY <1>t, <2>1, <2>5, <3>1, <3>2 DEF Done
  <2>9. {"clear", "confirm", "confirm_timeout"} \subseteq Busy \ {"got"}
    BY DEF Busy, SenderPcs
  <2> QED
    BY <2>1, <2>7, <2>8, <2>9 DEF ActiveInv
<1>9. ASSUME SenderStep \/ WriteRaises PROVE ActiveInv'
  <2>p. UNCHANGED <<readerPc, stopperPc>>
    BY <1>9 DEF SenderStep, SenderLoopHead, SenderGet, SenderActivate,
       SenderAwaitReady, SenderReadyCheck, SenderDropLock, SenderDrop, WriteCheck,
       WriteStart, WriteBytesLeave, WriteReturns, WriteRaises, SenderConfirmWait,
       SenderConfirmTimeout, SenderClear
  <2>a. ASSUME UNCHANGED active,
               senderPc' \in Busy \ {"got"} => active = current' \/ Done(current)',
               senderPc' = "clear" => Done(current)',
               senderPc' \in {"confirm", "confirm_timeout"} =>
                 inFlight' = current' \/ Done(current)'
        PROVE  ActiveInv'
    BY <1>t, <2>a, <2>p DEF ActiveInv, Taken
  <2>1. CASE SenderLoopHead \/ SenderGet
    BY <2>1, <2>a DEF SenderLoopHead, SenderGet, Busy, SenderPcs
  <2>2. CASE SenderActivate
    <3>1. CASE senderPc' = "await_ready"
      BY <1>t, <1>l, <2>2, <2>p, <3>1 DEF SenderActivate, ActiveInv, Busy, SenderPcs, Taken
    <3>2. CASE senderPc' = "loop"
      BY <2>2, <2>a, <3>2 DEF SenderActivate, Busy, SenderPcs
    <3> QED
      BY <2>2, <3>1, <3>2 DEF SenderActivate
  <2>3. CASE SenderAwaitReady \/ SenderReadyCheck \/ SenderConfirmWait
    <3>1. UNCHANGED <<active, current, result, inFlight>>
      BY <2>3 DEF SenderAwaitReady, SenderReadyCheck, SenderConfirmWait
    <3>2. /\ senderPc \in Busy \ {"got"}
          /\ senderPc' = "clear" => Done(current)
          /\ senderPc' \in {"confirm", "confirm_timeout"} => senderPc = "confirm"
      BY <2>3 DEF SenderAwaitReady, SenderReadyCheck, SenderConfirmWait, Busy, SenderPcs
    <3> QED
      BY <2>a, <3>1, <3>2 DEF ActiveInv, Done
  <2>4. CASE SenderDropLock
    BY <2>4, <2>a DEF SenderDropLock, ActiveInv, Done, Busy, SenderPcs
  <2>5. CASE SenderDrop
    <3>1. "failing" \notin {readerPc, stopperPc}
      BY <1>l, <2>5 DEF SenderDrop, Holding
    <3> QED
      BY <2>5, <2>p, <3>1 DEF SenderDrop, ActiveInv, Busy, SenderPcs
  <2>6. CASE WriteCheck
    <3>1. senderPc \in Busy \ {"got"} /\ UNCHANGED <<active, current>>
          /\ senderPc' \in {"clear", "write_start"}
      BY <2>6 DEF WriteCheck, Busy, SenderPcs
    <3>2. active = current \/ Done(current)'
      BY <1>t, <3>1 DEF ActiveInv, Done
    <3>3. senderPc' = "clear" => Done(current)'
      BY <1>t, <2>6, <3>1, <3>2, CompletionDone DEF WriteCheck, Done, ActiveInv
    <3> QED
      BY <2>a, <3>1, <3>2, <3>3
  <2>7. CASE WriteStart \/ WriteRaises
    <3>1. senderPc \in Busy \ {"got"} /\ UNCHANGED <<active, current>>
          /\ senderPc' \in {"clear", "writing"}
      BY <2>7 DEF WriteStart, WriteRaises, Busy, SenderPcs
    <3>2. active = current \/ Done(current)'
      BY <1>t, <3>1 DEF ActiveInv, Done
    <3>3. senderPc' = "clear" => Done(current)'
      BY <1>t, <2>7, <3>1, CompletionDone DEF WriteStart, WriteRaises, Done
    <3> QED
      BY <2>a, <3>1, <3>2, <3>3
  <2>8. CASE WriteBytesLeave \/ WriteReturns
    <3>1. /\ senderPc \in {"writing", "wrote"} /\ senderPc' \in {"wrote", "confirm"}
          /\ UNCHANGED <<active, current, inFlight, result>>
      BY <2>8 DEF WriteBytesLeave, WriteReturns
    <3>2. inFlight = current
      BY <3>1 DEF IInv, SlotInv
    <3> QED
      BY <2>a, <3>1, <3>2 DEF ActiveInv, Busy, SenderPcs, Done
  <2>9. CASE SenderConfirmTimeout
    <3>1. /\ senderPc = "confirm_timeout" /\ senderPc' = "clear"
          /\ UNCHANGED <<active, current>> /\ CompleteInFlight(current, "TIMEOUT")
      BY <2>9 DEF SenderConfirmTimeout
    <3>2. inFlight = current \/ Done(current)
      BY <3>1 DEF ActiveInv
    <3>3. Done(current)'
      BY <1>t, <3>1, <3>2, CompletionDone DEF Done, Busy, SenderPcs
    <3> QED
      BY <2>a, <3>1, <3>3
  <2>10. CASE SenderClear
    <3>1. "failing" \notin {readerPc, stopperPc}
      BY <1>l, <2>10 DEF SenderClear
    <3>2. active' # NoReq => Taken(active)'
      BY <1>t, <2>10 DEF SenderClear, ActiveInv, Taken
    <3> QED
      BY <2>10, <2>p, <3>1, <3>2 DEF SenderClear, ActiveInv, Busy, SenderPcs
  <2> QED
    BY <1>9, <2>1, <2>2, <2>3, <2>4, <2>5, <2>6, <2>7, <2>8, <2>9, <2>10 DEF SenderStep
<1> QED
  BY <1>1, <1>2, <1>3, <1>4, <1>5, <1>6, <1>7, <1>8, <1>9
     DEF Next, CallerMoves, ReaderStep, StopperStep, Finished

LEMMA WrittenStep ==
  ASSUME IInv, AdmittedInv, QueueInv, ActiveInv, WrittenInv, [Next]_vars
  PROVE  WrittenInv'
<1>t. /\ written \in Seq(Requests) /\ queue \in Seq(Requests)
      /\ senderPc \in Busy => current \in Requests /\ Taken(current)
      /\ \A r : Taken(r) => Taken(r)'
  BY Types, GoneGrows, QueueGrows DEF IInv, PlaceInv, QueueInv
<1>a. ASSUME UNCHANGED <<written, current>>,
             senderPc' \in Unwritten => senderPc \in Unwritten,
             senderPc' \in {"wrote", "confirm", "confirm_timeout"} =>
               senderPc \in {"wrote", "confirm", "confirm_timeout"}
      PROVE  WrittenInv'
  BY <1>t, <1>a DEF WrittenInv, Taken
<1> USE DEF Unwritten, Busy, SenderPcs
<1>1. CASE UNCHANGED <<senderPc, current, written>>
  BY <1>1, <1>a
<1>2. CASE SenderLoopHead
  BY <1>2, <1>t DEF SenderLoopHead, WrittenInv, Taken
<1>3. CASE SenderGet
  <2>1. CASE queue = <<>>
    BY <1>3, <1>a, <2>1 DEF SenderGet
  <2>2. CASE queue # <<>>
    <3>1. /\ written' = written /\ senderPc' = "got" /\ current' = Head(queue)
      BY <1>3, <2>2 DEF SenderGet
    <3>2. Head(queue) = admitted[Gone + 1] /\ Gone \in Nat /\ Gone + 1 \in DOMAIN admitted
      <4>1. 1 \in DOMAIN queue /\ Head(queue) = queue[1] /\ Len(queue) \in Nat \ {0}
        BY <1>t, <2>2
      <4>2. admitted \in Seq(Requests) /\ Gone \in Nat /\ Gone + Len(queue) = Len(admitted)
            /\ Len(admitted) \in Nat
        BY Types DEF IInv, QueueInv, Gone
      <4>3. queue[1] = admitted[Gone + 1]
        BY <4>1 DEF QueueInv
      <4>4. Gone + 1 \in 1 .. Len(admitted)
        BY <4>1, <4>2
      <4> QED
        BY <4>1, <4>2, <4>3, <4>4
    <3>3. ASSUME NEW i \in DOMAIN written PROVE written[i] # Head(queue)
      <4>1. PICK j \in 1 .. Gone : admitted[j] = written[i]
        BY DEF WrittenInv, Taken
      <4>2. j \in DOMAIN admitted /\ j # Gone + 1
        <5>1. admitted \in Seq(Requests) /\ Len(admitted) \in Nat
          BY Types DEF IInv
        <5>2. Gone + 1 \in 1 .. Len(admitted)
          BY <3>2, <5>1
        <5> QED
          BY <3>2, <5>1, <5>2
      <4> QED
        BY <3>2, <4>1, <4>2 DEF AdmittedInv
    <3>4. \A i \in DOMAIN written : Taken(written[i])'
      BY <1>t, <3>1 DEF WrittenInv, Taken
    <3> QED
      BY <3>1, <3>3, <3>4 DEF WrittenInv, Taken
  <2> QED
    BY <2>1, <2>2
<1>4. CASE SenderActivate \/ SenderAwaitReady \/ SenderReadyCheck \/ SenderDropLock
           \/ SenderDrop \/ WriteCheck \/ SenderClear
  BY <1>4, <1>a DEF SenderActivate, SenderAwaitReady, SenderReadyCheck, SenderDropLock,
     SenderDrop, WriteCheck, SenderClear
<1>5. CASE WriteStart \/ WriteReturns \/ WriteRaises \/ SenderConfirmWait
           \/ SenderConfirmTimeout
  BY <1>5, <1>a DEF WriteStart, WriteReturns, WriteRaises, SenderConfirmWait,
     SenderConfirmTimeout
<1>6. CASE WriteBytesLeave
  <2>1. /\ current \in Requests /\ Taken(current) /\ senderPc' = "wrote"
        /\ UNCHANGED <<current, queue, admitted>> /\ written' = Append(written, current)
    BY <1>6, <1>t DEF WriteBytesLeave
  <2>2. /\ DOMAIN written' = DOMAIN written \cup {Len(written) + 1}
        /\ \A i \in DOMAIN written : written'[i] = written[i]
        /\ written'[Len(written) + 1] = current
    BY <1>t, <2>1
  <2>3. \A i \in DOMAIN written' : Taken(written'[i])
    BY <2>1, <2>2 DEF WrittenInv
  <2>4. \A i \in DOMAIN written' : Taken(written[i])'
    BY <2>1, <2>3 DEF Taken, Gone
  <2> QED
    BY <2>1, <2>2, <2>4 DEF WrittenInv
<1> QED
  BY <1>1, <1>2, <1>3, <1>4, <1>5, <1>6, SenderOnly DEF SenderStep

LEMMA ReasonStep ==
  ASSUME IInv, ReasonInv, [Next]_vars PROVE ReasonInv'
<1>t. failReason \in [{"reader", "stopper"} -> FailReasons \cup {"none"}]
  BY DEF IInv, TypeOK, ThreadTypeOK
<1> USE DEF ReasonInv
<1>1. ASSUME NEW r \in Requests, CallerMoves(r) PROVE ReasonInv'
  BY <1>1 DEF CallerMoves, SendSmsAdmits, SendSmsRejects, DeadlinePasses, CallerStep,
     TimeoutRequestLock, TimeoutRequestComplete, SendSmsReturns
<1>2. ASSUME SenderStep \/ WriteRaises PROVE ReasonInv'
  <2>1. UNCHANGED <<readerPc, verdict, stopperPc, failReason>>
    BY <1>2 DEF SenderStep, SenderLoopHead, SenderGet, SenderActivate, SenderAwaitReady,
       SenderReadyCheck, SenderDropLock, SenderDrop, WriteCheck, WriteStart,
       WriteBytesLeave, WriteReturns, WriteRaises, SenderConfirmWait,
       SenderConfirmTimeout, SenderClear
  <2> QED
    BY <2>1
<1>3. ASSUME ReaderOpens \/ ReaderOpenFails \/ ReaderLosesPort \/ ReaderExits
             \/ HandleGsmReady \/ ResolveInFlight \/ ResolveComplete
      PROVE  ReasonInv'
  BY <1>3, <1>t DEF ReaderOpens, ReaderOpenFails, ReaderLosesPort, ReaderExits,
     HandleGsmReady, ResolveInFlight, ResolveComplete
<1>4. ASSUME HandleNetworkOrSimLoss PROVE ReasonInv'
  BY <1>4, <1>t, WorkerAssumption DEF HandleNetworkOrSimLoss
<1>5. ASSUME NEW t \in {"reader", "stopper"}, FailActiveLock(t) \/ FailActiveComplete(t)
      PROVE  ReasonInv'
  BY <1>5 DEF FailActiveLock, FailActiveComplete, SetPc, PcOf, AfterFail
<1>6. ASSUME StopCutoff \/ StopDrain \/ StopJoin PROVE ReasonInv'
  BY <1>6, <1>t DEF StopCutoff, StopDrain, StopJoin
<1>7. ASSUME ModemTransmits \/ ModemFails \/ ModemDrops \/ ModemAnnouncesReady
             \/ \E k \in LossKinds : ModemLosesService(k)
      PROVE  ReasonInv'
  BY <1>7 DEF ModemTransmits, ModemFails, ModemDrops, ModemAnnouncesReady,
     ModemLosesService
<1>8. CASE UNCHANGED vars
  BY <1>8
<1> QED
  BY <1>1, <1>2, <1>3, <1>4, <1>5, <1>6, <1>7, <1>8
     DEF Next, CallerMoves, ReaderStep, StopperStep, Finished

LEMMA InitRef == Init => RefInv
BY DEF Init, RefInv, AdmittedInv, QueueInv, ActiveInv, WrittenInv, ReasonInv, Gone,
   Busy, Unwritten, Taken

LEMMA StepRef == IInv /\ RefInv /\ [Next]_vars => IInv' /\ RefInv'
BY StepInv, AdmittedStep, QueueStep, ActiveStep, WrittenStep, ReasonStep DEF RefInv
-----------------------------------------------------------------------------
(* Each step is a step of SmsDispatch, or leaves its variables alone.       *)

\* Where SmsDispatch sees the calls.
Phases == [r \in Requests |->
             IF callerPc[r] = "expiring" THEN "waiting" ELSE callerPc[r]]

Implemented == Dispatch!Next \/ UNCHANGED Dispatch!dispatchVars

LEMMA Invisible ==
  ASSUME UNCHANGED <<accepting, admitted, written, result, Phases>>
  PROVE  Implemented
BY DEF Implemented, Dispatch!dispatchVars, Phases

\* A completion is the answer of the call, or comes too late.
LEMMA Completes ==
  ASSUME IInv, RefInv, NEW r \in Requests, Taken(r) \/ r \in {queue[i] : i \in DOMAIN queue}
                                           \/ callerPc[r] = "expiring",
         NEW res \in Dispatch!ModemVerdicts \cup Dispatch!Failures \cup {"CLIENT_TIMEOUT"},
         \/ CompleteRequest(r, res) \/ CompleteInFlight(r, res) \/ CompleteEither(r, res),
         result' # result => /\ res \in Dispatch!ModemVerdicts => Dispatch!Dispatched(r)
                             /\ res = "CLIENT_TIMEOUT" => ~Dispatch!Dispatched(r),
         UNCHANGED <<accepting, admitted, written, Phases>>
  PROVE  Implemented
<1>t. /\ result \in [Requests -> Results] /\ callerPc \in [Requests -> CallerPcs]
      /\ admitted \in Seq(Requests) /\ Gone \in Nat /\ Len(queue) \in Nat
      /\ queue \in Seq(Requests) /\ Gone + Len(queue) = Len(admitted)
      /\ Len(admitted) \in Nat
  BY Types DEF IInv, RefInv, QueueInv, Gone
<1>1. CASE result' = result
  BY <1>1, Invisible
<1>2. CASE result' # result
  <2>1. ~Done(r) /\ result' = [result EXCEPT ![r] = res]
    <3>1. inFlight = r => ~Done(r)
      BY WorkerAssumption DEF IInv, SlotInv
    <3> QED
      BY <1>2, <1>t, <3>1 DEF CompleteRequest, CompleteInFlight, CompleteEither, Done
  <2>2. callerPc[r] \in {"waiting", "expiring"}
    <3>1. ASSUME NEW i \in DOMAIN admitted, admitted[i] = r
          PROVE  callerPc[r] \in {"waiting", "expiring"}
      BY <2>1, <3>1 DEF RefInv, AdmittedInv
    <3>2. CASE Taken(r)
      <4>1. PICK i \in 1 .. Gone : admitted[i] = r
        BY <3>2 DEF Taken
      <4>2. i \in DOMAIN admitted
        BY <1>t
      <4> QED
        BY <3>1, <4>1, <4>2
    <3>3. ASSUME NEW i \in DOMAIN queue, queue[i] = r
          PROVE  callerPc[r] \in {"waiting", "expiring"}
      <4>1. admitted[Gone + i] = r
        BY <3>3 DEF RefInv, QueueInv
      <4>2. Gone + i \in DOMAIN admitted
        <5>1. i \in 1 .. Len(queue)
          BY <1>t
        <5>2. Gone + i \in 1 .. Len(admitted)
          BY <1>t, <5>1
        <5> QED
          BY <1>t, <5>2
      <4> QED
        BY <3>1, <4>1, <4>2
    <3> QED
      BY <3>2, <3>3
  <2>3. Dispatch!Answer(r, res)
    BY <1>2, <2>1, <2>2 DEF Dispatch!Answer, Dispatch!Unanswered, Phases, Done
  <2> QED
    BY <2>3 DEF Dispatch!Next, Implemented
<1> QED
  BY <1>1, <1>2

\* The SMS written is the oldest without an answer, and not written before.
LEMMA WriteDispatches ==
  ASSUME IInv, RefInv, WriteBytesLeave PROVE Implemented
<1>t. /\ admitted \in Seq(Requests) /\ Gone \in Nat /\ Len(queue) \in Nat
      /\ Gone + Len(queue) = Len(admitted) /\ Len(admitted) \in Nat
  BY Types DEF IInv, RefInv, QueueInv, Gone
<1>1. /\ senderPc = "writing" /\ senderPc \in Busy /\ senderPc \in Unwritten
      /\ written' = Append(written, current)
      /\ UNCHANGED <<accepting, admitted, result, callerPc>>
  BY DEF WriteBytesLeave, Busy, SenderPcs, Unwritten
<1>2. PICK n \in 1 .. Gone : admitted[n] = current
  BY <1>1 DEF RefInv, QueueInv, Taken
<1>3. n \in DOMAIN admitted
  BY <1>t
<1>4. ~Done(current)
  <2>1. current \in Requests /\ inFlight = current
    BY <1>1 DEF IInv, SlotInv, PlaceInv
  <2> QED
    BY <2>1, WorkerAssumption DEF IInv, SlotInv
<1>5. \A i \in DOMAIN written : written[i] # current
  BY <1>1 DEF RefInv, WrittenInv
<1>6. ASSUME NEW m \in 1 .. n - 1 PROVE Done(admitted[m])
  <2>1. m \in 1 .. Gone /\ m \in DOMAIN admitted /\ m # n
    BY <1>t
  <2>2. admitted[m] # admitted[n]
    BY <1>3, <2>1 DEF RefInv, AdmittedInv
  <2> QED
    BY <1>2, <2>1, <2>2 DEF RefInv, QueueInv
<1>7. Dispatch!Dispatch(n)
  BY <1>1, <1>2, <1>4, <1>5, <1>6
     DEF Dispatch!Dispatch, Dispatch!Unanswered, Dispatch!Dispatched, Done, Phases
<1> QED
  BY <1>3, <1>7 DEF Dispatch!Next, Implemented

LEMMA CallerImplements ==
  ASSUME IInv, RefInv, NEW r \in Requests, CallerMoves(r) PROVE Implemented
<1>t. callerPc \in [Requests -> CallerPcs] /\ written \in Seq(Requests)
  BY Types DEF IInv
<1>1. CASE SendSmsAdmits(r)
  <2>1. Dispatch!Admit(r)
    BY <1>1, <1>t DEF SendSmsAdmits, Dispatch!Admit
  <2> QED
    BY <2>1 DEF Dispatch!Next, Implemented
<1>2. CASE SendSmsRejects(r)
  <2>1. Dispatch!Refuse(r)
    BY <1>2, <1>t DEF SendSmsRejects, Dispatch!Refuse
  <2> QED
    BY <2>1 DEF Dispatch!Next, Implemented
<1>3. CASE DeadlinePasses(r) \/ TimeoutRequestLock(r)
  BY <1>3, <1>t, Invisible DEF DeadlinePasses, TimeoutRequestLock, Phases
<1>4. CASE TimeoutRequestComplete(r)
  <2>1. UNCHANGED <<accepting, admitted, written, Phases>>
    BY <1>4, <1>t DEF TimeoutRequestComplete, Phases
  <2>2. ~Dispatch!Dispatched(r)
    BY <1>4 DEF TimeoutRequestComplete, IInv, WriteInv, Dispatch!Dispatched
  <2> QED
    BY <1>4, <2>1, <2>2, Completes DEF TimeoutRequestComplete, Dispatch!ModemVerdicts
<1>5. CASE SendSmsReturns(r)
  <2>1. Dispatch!Return(r)
    BY <1>5, <1>t DEF SendSmsReturns, Dispatch!Return, Dispatch!Unanswered, Done
  <2> QED
    BY <2>1 DEF Dispatch!Next, Implemented
<1> QED
  BY <1>1, <1>2, <1>3, <1>4, <1>5 DEF CallerMoves, CallerStep

LEMMA SenderImplements ==
  ASSUME IInv, RefInv, SenderStep \/ WriteRaises PROVE Implemented
<1>t. senderPc \in Busy => current \in Requests /\ Taken(current)
  BY DEF IInv, PlaceInv, RefInv, QueueInv
<1>r. {"SERVICE_STOPPING", "TIMEOUT", "WRITE_ERROR"} \subseteq Dispatch!Failures
      /\ {"SERVICE_STOPPING", "TIMEOUT", "WRITE_ERROR", "CLIENT_TIMEOUT"}
           \cap Dispatch!ModemVerdicts = {}
  BY DEF Dispatch!Failures, Dispatch!ModemVerdicts
<1>1. CASE SenderLoopHead \/ SenderGet \/ SenderAwaitReady \/ SenderReadyCheck
           \/ SenderDropLock \/ WriteReturns \/ SenderConfirmWait \/ SenderClear
  BY <1>1, Invisible DEF SenderLoopHead, SenderGet, SenderAwaitReady, SenderReadyCheck,
     SenderDropLock, WriteReturns, SenderConfirmWait, SenderClear, Phases
<1>2. CASE WriteBytesLeave
  BY <1>2, WriteDispatches
<1>3. CASE SenderActivate \/ SenderDrop \/ WriteCheck \/ WriteStart \/ WriteRaises
           \/ SenderConfirmTimeout
  <2>1. UNCHANGED <<accepting, admitted, written, Phases>> /\ senderPc \in Busy
    BY <1>3 DEF SenderActivate, SenderDrop, WriteCheck, WriteStart, WriteRaises,
       SenderConfirmTimeout, Phases, Busy, SenderPcs
  <2>2. \/ UNCHANGED result
        \/ \E res \in {"SERVICE_STOPPING", "TIMEOUT", "WRITE_ERROR"} :
             \/ CompleteRequest(current, res) \/ CompleteInFlight(current, res)
             \/ CompleteEither(current, res)
    BY <1>3 DEF SenderActivate, SenderDrop, WriteCheck, WriteStart, WriteRaises,
       SenderConfirmTimeout
  <2> QED
    BY <1>t, <1>r, <2>1, <2>2, Completes, Invisible
<1> QED
  BY <1>1, <1>2, <1>3 DEF SenderStep

LEMMA FailImplements ==
  ASSUME IInv, RefInv, NEW t \in {"reader", "stopper"},
         FailActiveLock(t) \/ FailActiveComplete(t)
  PROVE  Implemented
<1>1. CASE FailActiveLock(t)
  BY <1>1, Invisible DEF FailActiveLock, Phases
<1>2. CASE FailActiveComplete(t)
  <2>1. UNCHANGED <<accepting, admitted, written, Phases>>
    BY <1>2 DEF FailActiveComplete, Phases
  <2>2. active # NoReq /\ failReason[t] # "none"
    BY <1>2 DEF FailActiveComplete, PcOf, RefInv, ActiveInv, ReasonInv
  <2>3. active \in Requests /\ Taken(active)
    BY <2>2 DEF IInv, TypeOK, RequestTypeOK, ReqOrNone, RefInv, ActiveInv
  <2>4. failReason[t] \in FailReasons
    BY <2>2 DEF IInv, TypeOK, ThreadTypeOK
  <2>5. /\ failReason[t] \in Dispatch!Failures
        /\ failReason[t] \notin Dispatch!ModemVerdicts \cup {"CLIENT_TIMEOUT"}
    BY <2>4 DEF FailReasons, Dispatch!Failures, Dispatch!ModemVerdicts
  <2> QED
    BY <1>2, <2>1, <2>3, <2>5, Completes DEF FailActiveComplete
<1> QED
  BY <1>1, <1>2

\* What the modem confirms is in the slot, and so was written.
LEMMA ResolveImplements ==
  ASSUME IInv, RefInv, ResolveComplete PROVE Implemented
<1>1. UNCHANGED <<accepting, admitted, written, Phases>>
  BY DEF ResolveComplete, Phases
<1>2. CASE inFlight # candidate
  BY <1>1, <1>2, Invisible DEF ResolveComplete, CompleteInFlight
<1>3. CASE inFlight = NoReq
  BY <1>1, <1>3, Invisible, WorkerAssumption
     DEF ResolveComplete, CompleteInFlight, IInv, TypeOK, RequestTypeOK
<1>4. CASE inFlight = candidate /\ inFlight # NoReq
  <2>1. /\ inFlight = current /\ senderPc \in {"confirm", "confirm_timeout"}
        /\ senderPc \in Busy
    BY <1>4 DEF ResolveComplete, InFlightLockFree, IInv, SlotInv, Sent, Busy, SenderPcs
  <2>2. candidate \in Requests /\ Taken(candidate)
    BY <1>4, <2>1 DEF IInv, PlaceInv, RefInv, QueueInv
  <2>3. Dispatch!Dispatched(candidate)
    BY <1>4, <2>1 DEF RefInv, WrittenInv, Dispatch!Dispatched
  <2>4. verdict \in Dispatch!ModemVerdicts
    BY DEF ResolveComplete, RefInv, ReasonInv, IInv, TypeOK, RequestTypeOK, Verdicts,
       Dispatch!ModemVerdicts
  <2>5. verdict # "CLIENT_TIMEOUT"
    BY <2>4 DEF Dispatch!ModemVerdicts
  <2> QED
    BY <1>1, <2>2, <2>3, <2>4, <2>5, Completes DEF ResolveComplete
<1> QED
  BY <1>2, <1>3, <1>4

LEMMA StopImplements ==
  ASSUME IInv, RefInv, StopCutoff \/ StopDrain \/ StopJoin PROVE Implemented
<1>1. CASE StopCutoff
  <2>1. CASE accepting
    <3>1. Dispatch!Close
      BY <1>1, <2>1 DEF StopCutoff, Dispatch!Close
    <3> QED
      BY <3>1 DEF Dispatch!Next, Implemented
  <2>2. CASE ~accepting
    <3>1. accepting' = accepting
      BY <1>1, <2>2 DEF StopCutoff, IInv, TypeOK, ThreadTypeOK
    <3> QED
      BY <1>1, <3>1, Invisible DEF StopCutoff, Phases
  <2> QED
    BY <2>1, <2>2
<1>2. CASE StopDrain
  <2>1. UNCHANGED <<accepting, admitted, written, Phases>>
    BY <1>2 DEF StopDrain, Phases
  <2>2. CASE queue = <<>>
    BY <1>2, <2>1, <2>2, Invisible DEF StopDrain
  <2>3. CASE queue # <<>>
    <3>1. /\ Head(queue) \in Requests /\ Head(queue) = queue[1] /\ 1 \in DOMAIN queue
          /\ CompleteRequest(Head(queue), "SERVICE_STOPPING")
      BY <1>2, <2>3, Types DEF StopDrain, IInv
    <3>2. Head(queue) \in {queue[i] : i \in DOMAIN queue}
      BY <3>1
    <3>3. "SERVICE_STOPPING" \in Dispatch!Failures
          /\ "SERVICE_STOPPING" \notin Dispatch!ModemVerdicts
      BY DEF Dispatch!Failures, Dispatch!ModemVerdicts
    <3> QED
      BY <2>1, <3>1, <3>2, <3>3, Completes
  <2> QED
    BY <2>2, <2>3
<1>3. CASE StopJoin
  BY <1>3, Invisible DEF StopJoin, Phases
<1> QED
  BY <1>1, <1>2, <1>3

LEMMA StepImplements == IInv /\ RefInv /\ [Next]_vars => Implemented
<1> SUFFICES ASSUME IInv, RefInv, [Next]_vars PROVE Implemented
  OBVIOUS
<1>1. ASSUME ReaderOpens \/ ReaderOpenFails \/ ReaderLosesPort \/ ReaderExits
             \/ HandleGsmReady \/ HandleNetworkOrSimLoss \/ ResolveInFlight
      PROVE  Implemented
  BY <1>1, Invisible DEF ReaderOpens, ReaderOpenFails, ReaderLosesPort, ReaderExits,
     HandleGsmReady, HandleNetworkOrSimLoss, ResolveInFlight, Phases
<1>2. ASSUME ModemTransmits \/ ModemFails \/ ModemDrops \/ ModemAnnouncesReady
             \/ \E k \in LossKinds : ModemLosesService(k)
      PROVE  Implemented
  BY <1>2, Invisible DEF ModemTransmits, ModemFails, ModemDrops, ModemAnnouncesReady,
     ModemLosesService, Phases
<1>3. CASE UNCHANGED vars
  BY <1>3, Invisible DEF Phases
<1> QED
  BY <1>1, <1>2, <1>3, CallerImplements, SenderImplements, FailImplements,
     ResolveImplements, StopImplements
     DEF Next, CallerMoves, ReaderStep, StopperStep, Finished

\* The serial worker implements its abstract promise, for any number of callers,
\* any capacity of the queue and any behaviour of modem, link and shutdown.
THEOREM Refinement == Spec => ImplementsDispatch
<1>1. Init => Dispatch!Init
  BY DEF Init, Dispatch!Init
<1>2. IInv /\ RefInv /\ [Next]_vars => [Dispatch!Next]_(Dispatch!dispatchVars)
  BY StepImplements DEF Implemented
<1> QED
  BY <1>1, <1>2, InitInv, InitRef, StepRef, PTL
     DEF Spec, ImplementsDispatch, Dispatch!Spec

-----------------------------------------------------------------------------
(* What the modem transmitted, and who is told so.                         *)

\* An SMS that was written is in one place: on its way to the modem, or
\* transmitted, or lost there.
SmsInv ==
  /\ \A i \in DOMAIN toModem : toModem[i] \in ToSet(written) /\ toModem[i] \notin transmitted
  /\ \A i, j \in DOMAIN toModem : toModem[i] = toModem[j] => i = j
  /\ transmitted \subseteq ToSet(written)

Confirmations == {i \in DOMAIN fromModem : fromModem[i].kind = "SMS_SENT"}

\* A confirmation counts once: f names the transmitted SMS behind each success,
\* and c the one behind the answer in the reader's hands; no two of these, and
\* none of the confirmations still to be read, are of the same SMS.
Counted(f, c) ==
  /\ \A i \in Confirmations : fromModem[i].req \in transmitted
  /\ \A i, j \in Confirmations : fromModem[i].req = fromModem[j].req => i = j
  /\ \A r \in Succeeded : f[r] \in transmitted /\ NumberOf[f[r]] = NumberOf[r]
  /\ \A r \in Succeeded : \A i \in Confirmations : fromModem[i].req # f[r]
  /\ \A r, s \in Succeeded : f[r] = f[s] => r = s
  /\ verdict = "ok" =>
       /\ candidate \in Requests /\ c \in transmitted /\ NumberOf[c] = NumberOf[candidate]
       /\ \A i \in Confirmations : fromModem[i].req # c
       /\ \A r \in Succeeded : f[r] # c

CountInv == \E f \in [Requests -> ReqOrNone], c \in ReqOrNone : Counted(f, c)

AirInv == SmsInv /\ CountInv

\* No thread but the reader, with an answer, makes a request succeed.
LEMMA OnlyTheReaderSucceeds ==
  ASSUME TypeOK, SlotInv, PlaceInv, [Next]_vars, ~ResolveComplete,
         NEW r \in Requests, result'[r] = "ok"
  PROVE  result[r] = "ok"
<1> USE DEF TypeOK, RequestTypeOK, Done
<1>1. ASSUME NEW q, NEW res, res # "ok",
             CompleteRequest(q, res) \/ CompleteInFlight(q, res) \/ CompleteEither(q, res)
      PROVE  result[r] = "ok"
  BY <1>1 DEF CompleteRequest, CompleteInFlight, CompleteEither
<1>2. ASSUME UNCHANGED result PROVE result[r] = "ok"
  BY <1>2
<1>3. ASSUME NEW q \in Requests,
             SendSmsAdmits(q) \/ SendSmsRejects(q) \/ DeadlinePasses(q) \/ CallerStep(q)
      PROVE  result[r] = "ok"
  BY <1>1, <1>2, <1>3 DEF SendSmsAdmits, SendSmsRejects, DeadlinePasses, CallerStep,
     TimeoutRequestLock, TimeoutRequestComplete, SendSmsReturns
<1>4. ASSUME SenderStep \/ WriteRaises PROVE result[r] = "ok"
  BY <1>1, <1>2, <1>4 DEF SenderStep, SenderLoopHead, SenderGet, SenderActivate,
     SenderAwaitReady, SenderReadyCheck, SenderDropLock, SenderDrop, WriteCheck,
     WriteStart, WriteBytesLeave, WriteReturns, SenderConfirmWait,
     SenderConfirmTimeout, SenderClear, WriteRaises
<1>5. ASSUME NEW t \in {"reader", "stopper"}, FailActiveLock(t) \/ FailActiveComplete(t)
      PROVE  result[r] = "ok"
  <2>1. failReason[t] # "ok"
    BY DEF ThreadTypeOK, FailReasons
  <2> QED
    BY <1>1, <1>2, <1>5, <2>1 DEF FailActiveLock, FailActiveComplete
<1>6. ASSUME \/ ReaderOpens \/ ReaderOpenFails \/ ReaderLosesPort \/ ReaderExits
             \/ HandleGsmReady \/ HandleNetworkOrSimLoss \/ ResolveInFlight
             \/ StopCutoff \/ StopDrain \/ StopJoin \/ UNCHANGED vars
      PROVE  result[r] = "ok"
  BY <1>1, <1>2, <1>6 DEF ReaderOpens, ReaderOpenFails, ReaderLosesPort, ReaderExits,
     HandleGsmReady, HandleNetworkOrSimLoss, ResolveInFlight, StopCutoff, StopDrain,
     StopJoin
<1>7. ASSUME ModemTransmits \/ ModemFails \/ ModemDrops \/ ModemAnnouncesReady
             \/ \E k \in LossKinds : ModemLosesService(k)
      PROVE  result[r] = "ok"
  BY <1>2, <1>7 DEF ModemTransmits, ModemFails, ModemDrops, ModemAnnouncesReady,
     ModemLosesService
<1> QED
  BY <1>3, <1>4, <1>5, <1>6, <1>7 DEF Next, ReaderStep, StopperStep, Finished

\* What has been transmitted stays so.
LEMMA AirGrows ==
  ASSUME [Next]_vars PROVE transmitted \subseteq transmitted'
<1>1. ASSUME NEW q \in Requests,
             SendSmsAdmits(q) \/ SendSmsRejects(q) \/ DeadlinePasses(q) \/ CallerStep(q)
      PROVE  UNCHANGED transmitted
  BY <1>1 DEF SendSmsAdmits, SendSmsRejects, DeadlinePasses, CallerStep,
     TimeoutRequestLock, TimeoutRequestComplete, SendSmsReturns
<1>2. ASSUME SenderStep \/ WriteRaises PROVE UNCHANGED transmitted
  BY <1>2 DEF SenderStep, SenderLoopHead, SenderGet, SenderActivate,
     SenderAwaitReady, SenderReadyCheck, SenderDropLock, SenderDrop, WriteCheck,
     WriteStart, WriteBytesLeave, WriteReturns, SenderConfirmWait,
     SenderConfirmTimeout, SenderClear, WriteRaises
<1>3. ASSUME NEW t \in {"reader", "stopper"}, FailActiveLock(t) \/ FailActiveComplete(t)
      PROVE  UNCHANGED transmitted
  BY <1>3 DEF FailActiveLock, FailActiveComplete
<1>4. ASSUME \/ ReaderOpens \/ ReaderOpenFails \/ ReaderLosesPort \/ ReaderExits
             \/ HandleGsmReady \/ HandleNetworkOrSimLoss \/ ResolveInFlight
             \/ ResolveComplete \/ StopCutoff \/ StopDrain \/ StopJoin \/ UNCHANGED vars
      PROVE  UNCHANGED transmitted
  BY <1>4 DEF ReaderOpens, ReaderOpenFails, ReaderLosesPort, ReaderExits,
     HandleGsmReady, HandleNetworkOrSimLoss, ResolveInFlight, ResolveComplete,
     StopCutoff, StopDrain, StopJoin
<1>5. ASSUME ModemTransmits \/ ModemFails \/ ModemDrops \/ ModemAnnouncesReady
             \/ \E k \in LossKinds : ModemLosesService(k)
      PROVE  transmitted \subseteq transmitted'
  BY <1>5 DEF ModemTransmits, ModemFails, ModemDrops, ModemAnnouncesReady,
     ModemLosesService
<1> QED
  BY <1>1, <1>2, <1>3, <1>4, <1>5
     DEF Next, SenderStep, ReaderStep, StopperStep, Finished

\* Nothing but a write puts a line before the modem, and only the modem takes one.
LEMMA SmsStep ==
  ASSUME IInv, RefInv, SmsInv, [Next]_vars PROVE SmsInv'
<1>0. toModem \in Seq(Requests) /\ written \in Seq(Requests)
  BY DEF IInv, TypeOK, LineTypeOK
<1>a. ASSUME UNCHANGED <<toModem, transmitted, written>> PROVE SmsInv'
  BY <1>a DEF SmsInv
<1>1. ASSUME NEW q \in Requests,
             SendSmsAdmits(q) \/ SendSmsRejects(q) \/ DeadlinePasses(q) \/ CallerStep(q)
      PROVE  SmsInv'
  BY <1>1, <1>a DEF SendSmsAdmits, SendSmsRejects, DeadlinePasses, CallerStep,
     TimeoutRequestLock, TimeoutRequestComplete, SendSmsReturns
<1>2. ASSUME SenderStep \/ WriteRaises, ~WriteBytesLeave PROVE SmsInv'
  BY <1>2, <1>a DEF SenderStep, SenderLoopHead, SenderGet, SenderActivate,
     SenderAwaitReady, SenderReadyCheck, SenderDropLock, SenderDrop, WriteCheck,
     WriteStart, WriteReturns, SenderConfirmWait,
     SenderConfirmTimeout, SenderClear, WriteRaises
<1>3. CASE WriteBytesLeave
  <2>1. /\ senderPc \in Unwritten /\ current \in Requests
        /\ written' = Append(written, current) /\ toModem' = Append(toModem, current)
        /\ UNCHANGED transmitted
    BY <1>3 DEF WriteBytesLeave, Unwritten, Busy, SenderPcs, IInv, PlaceInv
  <2>2. current \notin ToSet(written)
    BY <2>1 DEF RefInv, WrittenInv, ToSet
  <2>3. /\ DOMAIN toModem' = DOMAIN toModem \cup {Len(toModem) + 1}
        /\ \A i \in DOMAIN toModem : toModem'[i] = toModem[i]
        /\ toModem'[Len(toModem) + 1] = current
    BY <1>0, <2>1
  <2>4. ToSet(written') = ToSet(written) \cup {current}
    <3>1. /\ DOMAIN written' = DOMAIN written \cup {Len(written) + 1}
          /\ \A i \in DOMAIN written : written'[i] = written[i]
          /\ written'[Len(written) + 1] = current
      BY <1>0, <2>1
    <3>2. Len(written) + 1 \notin DOMAIN written
      BY <1>0
    <3> QED
      BY <3>1, <3>2 DEF ToSet
  <2>5. \A i \in DOMAIN toModem' : toModem'[i] \in ToSet(written') /\ toModem'[i] \notin transmitted'
    BY <2>1, <2>2, <2>3, <2>4 DEF SmsInv
  <2>6. \A i, j \in DOMAIN toModem' : toModem'[i] = toModem'[j] => i = j
    BY <2>2, <2>3 DEF SmsInv
  <2>7. transmitted' \subseteq ToSet(written')
    BY <2>1, <2>4 DEF SmsInv
  <2> QED
    BY <2>5, <2>6, <2>7 DEF SmsInv, ToSet
<1>4. ASSUME NEW t \in {"reader", "stopper"}, FailActiveLock(t) \/ FailActiveComplete(t)
      PROVE  SmsInv'
  BY <1>4, <1>a DEF FailActiveLock, FailActiveComplete
<1>5. ASSUME \/ ReaderOpens \/ ReaderOpenFails \/ ReaderLosesPort \/ ReaderExits
             \/ HandleGsmReady \/ HandleNetworkOrSimLoss \/ ResolveInFlight
             \/ ResolveComplete \/ StopCutoff \/ StopDrain \/ StopJoin \/ UNCHANGED vars
      PROVE  SmsInv'
  BY <1>5, <1>a DEF ReaderOpens, ReaderOpenFails, ReaderLosesPort, ReaderExits,
     HandleGsmReady, HandleNetworkOrSimLoss, ResolveInFlight, ResolveComplete,
     StopCutoff, StopDrain, StopJoin
<1>6. ASSUME ModemTransmits \/ ModemFails \/ ModemDrops PROVE SmsInv'
  <2>1. /\ toModem # <<>> /\ toModem' = Tail(toModem) /\ UNCHANGED written
        /\ transmitted' \in {transmitted, transmitted \cup {Head(toModem)}}
    BY <1>6 DEF ModemTransmits, ModemFails, ModemDrops
  <2>2. 1 \in DOMAIN toModem /\ Head(toModem) = toModem[1]
        /\ \A i \in DOMAIN toModem' :
             i + 1 \in DOMAIN toModem /\ i + 1 # 1 /\ toModem'[i] = toModem[i + 1]
    BY <1>0, <2>1
  <2>3. \A i, j \in DOMAIN toModem' : i + 1 = j + 1 => i = j
    BY <1>0, <2>1
  <2> QED
    BY <2>1, <2>2, <2>3 DEF SmsInv
<1>7. ASSUME ModemAnnouncesReady \/ \E k \in LossKinds : ModemLosesService(k)
      PROVE  SmsInv'
  BY <1>7, <1>a DEF ModemAnnouncesReady, ModemLosesService
<1> QED
  BY <1>1, <1>2, <1>3, <1>4, <1>5, <1>6, <1>7
     DEF Next, SenderStep, ReaderStep, StopperStep, Finished

\* No confirmation is new, no success and no answer in the reader's hands: what
\* was waiting to be read still is, perhaps one place further ahead.
LEMMA CountStays ==
  ASSUME NEW f, NEW c, Counted(f, c), transmitted \subseteq transmitted',
         Succeeded' \subseteq Succeeded,
         verdict' = "ok" => UNCHANGED <<verdict, candidate>>,
         NEW d \in {0, 1},
         \A i \in Confirmations' :
           i \in Nat \ {0} /\ i + d \in Confirmations /\ fromModem'[i] = fromModem[i + d]
  PROVE  Counted(f, c)'
<1>1. \A i, j \in Confirmations' : i + d = j + d => i = j
  OBVIOUS
<1>2. \A i, j \in Confirmations' : fromModem'[i].req = fromModem'[j].req => i = j
  BY <1>1 DEF Counted
<1>3. \A i \in Confirmations' : fromModem'[i].req \in transmitted'
  BY DEF Counted
<1>4. \A r \in Succeeded' : \A i \in Confirmations' : fromModem'[i].req # f[r]
  BY DEF Counted
<1>5. verdict' = "ok" =>
       /\ candidate' \in Requests /\ c \in transmitted' /\ NumberOf[c] = NumberOf[candidate']
       /\ \A i \in Confirmations' : fromModem'[i].req # c
       /\ \A r \in Succeeded' : f[r] # c
  BY DEF Counted
<1> QED
  BY <1>2, <1>3, <1>4, <1>5 DEF Counted

\* The lines that wait for the reader: read, lost with the port, or joined by one
\* that is a confirmation only if the modem transmits.
Shifted(d) ==
  \A i \in Confirmations' :
    i \in Nat \ {0} /\ i + d \in Confirmations /\ fromModem'[i] = fromModem[i + d]

LEMMA LinesStep ==
  ASSUME TypeOK, [Next]_vars, ~(ModemTransmits /\ serOpen)
  PROVE  /\ Shifted(0) \/ Shifted(1)
         /\ HandleGsmReady \/ HandleNetworkOrSimLoss \/ ResolveInFlight => Shifted(1)
<1>0. fromModem \in Seq(Lines)
  BY DEF TypeOK, LineTypeOK
<1>a. ASSUME UNCHANGED fromModem PROVE Shifted(0)
  BY <1>a, <1>0 DEF Shifted, Confirmations
<1>b. ASSUME fromModem' = <<>> PROVE Shifted(0)
  BY <1>b DEF Shifted, Confirmations
<1>c. ASSUME fromModem # <<>>, fromModem' = Tail(fromModem) PROVE Shifted(1)
  <2>1. \A i \in DOMAIN fromModem' :
          i \in Nat \ {0} /\ i + 1 \in DOMAIN fromModem /\ fromModem'[i] = fromModem[i + 1]
    BY <1>0, <1>c
  <2> QED
    BY <2>1 DEF Shifted, Confirmations
<1>d. ASSUME NEW line, fromModem' = Append(fromModem, line), line.kind # "SMS_SENT"
      PROVE  Shifted(0)
  <2>1. /\ DOMAIN fromModem' = DOMAIN fromModem \cup {Len(fromModem) + 1}
        /\ \A i \in DOMAIN fromModem : i \in Nat \ {0} /\ fromModem'[i] = fromModem[i]
        /\ fromModem'[Len(fromModem) + 1] = line
    BY <1>0, <1>d
  <2>2. \A i \in Confirmations' : i \in DOMAIN fromModem
    BY <1>d, <2>1 DEF Confirmations
  <2>3. \A i \in DOMAIN fromModem : i + 0 = i
    BY <2>1
  <2> QED
    BY <2>1, <2>2, <2>3 DEF Shifted, Confirmations
<1>1. ASSUME NEW q \in Requests,
             SendSmsAdmits(q) \/ SendSmsRejects(q) \/ DeadlinePasses(q) \/ CallerStep(q)
      PROVE  UNCHANGED fromModem
  BY <1>1 DEF SendSmsAdmits, SendSmsRejects, DeadlinePasses, CallerStep,
     TimeoutRequestLock, TimeoutRequestComplete, SendSmsReturns
<1>2. ASSUME SenderStep \/ WriteRaises PROVE UNCHANGED fromModem
  BY <1>2 DEF SenderStep, SenderLoopHead, SenderGet, SenderActivate,
     SenderAwaitReady, SenderReadyCheck, SenderDropLock, SenderDrop, WriteCheck,
     WriteStart, WriteBytesLeave, WriteReturns, SenderConfirmWait,
     SenderConfirmTimeout, SenderClear, WriteRaises
<1>3. ASSUME NEW t \in {"reader", "stopper"}, FailActiveLock(t) \/ FailActiveComplete(t)
      PROVE  UNCHANGED fromModem
  BY <1>3 DEF FailActiveLock, FailActiveComplete
<1>4. ASSUME ReaderOpens \/ ReaderOpenFails \/ ResolveComplete \/ StopCutoff
             \/ StopDrain \/ StopJoin \/ ModemDrops \/ UNCHANGED vars
      PROVE  UNCHANGED fromModem
  BY <1>4 DEF ReaderOpens, ReaderOpenFails, ResolveComplete, StopCutoff, StopDrain,
     StopJoin, ModemDrops
<1>5. ASSUME ReaderLosesPort \/ ReaderExits PROVE fromModem' = <<>>
  BY <1>5 DEF ReaderLosesPort, ReaderExits
<1>6. ASSUME HandleGsmReady \/ HandleNetworkOrSimLoss \/ ResolveInFlight
      PROVE  fromModem # <<>> /\ fromModem' = Tail(fromModem)
  BY <1>6 DEF HandleGsmReady, HandleNetworkOrSimLoss, ResolveInFlight
<1>7. ASSUME ModemTransmits \/ ModemFails PROVE Shifted(0)
  <2>1. CASE ModemFails /\ serOpen
    <3>1. fromModem' = Append(fromModem, [kind |-> "SMS_FAILED", req |-> Head(toModem)])
      BY <2>1 DEF ModemFails
    <3> QED
      BY <1>d, <3>1
  <2>2. CASE ~serOpen
    BY <1>7, <1>a, <2>2 DEF ModemTransmits, ModemFails
  <2> QED
    BY <1>7, <2>1, <2>2
<1>8. ASSUME NEW k \in LossKinds \cup {"GSM_READY"},
             (ModemAnnouncesReady /\ k = "GSM_READY") \/ ModemLosesService(k)
      PROVE  Shifted(0)
  <2>1. fromModem' = Append(fromModem, [kind |-> k, req |-> NoReq])
    BY <1>8 DEF ModemAnnouncesReady, ModemLosesService
  <2>2. k # "SMS_SENT"
    BY WorkerAssumption
  <2> QED
    BY <1>d, <2>1, <2>2
<1>9. Shifted(0) \/ Shifted(1)
  BY <1>a, <1>b, <1>c, <1>1, <1>2, <1>3, <1>4, <1>5, <1>6, <1>7, <1>8
     DEF Next, ReaderStep, StopperStep, Finished
<1> QED
  BY <1>c, <1>6, <1>9

\* Only the reader takes an answer in hand, and gives it to the request.
LEMMA VerdictStays ==
  ASSUME [Next]_vars, ~ResolveInFlight, ~ResolveComplete
  PROVE  UNCHANGED <<candidate, verdict>>
<1>1. ASSUME NEW q \in Requests,
             SendSmsAdmits(q) \/ SendSmsRejects(q) \/ DeadlinePasses(q) \/ CallerStep(q)
      PROVE  UNCHANGED <<candidate, verdict>>
  BY <1>1 DEF SendSmsAdmits, SendSmsRejects, DeadlinePasses, CallerStep,
     TimeoutRequestLock, TimeoutRequestComplete, SendSmsReturns
<1>2. ASSUME SenderStep \/ WriteRaises PROVE UNCHANGED <<candidate, verdict>>
  BY <1>2 DEF SenderStep, SenderLoopHead, SenderGet, SenderActivate,
     SenderAwaitReady, SenderReadyCheck, SenderDropLock, SenderDrop, WriteCheck,
     WriteStart, WriteBytesLeave, WriteReturns, SenderConfirmWait,
     SenderConfirmTimeout, SenderClear, WriteRaises
<1>3. ASSUME NEW t \in {"reader", "stopper"}, FailActiveLock(t) \/ FailActiveComplete(t)
      PROVE  UNCHANGED <<candidate, verdict>>
  BY <1>3 DEF FailActiveLock, FailActiveComplete, SetPc
<1>4. ASSUME \/ ReaderOpens \/ ReaderOpenFails \/ ReaderLosesPort \/ ReaderExits
             \/ HandleGsmReady \/ HandleNetworkOrSimLoss
             \/ StopCutoff \/ StopDrain \/ StopJoin \/ UNCHANGED vars
      PROVE  UNCHANGED <<candidate, verdict>>
  BY <1>4 DEF ReaderOpens, ReaderOpenFails, ReaderLosesPort, ReaderExits,
     HandleGsmReady, HandleNetworkOrSimLoss, StopCutoff, StopDrain, StopJoin
<1>5. ASSUME ModemTransmits \/ ModemFails \/ ModemDrops \/ ModemAnnouncesReady
             \/ \E k \in LossKinds : ModemLosesService(k)
      PROVE  UNCHANGED <<candidate, verdict>>
  BY <1>5 DEF ModemTransmits, ModemFails, ModemDrops, ModemAnnouncesReady,
     ModemLosesService
<1> QED
  BY <1>1, <1>2, <1>3, <1>4, <1>5 DEF Next, ReaderStep, StopperStep, Finished

\* The SMS behind each success stays the same one; the reader's steps and the
\* modem's say where a new one comes from.
LEMMA CountStep ==
  ASSUME IInv, RefInv, AirInv, [Next]_vars PROVE CountInv'
<1>t. TypeOK /\ SlotInv /\ PlaceInv /\ fromModem \in Seq(Lines) /\ toModem \in Seq(Requests)
  BY DEF IInv, TypeOK, LineTypeOK
<1>p. PICK f \in [Requests -> ReqOrNone], c \in ReqOrNone : Counted(f, c)
  BY DEF AirInv, CountInv
<1>g. transmitted \subseteq transmitted'
  BY AirGrows
<1>s. ~ResolveComplete => Succeeded' \subseteq Succeeded
  BY <1>t, OnlyTheReaderSucceeds DEF Succeeded
<1>1. CASE ResolveInFlight
  <2>1. /\ fromModem # <<>> /\ 1 \in Nat /\ Head(fromModem) = fromModem[1] /\ 1 \in DOMAIN fromModem
    BY <1>1, <1>t DEF ResolveInFlight
  <2>2. Shifted(1) /\ Succeeded' \subseteq Succeeded
    <3>1. ~ModemTransmits /\ ~ResolveComplete
      BY <1>1, <2>1, <1>t DEF ResolveInFlight, ResolveComplete, ModemTransmits
    <3> QED
      BY <1>1, <1>s, <1>t, <3>1, LinesStep
  <2>3. CASE UNCHANGED readerVars
    BY <1>g, <1>p, <2>2, <2>3, CountStays DEF Shifted, CountInv
  <2>4. CASE verdict' # "ok"
    BY <1>g, <1>p, <2>2, <2>4, CountStays DEF Shifted, CountInv
  <2>5. CASE AnswersInFlight(Head(fromModem)) /\ candidate' = inFlight
             /\ Head(fromModem).kind = "SMS_SENT"
    <3>0. PICK e : e = fromModem[1].req
      OBVIOUS
    <3>1. 1 \in Confirmations /\ candidate' \in Requests /\ NumberOf[candidate'] = NumberOf[e]
      BY <2>1, <2>5, <1>t, <3>0 DEF Confirmations, AnswersInFlight, TypeOK, RequestTypeOK, ReqOrNone
    <3>2. e \in transmitted /\ \A r \in Succeeded : f[r] # e
      BY <1>p, <3>0, <3>1 DEF Counted
    <3>3. \A i \in Confirmations' : fromModem'[i].req # e
      <4>1. ASSUME NEW i \in Confirmations'
            PROVE  i + 1 \in Confirmations /\ i + 1 # 1 /\ fromModem'[i] = fromModem[i + 1]
        BY <2>2 DEF Shifted
      <4> QED
        BY <1>p, <3>0, <3>1, <4>1 DEF Counted
    <3>5. /\ \A i \in Confirmations' : fromModem'[i].req \in transmitted'
          /\ \A i, j \in Confirmations' : fromModem'[i].req = fromModem'[j].req => i = j
          /\ \A r \in Succeeded' : f[r] \in transmitted' /\ NumberOf[f[r]] = NumberOf[r]
          /\ \A r \in Succeeded' : \A i \in Confirmations' : fromModem'[i].req # f[r]
          /\ \A r, s \in Succeeded' : f[r] = f[s] => r = s
      <4>1. \A i, j \in Confirmations' : i + 1 = j + 1 => i = j
        BY <2>2 DEF Shifted
      <4> QED
        BY <1>g, <1>p, <2>2, <4>1 DEF Counted, Shifted
    <3>6. Counted(f, e)'
      BY <1>g, <2>2, <3>1, <3>2, <3>3, <3>5 DEF Counted
    <3>7. e \in ReqOrNone
      BY <3>2, <1>t DEF TypeOK, LineTypeOK, ReqOrNone
    <3> QED
      BY <1>p, <3>6, <3>7 DEF CountInv
  <2> QED
    BY <1>1, <2>3, <2>4, <2>5 DEF ResolveInFlight
<1>2. CASE ResolveComplete
  <2>1. UNCHANGED <<fromModem, transmitted>> /\ verdict' = "none" /\ UNCHANGED Confirmations
    BY <1>2 DEF ResolveComplete, Confirmations
  <2>2. CASE inFlight = candidate /\ verdict = "ok"
    <3>0. PICK g : g = [f EXCEPT ![candidate] = c]
      OBVIOUS
    <3>1. /\ candidate \in Requests /\ c \in transmitted /\ NumberOf[c] = NumberOf[candidate]
          /\ \A i \in Confirmations : fromModem[i].req # c
          /\ \A r \in Succeeded : f[r] # c
      BY <1>p, <2>2 DEF Counted
    <3>2. Succeeded' = Succeeded \cup {candidate}
      BY <1>2, <1>t, <2>2, <3>1
         DEF ResolveComplete, CompleteInFlight, Succeeded, TypeOK, RequestTypeOK
    <3>3. g[candidate] = c /\ (\A r \in Requests : r # candidate => g[r] = f[r])
          /\ g \in [Requests -> ReqOrNone]
      BY <3>0, <3>1
    <3>4. Succeeded \subseteq Requests /\ candidate \notin Succeeded
      BY <1>t, <2>2, <3>1, WorkerAssumption DEF Succeeded, SlotInv, Done
    <3>5. /\ \A r \in Succeeded' : g[r] \in transmitted' /\ NumberOf[g[r]] = NumberOf[r]
          /\ \A r \in Succeeded' : \A i \in Confirmations' : fromModem'[i].req # g[r]
      BY <1>p, <2>1, <3>1, <3>2, <3>3, <3>4 DEF Counted
    <3>6. \A r, s \in Succeeded' : g[r] = g[s] => r = s
      BY <1>p, <3>1, <3>2, <3>3, <3>4 DEF Counted
    <3>7. Counted(g, c)'
      BY <1>p, <2>1, <3>5, <3>6 DEF Counted
    <3> QED
      BY <1>p, <3>3, <3>7 DEF CountInv
  <2>3. CASE ~(inFlight = candidate /\ verdict = "ok")
    <3>1. Succeeded' \subseteq Succeeded
      BY <1>2, <1>t, <2>3
         DEF ResolveComplete, CompleteInFlight, Succeeded, TypeOK, RequestTypeOK
    <3>2. Shifted(0)
      BY <2>1, <1>t DEF Shifted, Confirmations
    <3> QED
      BY <1>g, <1>p, <2>1, <3>1, <3>2, CountStays DEF Shifted, CountInv
  <2> QED
    BY <2>2, <2>3
<1>3. CASE ModemTransmits /\ serOpen
  <2> DEFINE x == Head(toModem)
             n == Len(fromModem) + 1
  <2>1. /\ transmitted' = transmitted \cup {x}
        /\ fromModem' = Append(fromModem, [kind |-> "SMS_SENT", req |-> x])
        /\ UNCHANGED <<candidate, verdict, result>> /\ toModem # <<>>
    BY <1>3 DEF ModemTransmits
  <2>2. x \notin transmitted
    <3>1. 1 \in DOMAIN toModem /\ x = toModem[1]
      BY <1>t, <2>1
    <3> QED
      BY <3>1 DEF AirInv, SmsInv
  <2>3. /\ DOMAIN fromModem' = DOMAIN fromModem \cup {n}
        /\ n \notin DOMAIN fromModem
        /\ \A i \in DOMAIN fromModem : fromModem'[i] = fromModem[i]
        /\ fromModem'[n] = [kind |-> "SMS_SENT", req |-> x]
    BY <1>t, <2>1
  <2> HIDE DEF x, n
  <2>4. /\ Confirmations' = Confirmations \cup {n} /\ n \notin Confirmations
        /\ \A i \in Confirmations : fromModem'[i] = fromModem[i]
        /\ fromModem'[n].req = x
    BY <2>3 DEF Confirmations
  <2>5. UNCHANGED Succeeded
    BY <2>1 DEF Succeeded
  <2>6. /\ \A i \in Confirmations : fromModem[i].req # x
        /\ \A r \in Succeeded : f[r] # x
        /\ verdict = "ok" => c # x
    BY <1>p, <2>2 DEF Counted
  <2>7. /\ \A i \in Confirmations' : fromModem'[i].req \in transmitted'
        /\ \A i, j \in Confirmations' : fromModem'[i].req = fromModem'[j].req => i = j
        /\ \A r \in Succeeded' : f[r] \in transmitted' /\ NumberOf[f[r]] = NumberOf[r]
        /\ \A r \in Succeeded' : \A i \in Confirmations' : fromModem'[i].req # f[r]
        /\ \A r, s \in Succeeded' : f[r] = f[s] => r = s
    <3>1. \A i \in Confirmations' : fromModem'[i].req \in transmitted'
      BY <1>p, <2>1, <2>4 DEF Counted
    <3>2. \A i, j \in Confirmations' : fromModem'[i].req = fromModem'[j].req => i = j
      BY <1>p, <2>4, <2>6 DEF Counted
    <3>3. \A r \in Succeeded' : f[r] \in transmitted' /\ NumberOf[f[r]] = NumberOf[r]
      BY <1>p, <2>1, <2>5 DEF Counted
    <3>4. \A r \in Succeeded' : \A i \in Confirmations' : fromModem'[i].req # f[r]
      BY <1>p, <2>4, <2>5, <2>6 DEF Counted
    <3>5. \A r, s \in Succeeded' : f[r] = f[s] => r = s
      BY <1>p, <2>5 DEF Counted
    <3> QED
      BY <3>1, <3>2, <3>3, <3>4, <3>5
  <2>8. Counted(f, c)'
    BY <1>p, <2>1, <2>4, <2>5, <2>6, <2>7 DEF Counted
  <2> QED
    BY <1>p, <2>8 DEF CountInv
<1>4. CASE ~ResolveInFlight /\ ~ResolveComplete /\ ~(ModemTransmits /\ serOpen)
  <2>1. Succeeded' \subseteq Succeeded /\ UNCHANGED <<candidate, verdict>>
    BY <1>4, <1>s, VerdictStays
  <2>2. Shifted(0) \/ Shifted(1)
    BY <1>4, <1>t, LinesStep
  <2> QED
    BY <1>g, <1>p, <2>1, <2>2, CountStays DEF Shifted, CountInv
<1> QED
  BY <1>1, <1>2, <1>3, <1>4

LEMMA InitAir == Init => AirInv
<1> SUFFICES ASSUME Init PROVE AirInv
  OBVIOUS
<1>1. SmsInv
  BY DEF Init, SmsInv
<1>2. Succeeded = {} /\ Confirmations = {} /\ verdict # "ok"
  BY DEF Init, Succeeded, Confirmations
<1>3. \A f, c : Counted(f, c)
  BY <1>2 DEF Counted
<1>4. [r \in Requests |-> NoReq] \in [Requests -> ReqOrNone] /\ NoReq \in ReqOrNone
  BY DEF ReqOrNone
<1> QED
  BY <1>1, <1>3, <1>4 DEF AirInv, CountInv

LEMMA StepAir == IInv /\ RefInv /\ AirInv /\ [Next]_vars => AirInv'
  BY SmsStep, CountStep DEF AirInv

\* Every ok: TRUE stands for an SMS of its own that the modem transmitted to the
\* caller's number, however many requests share a number and whatever late, lost
\* or foreign answers the link delivers (_resolve_in_flight).
THEOREM SuccessSafe == Spec => []SuccessWasTransmitted
<1>1. IInv /\ AirInv => SuccessWasTransmitted
  <2> SUFFICES ASSUME IInv, AirInv PROVE SuccessWasTransmitted
    OBVIOUS
  <2>1. PICK f \in [Requests -> ReqOrNone], c \in ReqOrNone : Counted(f, c)
    BY DEF AirInv, CountInv
  <2> DEFINE g == [r \in Succeeded |-> f[r]]
  <2>2. g \in [Succeeded -> transmitted]
    BY <2>1 DEF Counted
  <2>3. /\ \A r \in Succeeded : NumberOf[g[r]] = NumberOf[r]
        /\ \A r, s \in Succeeded : g[r] = g[s] => r = s
    BY <2>1 DEF Counted
  <2> HIDE DEF g
  <2> QED
    BY <2>2, <2>3 DEF SuccessWasTransmitted
<1> QED
  BY <1>1, InitAir, StepAir, InitInv, InitRef, StepRef, PTL DEF Spec
=============================================================================
