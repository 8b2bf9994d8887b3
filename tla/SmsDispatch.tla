----------------------------- MODULE SmsDispatch -----------------------------
(***************************************************************************)
(* What SerialWorker promises to the callers of send_sms(), with no        *)
(* threads, locks or serial port:                                          *)
(*   - an SMS is put on the line at most once, and only when every SMS     *)
(*     admitted before it has its answer;                                  *)
(*   - each admitted call gets exactly one answer;                         *)
(*   - a modem verdict is only given for an SMS that was put on the line,  *)
(*     CLIENT_TIMEOUT (which the caller may retry) only for one that was   *)
(*     not and then never will be.                                         *)
(***************************************************************************)
EXTENDS Naturals, Sequences

CONSTANT Requests

VARIABLES
  open,        \* calls are admitted
  phase,       \* where each call is
  order,       \* the admitted requests, oldest first
  dispatched,  \* the requests put on the line, oldest first
  answer       \* what each call is told, "none" until it is

dispatchVars == <<open, phase, order, dispatched, answer>>

ModemVerdicts == {"ok", "MODEM_FAILED"}
Failures == {"NETWORK_LOST", "SIM_MISSING", "SERIAL_DISCONNECTED",
             "SERVICE_STOPPING", "WRITE_ERROR", "TIMEOUT"}

Dispatched(r) == \E i \in DOMAIN dispatched : dispatched[i] = r
Unanswered(r) == answer[r] = "none"

Init ==
  /\ open = TRUE
  /\ phase = [r \in Requests |-> "idle"]
  /\ order = <<>> /\ dispatched = <<>>
  /\ answer = [r \in Requests |-> "none"]

Admit(r) ==
  /\ open /\ phase[r] = "idle"
  /\ phase' = [phase EXCEPT ![r] = "waiting"]
  /\ order' = Append(order, r)
  /\ UNCHANGED <<open, dispatched, answer>>

Refuse(r) ==
  /\ phase[r] = "idle"
  /\ phase' = [phase EXCEPT ![r] = "rejected"]
  /\ UNCHANGED <<open, order, dispatched, answer>>

Dispatch(n) ==
  /\ Unanswered(order[n]) /\ ~Dispatched(order[n])
  /\ \A m \in 1 .. n - 1 : ~Unanswered(order[m])
  /\ dispatched' = Append(dispatched, order[n])
  /\ UNCHANGED <<open, phase, order, answer>>

Answer(r, a) ==
  /\ phase[r] = "waiting" /\ Unanswered(r)
  /\ a \in ModemVerdicts => Dispatched(r)
  /\ a = "CLIENT_TIMEOUT" => ~Dispatched(r)
  /\ answer' = [answer EXCEPT ![r] = a]
  /\ UNCHANGED <<open, phase, order, dispatched>>

Return(r) ==
  /\ phase[r] = "waiting" /\ ~Unanswered(r)
  /\ phase' = [phase EXCEPT ![r] = "returned"]
  /\ UNCHANGED <<open, order, dispatched, answer>>

Close ==
  /\ open /\ open' = FALSE
  /\ UNCHANGED <<phase, order, dispatched, answer>>

Next ==
  \/ \E r \in Requests : Admit(r) \/ Refuse(r) \/ Return(r)
  \/ \E r \in Requests, a \in ModemVerdicts \cup Failures \cup {"CLIENT_TIMEOUT"} :
       Answer(r, a)
  \/ \E n \in DOMAIN order : Dispatch(n)
  \/ Close

Spec == Init /\ [][Next]_dispatchVars
=============================================================================
