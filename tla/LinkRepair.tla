----------------------------- MODULE LinkRepair ------------------------------
(***************************************************************************)
(* A WebRTC link between two devices that has come up, and how its two     *)
(* WebrtcAdapters keep it: the restarts of IceRestartController and the    *)
(* pings of LivenessMonitor (mobile-app: features/shared/connection/       *)
(* adapters).  What ICE reports and what the link carries differ: a link   *)
(* that is gone may be reported as connected, and one that works again     *)
(* need not be reported.                                                   *)
(*                                                                         *)
(* Timers fire at any time.  An offer may stay unanswered: it is lost, the *)
(* peer ignores it (glare), or its adapter is gone.                        *)
(***************************************************************************)
EXTENDS Naturals

CONSTANTS Sides,
          MaxAttempts,       \* maxIceRestartAttempts
          MaxMissed,         \* maxMissedPongs
          MaxOutages         \* bound on how often the link goes down

ASSUME LinkAssumption ==
  /\ \E s, p \in Sides : s # p /\ Sides = {s, p}
  /\ MaxAttempts \in Nat /\ MaxOutages \in Nat /\ MaxMissed \in Nat \ {0}

VARIABLES
  up,         \* what one side sends reaches the other
  alive,      \* the adapter has not been evicted
  ice,        \* iceConnectionState
  making,     \* a restart offer is asked for and not made yet
  offered,    \* an offer is out: signalingState have-local-offer
  held,       \* the timer in iceRestartTimer
  loose,      \* timers that run on after iceRestartTimer was overwritten
  attempts,   \* iceRestartAttempts
  missed,     \* livenessMissedPongs
  degraded,   \* isLivenessDegraded
  outages

offerVars    == <<making, offered>>
livenessVars == <<missed, degraded>>
vars == <<up, alive, ice, offerVars, held, loose, attempts, livenessVars, outages>>

Peer(s) == CHOOSE p \in Sides : p # s

IceStates == {"connected", "checking", "disconnected", "failed"}
Timers    == {"restart", "fallback"}

Init ==
  /\ up = TRUE /\ outages = 0
  /\ alive = [s \in Sides |-> TRUE] /\ ice = [s \in Sides |-> "connected"]
  /\ making = [s \in Sides |-> FALSE] /\ offered = [s \in Sides |-> FALSE]
  /\ held = [s \in Sides |-> "none"] /\ loose = [s \in Sides |-> {}]
  /\ attempts = [s \in Sides |-> 0]
  /\ missed = [s \in Sides |-> 0] /\ degraded = [s \in Sides |-> FALSE]

Works == up /\ \A s \in Sides : alive[s]

-----------------------------------------------------------------------------
(* IceRestartController                                                    *)

\* evictWebrtcAdapter(): cleanup() ends all the adapter does.
Evict(s) == alive' = [alive EXCEPT ![s] = FALSE]

\* scheduleIceRestart(): the timer that is held is cleared for a new one, or
\* connection-failed has the adapter evicted.
ScheduleIceRestart(s) ==
  \/ attempts[s] < MaxAttempts /\ held' = [held EXCEPT ![s] = "restart"]
     /\ UNCHANGED alive
  \/ attempts[s] >= MaxAttempts /\ Evict(s) /\ UNCHANGED held

\* resetIceRestartState(): timers that run loose stay.
ResetIceRestart(s) ==
  /\ attempts' = [attempts EXCEPT ![s] = 0]
  /\ held' = [held EXCEPT ![s] = "none"]

\* createRestartOffer() is queued; requests that wait together become one.
RestartTimer(s) ==
  /\ alive[s]
  /\ \/ held[s] = "restart" /\ held' = [held EXCEPT ![s] = "none"]
        /\ UNCHANGED loose
     \/ "restart" \in loose[s] /\ loose' = [loose EXCEPT ![s] = @ \ {"restart"}]
        /\ UNCHANGED held
  /\ attempts' = [attempts EXCEPT ![s] = @ + 1]
  /\ making' = [making EXCEPT ![s] = TRUE]
  /\ UNCHANGED <<up, alive, ice, offered, livenessVars, outages>>

FallbackTimer(s) ==
  /\ alive[s]
  /\ \/ held[s] = "fallback" /\ UNCHANGED loose
     \/ "fallback" \in loose[s] /\ loose' = [loose EXCEPT ![s] = @ \ {"fallback"}]
  /\ ScheduleIceRestart(s)
  /\ UNCHANGED <<up, ice, offerVars, attempts, livenessVars, outages>>

\* mutant: no fallback timer after the restart offer
LeaveToEvents(s) == UNCHANGED <<held, loose>>

\* The finally() after restartIce(): a timer that is held by now runs loose.
ArmFallback(s) ==
  /\ held' = [held EXCEPT ![s] = "fallback"]
  /\ loose' = [loose EXCEPT ![s] = @ \cup ({held[s]} \cap Timers)]

\* createRestartOffer() ends; an unanswered offer of its own is rolled back.
RestartMade(s) ==
  /\ alive[s] /\ making[s] /\ making' = [making EXCEPT ![s] = FALSE]
  /\ offered' = [offered EXCEPT ![s] = TRUE]
  /\ ArmFallback(s)
  /\ UNCHANGED <<up, alive, ice, attempts, livenessVars, outages>>

-----------------------------------------------------------------------------
(* What ICE makes of an exchange and of the link                           *)

\* New credentials: a connection that is up may not even notice.
Rechecked(state) ==
  IF state = "connected" THEN {"connected", "checking"} ELSE {"checking"}

\* handleOffer() of the peer, which rolls back an offer of its own if it is the
\* polite side, and handleAnswer() of s.
Answered(s) ==
  LET p == Peer(s) IN
  /\ alive[s] /\ alive[p] /\ offered[s]
  /\ offered' = [q \in Sides |-> FALSE]
  /\ \E mine \in Rechecked(ice[s]), theirs \in Rechecked(ice[p]) :
       ice' = [ice EXCEPT ![s] = mine, ![p] = theirs]
  /\ UNCHANGED <<up, alive, making, held, loose, attempts, livenessVars, outages>>

LinkDown ==
  /\ up /\ outages < MaxOutages /\ outages' = outages + 1 /\ up' = FALSE
  /\ UNCHANGED <<alive, ice, offerVars, held, loose, attempts, livenessVars>>

LinkUp ==
  /\ ~up /\ up' = TRUE
  /\ UNCHANGED <<alive, ice, offerVars, held, loose, attempts, livenessVars, outages>>

iceFrame == <<up, offerVars, loose, livenessVars, outages>>

IceDisconnected(s) ==
  /\ alive[s] /\ ice[s] = "connected" /\ ~Works
  /\ ice' = [ice EXCEPT ![s] = "disconnected"]
  /\ ScheduleIceRestart(s)
  /\ UNCHANGED <<attempts, iceFrame>>

IceFailed(s) ==
  /\ alive[s] /\ ice[s] \in {"disconnected", "checking"} /\ ~Works
  /\ ice' = [ice EXCEPT ![s] = "failed"]
  /\ ScheduleIceRestart(s)
  /\ UNCHANGED <<attempts, iceFrame>>

\* From failed there is a way back only through checking.
IceConnected(s) ==
  /\ Works /\ ice[s] \in {"disconnected", "checking"}
  /\ ice' = [ice EXCEPT ![s] = "connected"]
  /\ ResetIceRestart(s)
  /\ UNCHANGED <<alive, iceFrame>>

\* The peer's cleanup() closed the data channel.
PeerGone(s) ==
  /\ alive[s] /\ ~alive[Peer(s)] /\ up
  /\ Evict(s)
  /\ UNCHANGED <<up, ice, offerVars, held, loose, attempts, livenessVars, outages>>

-----------------------------------------------------------------------------
(* LivenessMonitor                                                         *)

\* A ping is answered: handlePong() ends the repair of a degraded link.
Pong(s) ==
  /\ Works /\ missed[s] # 0
  /\ missed' = [missed EXCEPT ![s] = 0]
  /\ degraded' = [degraded EXCEPT ![s] = FALSE]
  /\ \/ degraded[s] /\ ResetIceRestart(s)
     \/ ~degraded[s] /\ UNCHANGED <<held, attempts>>
  /\ UNCHANGED <<up, alive, ice, offerVars, loose, outages>>

\* mutant: a lost link is only recorded
NoteLost(s) == UNCHANGED <<alive, held>>

\* onLost(), once until a pong arrives
OnLost(s) ==
  \/ degraded[s] /\ UNCHANGED <<alive, held>>
  \/ ~degraded[s] /\ ScheduleIceRestart(s)

\* A ping is not answered: onPongTimeout().
PongTimeout(s) ==
  /\ alive[s] /\ ~Works
  /\ \/ /\ missed[s] + 1 < MaxMissed
        /\ missed' = [missed EXCEPT ![s] = @ + 1]
        /\ UNCHANGED <<alive, held, degraded>>
     \/ /\ missed[s] + 1 >= MaxMissed
        /\ missed' = [missed EXCEPT ![s] = MaxMissed]
        /\ degraded' = [degraded EXCEPT ![s] = TRUE]
        /\ OnLost(s)
  /\ UNCHANGED <<up, ice, offerVars, loose, attempts, outages>>

-----------------------------------------------------------------------------
Repairing(s) == held[s] # "none" \/ making[s]

Step(s) ==
  \/ RestartTimer(s) \/ FallbackTimer(s) \/ RestartMade(s) \/ Answered(s)
  \/ IceDisconnected(s) \/ IceFailed(s) \/ IceConnected(s) \/ PeerGone(s)
  \/ Pong(s) \/ PongTimeout(s)

Next == LinkDown \/ LinkUp \/ \E s \in Sides : Step(s)

Spec == Init /\ [][Next]_vars

\* Timers fire and offers are made; ICE does not check for ever, and reports a
\* link it finds working.  No offer need be answered and no link come back.
Fairness ==
  \A s \in Sides :
    /\ WF_vars(RestartTimer(s)) /\ WF_vars(FallbackTimer(s))
    /\ WF_vars(RestartMade(s)) /\ WF_vars(Pong(s)) /\ WF_vars(PongTimeout(s))
    /\ WF_vars(ice[s] = "checking" /\ (IceFailed(s) \/ IceConnected(s)))

FairSpec == Spec /\ Fairness

-----------------------------------------------------------------------------
\* A timer that ran loose restarts once more than the limit.
TypeOK ==
  /\ up \in BOOLEAN /\ outages \in 0..MaxOutages
  /\ alive \in [Sides -> BOOLEAN] /\ ice \in [Sides -> IceStates]
  /\ making \in [Sides -> BOOLEAN] /\ offered \in [Sides -> BOOLEAN]
  /\ held \in [Sides -> Timers \cup {"none"}] /\ loose \in [Sides -> SUBSET Timers]
  /\ attempts \in [Sides -> 0..(MaxAttempts + 1)]
  /\ missed \in [Sides -> 0..MaxMissed] /\ degraded \in [Sides -> BOOLEAN]

\* A link that stops carrying anything is noticed by both sides, whatever ICE
\* reports: it works again, or the adapter is given up (LivenessMonitor's onLost
\* and IceRestartController's fallback timer).  A side that is still degraded from
\* an earlier break and repairs nothing is blind to the next one.
BrokenLinkIsSettled ==
  \A s \in Sides :
    (alive[s] /\ ~Works /\ (~degraded[s] \/ Repairing(s))) ~> (Works \/ ~alive[s])

=============================================================================
