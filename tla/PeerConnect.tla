----------------------------- MODULE PeerConnect -----------------------------
(***************************************************************************)
(* connectToPeer() of ConnectionService towards one peer: the connect in   *)
(* flight, its attempts and their retry, the adapter that                  *)
(* WebrtcSessionManager keeps for the peer, and what takes it away         *)
(* (mobile-app: features/shared/connection/services).                      *)
(*                                                                         *)
(* There is at most one adapter in the session map.  An attempt holds the  *)
(* adapter it started on; when another is made, or the adapter is evicted, *)
(* the attempt is left with a disposed one, whose listeners are gone.      *)
(* Negotiation is what the adapter has got of it; how a link that has come *)
(* up is kept is in LinkRepair.                                            *)
(***************************************************************************)
EXTENDS Naturals

CONSTANTS Runs,        \* the calls of connectToPeer() that start a connect
          NoRun,
          MaxRetries   \* MAX_CONNECT_RETRIES

ASSUME ConnectAssumption == NoRun \notin Runs /\ MaxRetries \in Nat

VARIABLES
  session,    \* the adapter in webrtcAdapters and how far its negotiation is
  run,        \* each connect: its stage, retry count, whether it owns session
  inflight,   \* the entry of connectingPeers
  dropped,    \* history: connects whose entry a hang-up dropped
  shown       \* the last connection-state emitted

vars == <<session, run, inflight, dropped, shown>>

Sessions == {"none", "new", "negotiated", "linked"}
States   == {"idle", "connecting", "connected", "failed", "timeout"}
Stages   == {"idle", "dialling", "hung", "offering", "waiting",
             "resolved", "rejected"}
Connect  == [stage : Stages, retry : 0 .. MaxRetries, owns : BOOLEAN]

Init ==
  /\ session = "none" /\ inflight = NoRun /\ dropped = {} /\ shown = "idle"
  /\ run = [r \in Runs |-> [stage |-> "idle", retry |-> 0, owns |-> FALSE]]

\* The promise is not settled.
Running(r) == run[r].stage \in {"dialling", "hung", "offering", "waiting"}

\* The attempt has a timer and listeners on its adapter.
Negotiating(r) == run[r].stage \in {"offering", "waiting"}

\* shouldRetryConnect()
Retries(r) == run[r].retry < MaxRetries

\* Attempts that hear the events of the adapter in the map.
Listening == {r \in Runs : Negotiating(r) /\ run[r].owns}

\* mutant: whoever settles clears the entry
EntryAfterAnyEnd(settled) == IF settled = {} THEN inflight ELSE NoRun

\* The finally() of the tracked promise.
EntryAfter(settled) == IF inflight \in settled THEN NoRun ELSE inflight

Settle(r, stage) == [run EXCEPT ![r].stage = stage]

\* mutant: eviction is not reported
SilentEviction == shown

\* evictWebrtcAdapter() tells onEvict, when there is something to evict.
ShownAfterEviction == IF session = "none" THEN shown ELSE "failed"

\* The connects after the adapter in the map has gone.
Disowned(connects) == [r \in Runs |-> [connects[r] EXCEPT !.owns = FALSE]]

-----------------------------------------------------------------------------
(* connectToPeer()                                                         *)

\* A call that finds no connect to join.  Only here, before the dial, is the
\* adapter asked whether it is connected.
Begin(r) ==
  /\ run[r].stage = "idle" /\ inflight = NoRun
  /\ \/ /\ session = "linked" /\ shown' = "connected"
        /\ run' = Settle(r, "resolved")
        /\ UNCHANGED <<session, inflight>>
     \/ /\ session # "linked"
        /\ run' = [run EXCEPT ![r] =
             [stage |-> "dialling", retry |-> 0, owns |-> TRUE]]
        /\ session' = IF session = "none" THEN "new" ELSE session
        /\ inflight' = r /\ UNCHANGED shown
  /\ UNCHANGED dropped

\* establishTcpForMode() returns: the attempt waits for its adapter's events,
\* with a timer, and asks for an offer.
Dialled(r) ==
  /\ run[r].stage = "dialling" /\ run' = Settle(r, "offering")
  /\ shown' = "connecting"
  /\ UNCHANGED <<session, inflight, dropped>>

\* establishTcpForMode() throws: nothing is retried and nothing is shown.
DialFails(r) ==
  /\ run[r].stage = "dialling"
  /\ run' = Settle(r, "rejected") /\ inflight' = EntryAfter({r})
  /\ UNCHANGED <<session, dropped, shown>>

\* sendConnectionOffer() has its offer from an adapter that is not disposed.
OfferMade(r) ==
  /\ run[r].stage = "offering" /\ run[r].owns
  /\ run' = Settle(r, "waiting")
  /\ session' = IF session = "new" THEN "negotiated" ELSE session
  /\ UNCHANGED <<inflight, dropped, shown>>

\* connectToPeer() for a retry, after whatever adapter is in the map now has
\* been evicted.
NextAttempt(r) ==
  [Disowned(run) EXCEPT ![r] =
     [stage |-> "dialling", retry |-> run[r].retry + 1, owns |-> TRUE]]

OnFreshAdapter ==
  /\ session' = "new" /\ shown' = ShownAfterEviction
  /\ UNCHANGED <<inflight, dropped>>

\* The TCP adapter is evicted: a dial that waits for the handshake over its
\* socket never hears of it, since close does not settle connect().
Cut(connects, r) ==
  \E hit \in SUBSET {q \in Runs \ {r} : connects[q].stage = "dialling"} :
    run' = [q \in Runs |->
              IF q \in hit THEN [connects[q] EXCEPT !.stage = "hung"]
              ELSE connects[q]]

\* The end of an attempt that may not be retried.
GiveUp(r, state) ==
  /\ inflight' = EntryAfter({r}) /\ shown' = state /\ UNCHANGED dropped

\* createOffer() rejects, as it must on a disposed adapter: the adapter in the
\* map is evicted all the same.
OfferFails(r) ==
  /\ run[r].stage = "offering"
  /\ \/ Retries(r) /\ OnFreshAdapter /\ run' = NextAttempt(r)
     \/ /\ ~Retries(r) /\ GiveUp(r, "failed") /\ session' = "none"
        /\ run' = Disowned(Settle(r, "rejected"))

\* mutant: the timer goes with the listeners of the adapter
TimeoutOfOwner(r) ==
  /\ Negotiating(r) /\ run[r].owns
  /\ \/ Retries(r) /\ OnFreshAdapter /\ Cut(NextAttempt(r), r)
     \/ /\ ~Retries(r) /\ GiveUp(r, "timeout") /\ UNCHANGED session
        /\ run' = Settle(r, "rejected")

\* The connect timer; retryConnect() evicts the TCP adapter too, when there is
\* an address to dial again.
Timeout(r) ==
  /\ Negotiating(r)
  /\ \/ Retries(r) /\ OnFreshAdapter /\ Cut(NextAttempt(r), r)
     \/ /\ ~Retries(r) /\ GiveUp(r, "timeout") /\ UNCHANGED session
        /\ run' = Settle(r, "rejected")

-----------------------------------------------------------------------------
(* The adapter in the map                                                  *)

\* A message of the peer, or a question of the app, makes an adapter where
\* there is none (getWebrtcAdapter); an offer of the peer negotiates it.
PeerSpeaks(offer) ==
  /\ session = "none" \/ (session = "new" /\ offer)
  /\ session' = IF offer THEN "negotiated" ELSE "new"
  /\ UNCHANGED <<run, inflight, dropped, shown>>

\* connection-established reaches the attempts that listen.
Established ==
  /\ session = "negotiated" /\ session' = "linked"
  /\ run' = [r \in Runs |-> IF r \in Listening
               THEN [run[r] EXCEPT !.stage = "resolved"] ELSE run[r]]
  /\ inflight' = EntryAfter(Listening)
  /\ shown' = IF Listening = {} THEN shown ELSE "connected"
  /\ UNCHANGED dropped

\* connection-failed: the adapter is evicted first, then the attempts that
\* listened are told, one after the other.  Each that retries makes an adapter
\* of its own, which the next one to retry evicts.
Failed ==
  LET again == {r \in Listening : Retries(r)}
      told  == [r \in Runs |->
        IF r \in again
        THEN [stage |-> "dialling", retry |-> run[r].retry + 1, owns |-> FALSE]
        ELSE IF r \in Listening
        THEN [run[r] EXCEPT !.stage = "rejected", !.owns = FALSE]
        ELSE [run[r] EXCEPT !.owns = FALSE]]
  IN /\ session \in {"negotiated", "linked"}
     /\ \/ again = {} /\ session' = "none" /\ run' = told
        \/ \E last \in again :
             /\ session' = "new" /\ Cut([told EXCEPT ![last].owns = TRUE], last)
     /\ inflight' = EntryAfter(Listening \ again)
     /\ shown' = "failed" /\ UNCHANGED dropped

\* connection-closed: evicted, and no attempt is told.
Closed ==
  /\ session # "none" /\ session' = "none"
  /\ run' = Disowned(run) /\ shown' = ShownAfterEviction
  /\ UNCHANGED <<inflight, dropped>>

\* terminateCallConnection(): the connect under way is forgotten, not stopped.
HangUp ==
  /\ session # "none" \/ inflight # NoRun
  /\ session' = "none" /\ run' = Disowned(run) /\ shown' = ShownAfterEviction
  /\ dropped' = dropped \cup ({inflight} \ {NoRun}) /\ inflight' = NoRun

\* handlePeerRediscovered() and stopTcpTransport(): the TCP adapter goes.
Rediscovered ==
  /\ Cut(run, NoRun) /\ run' # run
  /\ UNCHANGED <<session, inflight, dropped, shown>>

-----------------------------------------------------------------------------
Step(r) == Dialled(r) \/ DialFails(r) \/ OfferMade(r) \/ OfferFails(r) \/ Timeout(r)

AdapterEvent ==
  \/ \E offer \in BOOLEAN : PeerSpeaks(offer)
  \/ Established \/ Failed \/ Closed

Next ==
  \/ \E r \in Runs : Begin(r) \/ Step(r)
  \/ AdapterEvent \/ HangUp \/ Rediscovered

Spec == Init /\ [][Next]_vars

\* A dial is answered or refused, an offer made or not; timers fire.
Fairness ==
  \A r \in Runs : /\ WF_vars(Dialled(r) \/ DialFails(r))
                  /\ WF_vars(OfferMade(r) \/ OfferFails(r))
                  /\ WF_vars(Timeout(r))

FairSpec == Spec /\ Fairness

-----------------------------------------------------------------------------
TypeOK ==
  /\ session \in Sessions /\ shown \in States
  /\ run \in [Runs -> Connect]
  /\ inflight \in Runs \cup {NoRun} /\ dropped \in SUBSET Runs

\* Concurrent calls for a peer share one connect: one that runs without being
\* the registered one is one a hang-up dropped, however many connects have
\* settled, been retried or been abandoned since.
OneConnectAtATime ==
  \A r \in Runs : Running(r) => inflight = r \/ r \in dropped

\* The header does not say connected of an adapter that is no longer there or
\* that another has replaced.
ShownIsLinked == shown = "connected" => session = "linked"

\* The promise of connectToPeer() settles, unless its dial hangs, whatever
\* becomes of the adapters: evicted ones tell nobody, only the timer is left.
ConnectSettles ==
  \A r \in Runs : Running(r) ~> ~Running(r) \/ run[r].stage = "hung"
=============================================================================
