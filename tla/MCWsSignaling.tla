---------------------------- MODULE MCWsSignaling ----------------------------
(* One device, its sockets and a peer, with few user actions and failures. *)
EXTENDS WsSignaling

CONSTANTS alice,
          MaxEvents    \* bound on what the user does and what befalls the device

VARIABLE events

MCInit == Init /\ events = 0

\* Sends are bounded by MaxFrames, what the device does by its causes; the
\* first sign-in is free.
Free ==
  \/ \E p \in Peers : AwaitCredential(p) \/ \E k \in Kinds : Send(k, p)
  \/ issued = 0 /\ SetToken(1)
  \/ OutageSeen \/ NetworkBack \/ DeviceNext

Counted ==
  \/ Start \/ Stop \/ SwitchToLan \/ SwitchToServer \/ OpenPublicChat
  \/ issued > 0 /\ \E t \in {0, issued + 1} : SetToken(t)
  \/ \E p \in Peers : \/ SendChat(p) \/ TearDown(p)
                      \/ KeyArrives(p) \/ KeyLearnt(p)
  \/ \E s \in opened : ServerCloses(s)
  \/ NetworkLost \/ TimePasses

MCNext ==
  \/ Free /\ UNCHANGED events
  \/ Counted /\ events < MaxEvents /\ events' = events + 1

MCFairSpec == MCInit /\ [][MCNext]_<<vars, events>> /\ Fairness
=============================================================================
