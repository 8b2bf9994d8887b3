-------------------------- MODULE PeerConnectProofs --------------------------
(***************************************************************************)
(* What holds of PeerConnect for any set of connects and any number of     *)
(* retries.  The three conjuncts of the invariant are inductive together:  *)
(* that a connect which runs is registered or was dropped needs no more    *)
(* than the types, and so does what the header says.                       *)
(***************************************************************************)
EXTENDS PeerConnect, TLAPS

IInv == TypeOK /\ OneConnectAtATime /\ ShownIsLinked

LEMMA InitIInv == Init => IInv
BY ConnectAssumption
   DEF Init, IInv, TypeOK, OneConnectAtATime, ShownIsLinked, Running, Sessions,
       States, Stages, Connect

-----------------------------------------------------------------------------
(* Operators on the connects                                               *)

LEMMA SettleType ==
  ASSUME run \in [Runs -> Connect], NEW r \in Runs, NEW stage \in Stages
  PROVE  Settle(r, stage) \in [Runs -> Connect]
BY DEF Settle, Connect

LEMMA DisownedType ==
  ASSUME NEW connects \in [Runs -> Connect]
  PROVE  /\ Disowned(connects) \in [Runs -> Connect]
         /\ \A q \in Runs : Disowned(connects)[q].stage = connects[q].stage
BY DEF Disowned, Connect

\* A retry is counted, and changes the stage of no other connect.
LEMMA NextAttemptType ==
  ASSUME TypeOK, NEW r \in Runs, Retries(r)
  PROVE  /\ NextAttempt(r) \in [Runs -> Connect]
         /\ NextAttempt(r)[r].stage = "dialling"
         /\ \A q \in Runs \ {r} : NextAttempt(r)[q].stage = run[q].stage
<1>1. run \in [Runs -> Connect]
  BY DEF TypeOK
<1>2. run[r].retry + 1 \in 0 .. MaxRetries
  BY <1>1, ConnectAssumption DEF Retries, Connect
<1>3. [stage |-> "dialling", retry |-> run[r].retry + 1, owns |-> TRUE] \in Connect
  BY <1>2 DEF Connect, Stages
<1>4. /\ Disowned(run) \in [Runs -> Connect]
      /\ \A q \in Runs : Disowned(run)[q].stage = run[q].stage
  BY <1>1, DisownedType
<1> QED
  BY <1>3, <1>4 DEF NextAttempt

\* Cutting dials keeps who runs.
LEMMA CutType ==
  ASSUME NEW connects \in [Runs -> Connect], NEW r, Cut(connects, r)
  PROVE  /\ run' \in [Runs -> Connect]
         /\ \A q \in Runs :
              Running(q)' <=> connects[q].stage \in
                                {"dialling", "hung", "offering", "waiting"}
<1>1. PICK hit \in SUBSET {q \in Runs \ {r} : connects[q].stage = "dialling"} :
        run' = [q \in Runs |->
                  IF q \in hit THEN [connects[q] EXCEPT !.stage = "hung"]
                  ELSE connects[q]]
  BY DEF Cut
<1>2. \A q \in Runs : q \in hit => connects[q].stage = "dialling"
  OBVIOUS
<1>3. \A q \in Runs : [connects[q] EXCEPT !.stage = "hung"] \in Connect
  BY DEF Connect, Stages
<1>4. run' \in [Runs -> Connect]
  BY <1>1, <1>3
<1>5. ASSUME NEW q \in Runs
      PROVE  Running(q)' <=> connects[q].stage \in
                               {"dialling", "hung", "offering", "waiting"}
  <2>1. CASE q \in hit
    <3>1. run'[q].stage = "hung"
      BY <1>1, <2>1 DEF Connect
    <3> QED
      BY <3>1, <1>2, <2>1 DEF Running
  <2>2. CASE q \notin hit
    <3>1. run'[q] = connects[q]
      BY <1>1, <2>2
    <3> QED
      BY <3>1 DEF Running
  <2> QED
    BY <2>1, <2>2
<1> QED
  BY <1>4, <1>5

-----------------------------------------------------------------------------
(* Steps of a connect                                                      *)

\* A connect that settles, alone, clears its own entry or none.
LEMMA OneSettles ==
  ASSUME IInv, NEW r \in Runs, ~Running(r)', run' \in [Runs -> Connect],
         \A q \in Runs \ {r} : Running(q)' => Running(q),
         inflight' = EntryAfter({r}), dropped' = dropped
  PROVE  /\ inflight' \in Runs \cup {NoRun} /\ OneConnectAtATime'
BY DEF IInv, TypeOK, OneConnectAtATime, EntryAfter

\* Nobody who did not run before does now, and the entry stays.
LEMMA NobodyStarts ==
  ASSUME IInv, \A q \in Runs : Running(q)' => Running(q),
         UNCHANGED <<inflight, dropped>>
  PROVE  OneConnectAtATime'
BY DEF IInv, OneConnectAtATime

LEMMA BeginKeeps ==
  ASSUME IInv, NEW r \in Runs, Begin(r)
  PROVE  IInv'
<1>1. run \in [Runs -> Connect] /\ run[r].stage = "idle" /\ inflight = NoRun
  BY DEF IInv, TypeOK, Begin
<1>2. CASE session = "linked" /\ shown' = "connected" /\ run' = Settle(r, "resolved")
           /\ UNCHANGED <<session, inflight, dropped>>
  <2>1. run' \in [Runs -> Connect]
    BY <1>1, <1>2, SettleType DEF Stages
  <2>2. \A q \in Runs : Running(q)' => Running(q)
    BY <1>1, <1>2 DEF Settle, Running, Connect
  <2>3. OneConnectAtATime'
    BY <2>2, <1>2, NobodyStarts
  <2> QED
    BY <2>1, <2>3, <1>2 DEF IInv, TypeOK, ShownIsLinked, States
<1>3. CASE /\ session # "linked" /\ inflight' = r /\ UNCHANGED <<shown, dropped>>
           /\ run' = [run EXCEPT ![r] =
                [stage |-> "dialling", retry |-> 0, owns |-> TRUE]]
           /\ session' = IF session = "none" THEN "new" ELSE session
  <2>1. [stage |-> "dialling", retry |-> 0, owns |-> TRUE] \in Connect
    BY ConnectAssumption DEF Connect, Stages
  <2>2. run' \in [Runs -> Connect]
    BY <2>1, <1>1, <1>3
  <2>3. \A q \in Runs \ {r} : run'[q] = run[q]
    BY <1>1, <1>3
  <2>4. \A q \in Runs : Running(q)' => q = r \/ Running(q)
    BY <2>3 DEF Running
  <2>5. OneConnectAtATime'
    BY <2>4, <1>1, <1>3, ConnectAssumption DEF IInv, OneConnectAtATime
  <2>6. ShownIsLinked'
    BY <1>3 DEF IInv, ShownIsLinked
  <2> QED
    BY <2>2, <2>5, <2>6, <1>3 DEF IInv, TypeOK, Sessions
<1> QED
  BY <1>2, <1>3 DEF Begin

LEMMA DialledKeeps ==
  ASSUME IInv, NEW r \in Runs, Dialled(r)
  PROVE  IInv'
<1>1. run \in [Runs -> Connect] /\ run' = Settle(r, "offering")
  BY DEF IInv, TypeOK, Dialled
<1>2. run' \in [Runs -> Connect]
  BY <1>1, SettleType DEF Stages
<1>3. \A q \in Runs : Running(q)' => Running(q)
  BY <1>1 DEF Dialled, Settle, Running, Connect
<1>4. OneConnectAtATime'
  BY <1>3, NobodyStarts DEF Dialled
<1> QED
  BY <1>2, <1>4 DEF Dialled, IInv, TypeOK, ShownIsLinked, States

LEMMA DialFailsKeeps ==
  ASSUME IInv, NEW r \in Runs, DialFails(r)
  PROVE  IInv'
<1>1. run \in [Runs -> Connect] /\ run' = Settle(r, "rejected")
  BY DEF IInv, TypeOK, DialFails
<1>2. run' \in [Runs -> Connect]
  BY <1>1, SettleType DEF Stages
<1>3. ~Running(r)' /\ \A q \in Runs \ {r} : Running(q)' => Running(q)
  BY <1>1 DEF Settle, Running, Connect
<1>4. inflight' \in Runs \cup {NoRun} /\ OneConnectAtATime'
  BY <1>2, <1>3, OneSettles DEF DialFails
<1> QED
  BY <1>2, <1>4 DEF DialFails, IInv, TypeOK, ShownIsLinked

LEMMA OfferMadeKeeps ==
  ASSUME IInv, NEW r \in Runs, OfferMade(r)
  PROVE  IInv'
<1>1. run \in [Runs -> Connect] /\ run' = Settle(r, "waiting")
  BY DEF IInv, TypeOK, OfferMade
<1>2. run' \in [Runs -> Connect]
  BY <1>1, SettleType DEF Stages
<1>3. \A q \in Runs : Running(q)' => Running(q)
  BY <1>1 DEF OfferMade, Settle, Running, Connect
<1>4. OneConnectAtATime'
  BY <1>3, NobodyStarts DEF OfferMade
<1> QED
  BY <1>2, <1>4 DEF OfferMade, IInv, TypeOK, ShownIsLinked, Sessions

\* What is shown of an adapter that was evicted, and of its successor.
LEMMA EvictionIsShown ==
  ASSUME IInv
  PROVE  ShownAfterEviction \in States /\ ShownAfterEviction # "connected"
BY DEF IInv, TypeOK, ShownIsLinked, ShownAfterEviction, States

\* An attempt that goes on with a fresh adapter.
LEMMA RetryKeeps ==
  ASSUME IInv, NEW r \in Runs, Running(r), OnFreshAdapter,
         run' \in [Runs -> Connect],
         \A q \in Runs \ {r} : Running(q)' => Running(q)
  PROVE  IInv'
<1>1. \A q \in Runs : Running(q)' => Running(q)
  OBVIOUS
<1>2. OneConnectAtATime'
  BY <1>1, NobodyStarts DEF OnFreshAdapter
<1> QED
  BY <1>2, EvictionIsShown
     DEF OnFreshAdapter, IInv, TypeOK, ShownIsLinked, Sessions

\* An attempt that ends without the adapter being linked by it.
LEMMA GiveUpKeeps ==
  ASSUME IInv, NEW r \in Runs, NEW state \in {"failed", "timeout"},
         GiveUp(r, state), run' \in [Runs -> Connect], session' \in Sessions,
         ~Running(r)', \A q \in Runs \ {r} : Running(q)' => Running(q)
  PROVE  IInv'
<1>1. inflight' \in Runs \cup {NoRun} /\ OneConnectAtATime'
  BY OneSettles DEF GiveUp
<1> QED
  BY <1>1 DEF GiveUp, IInv, TypeOK, ShownIsLinked, States

LEMMA OfferFailsKeeps ==
  ASSUME IInv, NEW r \in Runs, OfferFails(r)
  PROVE  IInv'
<1>1. TypeOK /\ run \in [Runs -> Connect] /\ Running(r)
  BY DEF IInv, TypeOK, OfferFails, Running
<1>2. CASE Retries(r) /\ OnFreshAdapter /\ run' = NextAttempt(r)
  <2>1. /\ run' \in [Runs -> Connect]
        /\ \A q \in Runs \ {r} : run'[q].stage = run[q].stage
    BY <1>1, <1>2, NextAttemptType
  <2>2. \A q \in Runs \ {r} : Running(q)' => Running(q)
    BY <2>1 DEF Running
  <2> QED
    BY <1>1, <1>2, <2>1, <2>2, RetryKeeps
<1>3. CASE /\ GiveUp(r, "failed") /\ session' = "none"
           /\ run' = Disowned(Settle(r, "rejected"))
  <2>1. Settle(r, "rejected") \in [Runs -> Connect]
    BY <1>1, SettleType DEF Stages
  <2>2. /\ run' \in [Runs -> Connect]
        /\ \A q \in Runs : run'[q].stage = Settle(r, "rejected")[q].stage
    BY <2>1, <1>3, DisownedType
  <2>3. ~Running(r)' /\ \A q \in Runs \ {r} : Running(q)' => Running(q)
    BY <1>1, <2>2 DEF Settle, Running, Connect
  <2>4. session' \in Sessions
    BY <1>3 DEF Sessions
  <2> QED
    BY <1>3, <2>2, <2>3, <2>4, GiveUpKeeps
<1> QED
  BY <1>2, <1>3 DEF OfferFails

LEMMA TimeoutKeeps ==
  ASSUME IInv, NEW r \in Runs, Timeout(r)
  PROVE  IInv'
<1>1. /\ TypeOK /\ run \in [Runs -> Connect] /\ session \in Sessions
      /\ Running(r)
  BY DEF IInv, TypeOK, Timeout, Negotiating, Running
<1>2. CASE Retries(r) /\ OnFreshAdapter /\ Cut(NextAttempt(r), r)
  <2>1. /\ NextAttempt(r) \in [Runs -> Connect]
        /\ \A q \in Runs \ {r} : NextAttempt(r)[q].stage = run[q].stage
    BY <1>1, <1>2, NextAttemptType
  <2>2. run' \in [Runs -> Connect] /\ \A q \in Runs \ {r} : Running(q)' => Running(q)
    BY <2>1, <1>2, CutType DEF Running
  <2> QED
    BY <1>1, <1>2, <2>2, RetryKeeps
<1>3. CASE /\ GiveUp(r, "timeout") /\ UNCHANGED session
           /\ run' = Settle(r, "rejected")
  <2>1. run' \in [Runs -> Connect]
    BY <1>1, <1>3, SettleType DEF Stages
  <2>2. ~Running(r)' /\ \A q \in Runs \ {r} : Running(q)' => Running(q)
    BY <1>1, <1>3 DEF Settle, Running, Connect
  <2> QED
    BY <1>1, <1>3, <2>1, <2>2, GiveUpKeeps
<1> QED
  BY <1>2, <1>3 DEF Timeout

-----------------------------------------------------------------------------
(* Events of the adapter and the app                                       *)

LEMMA PeerSpeaksKeeps ==
  ASSUME IInv, NEW offer \in BOOLEAN, PeerSpeaks(offer)
  PROVE  IInv'
BY DEF PeerSpeaks, IInv, TypeOK, OneConnectAtATime, ShownIsLinked, Running, Sessions

LEMMA EstablishedKeeps ==
  ASSUME IInv, Established
  PROVE  IInv'
<1>1. /\ run \in [Runs -> Connect] /\ inflight \in Runs \cup {NoRun}
      /\ shown \in States
  BY DEF IInv, TypeOK
<1>2. \A q \in Runs : [run[q] EXCEPT !.stage = "resolved"] \in Connect
  BY <1>1 DEF Connect, Stages
<1>3. run' = [q \in Runs |-> IF q \in Listening
                THEN [run[q] EXCEPT !.stage = "resolved"] ELSE run[q]]
  BY DEF Established
<1>4. run' \in [Runs -> Connect]
  BY <1>1, <1>2, <1>3
<1>5. \A q \in Runs : Running(q)' => Running(q) /\ q \notin Listening
  BY <1>1, <1>3 DEF Running, Connect
<1>6. inflight' \in Runs \cup {NoRun} /\ OneConnectAtATime'
  BY <1>1, <1>5 DEF Established, EntryAfter, IInv, OneConnectAtATime
<1>7. shown' \in States
  BY <1>1 DEF Established, States
<1> QED
  BY <1>4, <1>6, <1>7 DEF Established, IInv, TypeOK, ShownIsLinked, Sessions

LEMMA FailedKeeps ==
  ASSUME IInv, Failed
  PROVE  IInv'
<1> DEFINE again == {r \in Listening : Retries(r)}
           told  == [r \in Runs |->
             IF r \in again
             THEN [stage |-> "dialling", retry |-> run[r].retry + 1, owns |-> FALSE]
             ELSE IF r \in Listening
             THEN [run[r] EXCEPT !.stage = "rejected", !.owns = FALSE]
             ELSE [run[r] EXCEPT !.owns = FALSE]]
           runs  == {"dialling", "hung", "offering", "waiting"}
<1>1. run \in [Runs -> Connect] /\ inflight \in Runs \cup {NoRun}
  BY DEF IInv, TypeOK
<1>2. \A r \in Runs : Retries(r) => run[r].retry + 1 \in 0 .. MaxRetries
  BY <1>1, ConnectAssumption DEF Retries, Connect
<1>3. \A r \in again :
        [stage |-> "dialling", retry |-> run[r].retry + 1, owns |-> FALSE] \in Connect
  BY <1>2 DEF Connect, Stages, Listening
<1>4. \A r \in Runs :
        /\ [run[r] EXCEPT !.stage = "rejected", !.owns = FALSE] \in Connect
        /\ [run[r] EXCEPT !.owns = FALSE] \in Connect
  BY <1>1 DEF Connect, Stages
<1>5. told \in [Runs -> Connect]
  BY <1>3, <1>4
<1>6. \A r \in Runs :
        told[r].stage \in runs => Running(r) /\ r \notin Listening \ again
  BY <1>1 DEF Running, Listening, Negotiating, Connect
<1>7. run' \in [Runs -> Connect] /\ \A r \in Runs : Running(r)' => told[r].stage \in runs
  <2>1. CASE run' = told
    BY <2>1, <1>5 DEF Running
  <2>2. ASSUME NEW last \in again, Cut([told EXCEPT ![last].owns = TRUE], last)
        PROVE  <1>7
    <3> DEFINE next == [told EXCEPT ![last].owns = TRUE]
    <3>1. last \in Runs
      BY DEF Listening
    <3>2. next \in [Runs -> Connect] /\ \A r \in Runs : next[r].stage = told[r].stage
      BY <3>1, <1>5 DEF Connect
    <3> HIDE DEF next
    <3>3. Cut(next, last)
      BY <2>2 DEF next
    <3>4. /\ run' \in [Runs -> Connect]
          /\ \A r \in Runs : Running(r)' <=> next[r].stage \in runs
      BY <3>2, <3>3, CutType
    <3> QED
      BY <3>2, <3>4
  <2> QED
    BY <2>1, <2>2 DEF Failed
<1>8. inflight' = EntryAfter(Listening \ again) /\ dropped' = dropped
      /\ shown' = "failed" /\ session' \in Sessions
  BY DEF Failed, Sessions
<1> HIDE DEF again, told, runs
<1>9. inflight' \in Runs \cup {NoRun} /\ OneConnectAtATime'
  BY <1>1, <1>6, <1>7, <1>8 DEF EntryAfter, IInv, OneConnectAtATime
<1> QED
  BY <1>7, <1>8, <1>9 DEF IInv, TypeOK, ShownIsLinked, States

LEMMA ClosedKeeps ==
  ASSUME IInv, Closed
  PROVE  IInv'
<1>1. run \in [Runs -> Connect] /\ run' = Disowned(run)
  BY DEF IInv, TypeOK, Closed
<1>2. run' \in [Runs -> Connect] /\ \A q \in Runs : run'[q].stage = run[q].stage
  BY <1>1, DisownedType
<1>3. \A q \in Runs : Running(q)' => Running(q)
  BY <1>2 DEF Running
<1>4. OneConnectAtATime'
  BY <1>3, NobodyStarts DEF Closed
<1> QED
  BY <1>2, <1>4, EvictionIsShown DEF Closed, IInv, TypeOK, ShownIsLinked, Sessions

LEMMA HangUpKeeps ==
  ASSUME IInv, HangUp
  PROVE  IInv'
<1>1. run \in [Runs -> Connect] /\ run' = Disowned(run)
  BY DEF IInv, TypeOK, HangUp
<1>2. run' \in [Runs -> Connect] /\ \A q \in Runs : run'[q].stage = run[q].stage
  BY <1>1, DisownedType
<1>3. \A q \in Runs : Running(q)' => Running(q)
  BY <1>2 DEF Running
<1>4. OneConnectAtATime'
  BY <1>3, ConnectAssumption DEF HangUp, IInv, OneConnectAtATime
<1> QED
  BY <1>2, <1>4, EvictionIsShown DEF HangUp, IInv, TypeOK, ShownIsLinked, Sessions

LEMMA RediscoveredKeeps ==
  ASSUME IInv, Rediscovered
  PROVE  IInv'
<1>1. run \in [Runs -> Connect] /\ Cut(run, NoRun)
  BY DEF IInv, TypeOK, Rediscovered
<1>2. run' \in [Runs -> Connect] /\ \A q \in Runs : Running(q)' => Running(q)
  BY <1>1, CutType DEF Running
<1>3. OneConnectAtATime'
  BY <1>2, NobodyStarts DEF Rediscovered
<1> QED
  BY <1>2, <1>3 DEF Rediscovered, IInv, TypeOK, ShownIsLinked

-----------------------------------------------------------------------------
LEMMA NextKeeps == IInv /\ [Next]_vars => IInv'
<1> SUFFICES ASSUME IInv, [Next]_vars PROVE IInv'
  OBVIOUS
<1>1. CASE UNCHANGED vars
  BY <1>1 DEF vars, IInv, TypeOK, OneConnectAtATime, ShownIsLinked, Running
<1>2. ASSUME NEW r \in Runs, Begin(r) \/ Step(r) PROVE IInv'
  BY <1>2, BeginKeeps, DialledKeeps, DialFailsKeeps, OfferMadeKeeps,
     OfferFailsKeeps, TimeoutKeeps DEF Step
<1>3. CASE AdapterEvent
  BY <1>3, PeerSpeaksKeeps, EstablishedKeeps, FailedKeeps, ClosedKeeps
     DEF AdapterEvent
<1> QED
  BY <1>1, <1>2, <1>3, HangUpKeeps, RediscoveredKeeps DEF Next

THEOREM Invariance == Spec => []IInv
BY InitIInv, NextKeeps, PTL DEF Spec

\* The state of every connect, of the map and of the entry has its type: in
\* particular no attempt is retried more than MaxRetries times.
THEOREM TypeCorrect == Spec => []TypeOK
<1>1. IInv => TypeOK
  BY DEF IInv
<1> QED
  BY <1>1, Invariance, PTL

\* connectToPeer() keeps one connect per peer at a time, whatever is abandoned,
\* retried or settled, in any order.
THEOREM OneConnect == Spec => []OneConnectAtATime
<1>1. IInv => OneConnectAtATime
  BY DEF IInv
<1> QED
  BY <1>1, Invariance, PTL

\* The connection state the app is told last never says connected of an
\* adapter that is gone.
THEOREM ConnectedIsLinked == Spec => []ShownIsLinked
<1>1. IInv => ShownIsLinked
  BY DEF IInv
<1> QED
  BY <1>1, Invariance, PTL
=============================================================================
