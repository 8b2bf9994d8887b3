------------------------------- MODULE MCCalls -------------------------------
(* Two phones that call each other: the one with the smaller id accepts.    *)
EXTENDS Calls, TLC

CONSTANTS alice, bob,
          MaxEvents,     \* bound on what the users do and on what fails, together
          MaxUnderWay    \* functions and messages a tap or a timer may meet

MCRank == alice :> 1 @@ bob :> 2

AllTaps == taps[alice] + taps[bob]
Sum(f) == f[alice] + f[bob]
UnderWay == Cardinality(tasks[alice]) + Cardinality(tasks[bob])
              + Len(net[alice][bob]) + Len(net[bob][alice])
Placing == Cardinality({t \in tasks[alice] \cup tasks[bob] : t.op = "inform"})

\* A third tap only when one call was placed, and it does not place another.
TapBound ==
  AllTaps' # AllTaps =>
    /\ AllTaps' <= IF Sum(made) + Placing <= 1 THEN 3 ELSE 2
    /\ AllTaps = 2 => Placing' = Placing

\* A tap or a timer: the only steps that start a function without a message.
Begins(u) ==
  \/ taps'[u] # taps[u]
  \/ Cardinality(tasks'[u]) > Cardinality(tasks[u]) /\ net' = net

Bounded ==
  /\ AllTaps' + losses' <= MaxEvents /\ TapBound
  /\ taps'[bob] > 0 => taps[alice] > 0     \* alice is the first to tap
  /\ (\E u \in Users : Begins(u)) => UnderWay <= MaxUnderWay

MCNext == Next /\ Bounded
MCSpec == Init /\ [][MCNext]_vars
MCFairSpec == MCSpec /\ Fairness
=============================================================================
