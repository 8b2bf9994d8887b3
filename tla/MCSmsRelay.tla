----------------------------- MODULE MCSmsRelay -----------------------------
(* Instances of SmsRelay for TLC: one phone that writes to the gateway, and *)
(* is registered to begin with, and one it may choose for a target.         *)
EXTENDS SmsRelay, TLC

CONSTANTS p1, p2, a1,
          MaxEvents   \* texts, requests, changes, crashes and shutdowns in all

MCInit == Init /\ account[p1] = "ok"

MCNext ==
  /\ Next
  /\ \A i \in DOMAIN arrived' : arrived'[i].from = p1
  /\ Len(arrived') + Cardinality({a \in Apis : apiPc'[a] # "idle"})
       + changes' + crashes' <= MaxEvents

MCFairSpec == MCInit /\ [][MCNext]_vars /\ Fairness
=============================================================================
