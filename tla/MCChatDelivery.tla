--------------------------- MODULE MCChatDelivery ---------------------------
(* Instances of ChatDelivery for TLC.                                      *)
EXTENDS ChatDelivery, TLC

CONSTANTS alice, bob, w1, w2, m1, conv, MaxTrouble

\* Each kind of trouble has its bound; so have all of them together.
MCNext == /\ Next
          /\ drops' + retries' + channels' + seens' + stops' <= MaxTrouble

MCSpec == Init /\ [][MCNext]_vars
MCFairSpec == MCSpec /\ Fairness
=============================================================================
