---------------------------- MODULE MCSyncStarts ----------------------------
(* Sync from two starts: nothing is there, or a call that everybody has.   *)
EXTENDS MCSync

CONSTANTS FirstWrites,  \* bound on the users' writes when nothing is there
          MaxTrouble    \* bound on failures and deletions together

VARIABLE settled

\* d1 created the call and pushed it, d2 pulled it, in the first instant.
Call == [version |-> 1, created |-> 1, updated |-> 1]

EverybodyHasIt ==
  /\ clock = 1 /\ writes = 1 /\ deletes = 0 /\ failures = 0
  /\ server = call :> (Call @@ [deleted |-> FALSE])
  /\ local  = [d \in Devices |->
                 call :> (Call @@ [status |-> "synced", held |-> FALSE])]
  /\ cursor = [d \in Devices |-> 1]
  /\ pc     = [d \in Devices |-> "idle"]
  /\ from   = [d \in Devices |-> 0]
  /\ stamp  = [d \in Devices |-> 0]
  /\ pulled = [d \in Devices |-> <<>>]
  /\ batch  = [d \in Devices |-> <<>>]
  /\ request = [d \in Devices |-> NoRequest]
  /\ answer  = [d \in Devices |-> "none"]
  /\ committed = [r \in Records |-> IF r = call THEN {1} ELSE {}]
  /\ seen = [d \in Devices |-> committed]

MCInit == \/ Init /\ settled = FALSE
          \/ EverybodyHasIt /\ settled = TRUE

\* Failures and deletions are met from the first start, long edits from the
\* second.
MCNext ==
  /\ Next /\ UNCHANGED settled
  /\ IF settled THEN UNCHANGED <<failures, deletes>>
     ELSE writes' <= FirstWrites /\ failures' + deletes' <= MaxTrouble

MCFairSpec ==
  /\ MCInit /\ [][MCNext]_<<vars, settled>>
  /\ \A d \in Devices : WF_vars(SyncStep(d)) /\ WF_vars(ServerPush(d))
=============================================================================
