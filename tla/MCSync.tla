------------------------------- MODULE MCSync -------------------------------
(* Instances of Sync for TLC.                                              *)
EXTENDS Sync, TLC

CONSTANTS d1, d2, call, participant, conversation

\* a call and a participant of it
OneParent == call :> NoRecord @@ participant :> call
\* one conversation
NoParent == conversation :> NoRecord

AnyDevice == Permutations(Devices)
=============================================================================
