--------------------------- MODULE MCSerialWorker ---------------------------
(* Instances of SerialWorker for TLC.                                      *)
EXTENDS SerialWorker, TLC

CONSTANTS r1, r2, r3

\* every request to a number of its own
DistinctNumbers == [r \in Requests |-> r]

Interchangeable == Permutations(Requests)
=============================================================================
