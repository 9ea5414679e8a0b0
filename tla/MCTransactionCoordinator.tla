---------------------- MODULE MCTransactionCoordinator ----------------------
(***************************************************************************)
(* Instances of TransactionCoordinator for TLC: the coordinator's shard s1 *)
(* and one other participant, s2.                                          *)
(***************************************************************************)
EXTENDS TransactionCoordinator, TLC

CONSTANTS s1, s2, CoordTerms, OtherTerms

Terms == [s \in Shards |-> IF s = s1 THEN CoordTerms ELSE OtherTerms]

\* the participants prepare at different times
Prepares == [s \in Shards |-> IF s = s1 THEN {1} ELSE {2}]
=============================================================================
