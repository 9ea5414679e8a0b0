--------------------------- MODULE MCLockManager ---------------------------
(***************************************************************************)
(* Instances of LockManager for TLC: three lockers, two of which share a   *)
(* partition, so that both the partition fast path and the race to create  *)
(* a PartitionedLockHead happen.                                           *)
(***************************************************************************)
EXTENDS LockManager, TLC

CONSTANTS l1, l2, l3, p1, p2

MCPartitionOf == [l \in Locker |-> IF l = l3 THEN p2 ELSE p1]

SamePartition == Permutations({l1, l2})
=============================================================================
