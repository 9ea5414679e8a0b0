--------------------------- MODULE MCReplication ---------------------------
(***************************************************************************)
(* Instances of Replication for TLC with three members.  The ones that     *)
(* are electable have the same part.                                       *)
(***************************************************************************)
EXTENDS Replication, TLC

CONSTANTS n1, n2, n3

\* No term is spent on an election that is lost.
ElectionsAreWon == lastVote' = lastVote \/ role' # role

\* The one crash is that of the source of a roll back, no batch comes late, no oplog is
\* truncated before the crash and no election is lost.
SourceCrashes ==
    /\ ElectionsAreWon
    /\ batch' = batch
    /\ restarts' # restarts =>
            \E n \in Server : role[n] = "Rollback" /\ log'[source[n]] # log[source[n]]
    /\ \A n \in Server : role'[n] = "Truncated" => restarts = 1

Symmetry == Permutations(Electable)
=============================================================================
