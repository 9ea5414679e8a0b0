---------------------------- MODULE Replication ----------------------------
(***************************************************************************)
(* Replication of the oplog (db/repl): what a primary writes, how the      *)
(* others fetch and apply it, how positions travel back, how the commit    *)
(* point and the stable timestamp advance, and what elections, roll backs  *)
(* and crashes do to all of these.                                         *)
(*                                                                         *)
(* An oplog is a sequence of terms: the optime of an entry is its term and *)
(* its index, which stands for the timestamp.  Before every oplog there is *)
(* the entry all members started from, at optime Null.  Optimes are        *)
(* compared term first.  A step is what a thread does while it holds the   *)
(* mutex of the ReplicationCoordinator.  Every member votes and bears      *)
(* data, the configuration is fixed, writeConcernMajorityShouldJournal and *)
(* enableMajorityReadConcern are set, and roll back goes by way of the     *)
(* stable timestamp.                                                       *)
(***************************************************************************)
EXTENDS Integers, Sequences, FiniteSets

CONSTANTS
    Server,          \* the members
    Electable,       \* the members with a priority above zero
    None,            \* no sync source
    NoBatch,         \* the oplog fetcher waits for the next batch
    MaxTerm,         \* bound: no member runs for a higher term
    MaxLog,          \* bound on the length of an oplog
    MaxBatch,        \* bound on the entries of one batch
    MaxRestarts,     \* bound on the number of restarts
    LateBatches,     \* FALSE leaves out the executions in which the fetcher handles the
                     \* metadata of a batch after its member has finished draining
    StaleRollbacks   \* FALSE leaves out the executions in which a member that rolls back
                     \* goes by what is no longer so: it truncates against a sync source
                     \* that has lost its lead, or hears of a commit point in the term of
                     \* the branch it has just left and takes it for one of its own

ASSUME ServerAssumption == IsFiniteSet(Server) /\ None \notin Server
ASSUME ElectableAssumption == Electable \subseteq Server
ASSUME BoundAssumption == /\ MaxTerm \in Nat
                          /\ MaxLog \in Nat
                          /\ MaxBatch \in Nat
                          /\ MaxRestarts \in Nat
ASSUME LateAssumption == LateBatches \in BOOLEAN
ASSUME StaleAssumption == StaleRollbacks \in BOOLEAN

VARIABLES
    \* term, the term of the stored vote, and the member's role
    term, lastVote, role,
    \* the term a primary that is stepping down has heard of
    pendingTerm,
    \* the oplog and what the member says about it
    log, lastApplied, lastDurable,
    \* _lastCommittedOpTimeAndWallTime, the storage engine's stable timestamp and
    \* _stableOpTimeCandidates
    lastCommitted, stable, candidates,
    \* the primary's _firstOpTimeOfMyTerm, and the durable optimes that the members have
    \* reported to it, in _memberData or on their way
    firstOp, reports,
    \* the batch of the oplog fetcher, and the sync source a member rolls back against
    batch, source,
    \* writes awaiting majority write concern
    waiting,
    \* every commit point a member ever had: heartbeats carry them, at any time
    published,
    \* restarts so far
    restarts

electionVars == <<term, lastVote, role, pendingTerm>>
oplogVars == <<log, lastApplied, lastDurable>>
stableVars == <<stable, candidates, waiting>>
commitVars == <<lastCommitted, published, stableVars>>
primaryVars == <<firstOp, reports>>
syncVars == <<batch, source>>
vars == <<electionVars, oplogVars, commitVars, primaryVars, syncVars, restarts>>

-----------------------------------------------------------------------------
(* Optimes and oplogs.                                                      *)

OpTime(t, i) == [t |-> t, i |-> i]
Null == OpTime(0, 0)
Infinity == OpTime(MaxTerm + 1, 0)

Before(a, b) == a.t < b.t \/ (a.t = b.t /\ a.i < b.i)
AtMost(a, b) == a = b \/ Before(a, b)
MinOp(a, b) == IF Before(a, b) THEN a ELSE b
MaxOp(a, b) == IF Before(a, b) THEN b ELSE a
Latest(S) == CHOOSE a \in S : \A b \in S : AtMost(b, a)

OpAt(l, i) == OpTime(IF i = 0 THEN 0 ELSE l[i], i)
Top(l) == OpAt(l, Len(l))
Has(l, op) == op.i <= Len(l) /\ OpAt(l, op.i) = op

Larger(a, b) == IF a > b THEN a ELSE b

IsMajority(S) == 2 * Cardinality(S) > Cardinality(Server)

Leading == {"LeaderElect", "Master", "SteppingDown"}
RollingBack == {"Rollback", "Truncated"}
isPrimary(n) == role[n] \in Leading

Init ==
    /\ term = [n \in Server |-> 0]
    /\ lastVote = [n \in Server |-> 0]
    /\ role = [n \in Server |-> "Secondary"]
    /\ pendingTerm = [n \in Server |-> 0]
    /\ log = [n \in Server |-> <<>>]
    /\ lastApplied = [n \in Server |-> Null]
    /\ lastDurable = [n \in Server |-> Null]
    /\ lastCommitted = [n \in Server |-> Null]
    /\ stable = [n \in Server |-> Null]
    /\ candidates = [n \in Server |-> {Null}]
    /\ firstOp = [n \in Server |-> Infinity]
    /\ reports = [n \in Server |-> [m \in Server |-> Null]]
    /\ batch = [n \in Server |-> NoBatch]
    /\ source = [n \in Server |-> None]
    /\ waiting = [n \in Server |-> {}]
    /\ published = {Null}
    /\ restarts = 0

-----------------------------------------------------------------------------
(* Commit point and stable timestamp.                                       *)

\* (mutant) a primary commits entries of earlier terms
advanced_OldTerm(n, c, fromSyncSource) ==
    LET otherTerm == lastApplied[n].t # c.t
        onMyBranch == IF otherTerm THEN MinOp(c, lastApplied[n]) ELSE c
    IN IF otherTerm /\ ~fromSyncSource
       THEN lastCommitted[n]
       ELSE MaxOp(lastCommitted[n], onMyBranch)
\* (mutant) a heartbeat is trusted like the sync source
advanced_AnySource(n, c, fromSyncSource) ==
    LET onMyBranch == IF lastApplied[n].t # c.t THEN MinOp(c, lastApplied[n]) ELSE c
    IN IF isPrimary(n) /\ Before(c, firstOp[n])
       THEN lastCommitted[n]
       ELSE MaxOp(lastCommitted[n], onMyBranch)

\* TopologyCoordinator::advanceLastCommittedOpTimeAndWallTime: the commit point of n after
\* it heard of c.
advanced(n, c, fromSyncSource) ==
    LET otherTerm == lastApplied[n].t # c.t
        onMyBranch == IF otherTerm THEN MinOp(c, lastApplied[n]) ELSE c
    IN IF (isPrimary(n) /\ Before(c, firstOp[n])) \/ (otherTerm /\ ~fromSyncSource)
       THEN lastCommitted[n]
       ELSE MaxOp(lastCommitted[n], onMyBranch)

\* _setStableTimestampForStorage with _recalculateStableOpTime, _updateCommittedSnapshot,
\* _cleanupStableOpTimeCandidates: the latest candidate not after the commit point c.  In
\* state ROLLBACK the timestamp stays and only the candidates are cleaned up.
setStableTimestamp(n, c, cands) ==
    LET eligible == {op \in cands : AtMost(op, c)}
        chosen == Latest(eligible)
    IN IF eligible = {}
       THEN /\ candidates' = [candidates EXCEPT ![n] = cands]
            /\ UNCHANGED <<stable, waiting>>
       ELSE /\ candidates' = [candidates EXCEPT ![n] = {op \in cands : AtMost(chosen, op)}]
            /\ IF role[n] \in RollingBack
               THEN UNCHANGED <<stable, waiting>>
               ELSE /\ stable' = [stable EXCEPT ![n] = chosen]
                    /\ waiting' = [waiting EXCEPT ![n] = {w \in @ : Before(chosen, w)}]

\* _advanceCommitPoint and _updateLastCommittedOpTimeAndWallTime: c is what advanced says.
advanceCommitPoint(n, c) ==
    /\ lastCommitted' = [lastCommitted EXCEPT ![n] = c]
    /\ published' = published \cup {c}
    /\ IF c = lastCommitted[n] THEN UNCHANGED stableVars
                               ELSE setStableTimestamp(n, c, candidates[n])

\* The same followed by _setMyLastAppliedOpTimeAndWallTime(op).
advanceAndApply(n, c, op) ==
    LET cands == candidates[n] \cup {op} IN
    /\ lastCommitted' = [lastCommitted EXCEPT ![n] = c]
    /\ published' = published \cup {c}
    /\ IF c # lastCommitted[n] \/ AtMost(op, c)
       THEN setStableTimestamp(n, c, cands)
       ELSE /\ candidates' = [candidates EXCEPT ![n] = cands]
            /\ UNCHANGED <<stable, waiting>>

\* updateLastCommittedOpTimeAndWallTime: the latest optime a majority has made durable, by
\* the durable optimes md of the members.
majorityOp(md) ==
    Latest({op \in {md[m] : m \in Server} :
                IsMajority({m \in Server : AtMost(op, md[m])})})

\* (mutant) a primary that steps down for a newer term still counts positions
updateLastCommitted_SteppingDown(n, op) ==
    LET c == advanced(n, majorityOp([reports[n] EXCEPT ![n] = op]), FALSE) IN
    /\ isPrimary(n)
    /\ c # lastCommitted[n]
    /\ advanceCommitPoint(n, c)

\* The same, as the primary n does it when its own durable optime is op.
updateLastCommitted(n, op) ==
    LET c == advanced(n, majorityOp([reports[n] EXCEPT ![n] = op]), FALSE) IN
    /\ role[n] \in {"LeaderElect", "Master"}
    /\ c # lastCommitted[n]
    /\ advanceCommitPoint(n, c)

-----------------------------------------------------------------------------
(* Terms and elections.                                                     *)

\* _updateTerm_inlock: a primary starts to step down; the election of a candidate will
\* find that the term has moved on.
updateTerm(n, t) ==
    \/ /\ t <= term[n]
       /\ UNCHANGED <<term, role, pendingTerm>>
    \/ /\ t > term[n]
       /\ isPrimary(n)
       /\ role' = [role EXCEPT ![n] = "SteppingDown"]
       /\ pendingTerm' = [pendingTerm EXCEPT ![n] = Larger(@, t)]
       /\ UNCHANGED term
    \/ /\ t > term[n]
       /\ ~isPrimary(n)
       /\ term' = [term EXCEPT ![n] = t]
       /\ UNCHANGED <<role, pendingTerm>>

\* A heartbeat tells n of m's term.
LearnTerm(n, m) ==
    /\ term[m] > Larger(term[n], pendingTerm[n])
    /\ updateTerm(n, term[m])
    /\ UNCHANGED <<lastVote, oplogVars, commitVars, primaryVars, syncVars, restarts>>

\* (mutant) the voter does not compare optimes
mayVote_Behind(v, n, t) ==
    /\ ~isPrimary(v)
    /\ term[v] <= t
    /\ lastVote[v] < t

\* processReplSetRequestVotes: at most one vote in a term, and only for a member whose optime
\* is not behind the voter's.  A primary steps down before it may vote again.
mayVote(v, n, t) ==
    /\ ~isPrimary(v)
    /\ term[v] <= t
    /\ lastVote[v] < t
    /\ AtMost(lastApplied[v], lastApplied[n])

\* An election of n, of which module Election has the messages: n votes for itself in a new
\* term and the members of Q vote for it.  storeLocalLastVoteDocument waits until the vote
\* is durable, which makes the oplog before it durable too.  processWinElection:
\* _firstOpTimeOfMyTerm becomes the maximum.  A lost election leaves the term and the votes.
RunElection(n, Q) ==
    LET t == term[n] + 1 IN
    /\ n \in Electable
    /\ role[n] = "Secondary"
    /\ t <= MaxTerm
    /\ \A v \in Q : mayVote(v, n, t)
    /\ term' = [v \in Server |-> IF v \in Q \cup {n} THEN t ELSE term[v]]
    /\ lastVote' = [v \in Server |-> IF v \in Q \cup {n} THEN t ELSE lastVote[v]]
    /\ lastDurable' = [v \in Server |-> IF v \in Q \cup {n} THEN lastApplied[v]
                                                          ELSE lastDurable[v]]
    /\ role' = [role EXCEPT ![n] = IF IsMajority(Q \cup {n}) THEN "LeaderElect" ELSE @]
    /\ UNCHANGED <<pendingTerm, log, lastApplied, commitVars, primaryVars, syncVars, restarts>>

-----------------------------------------------------------------------------
(* The primary.                                                             *)

\* (mutant) the entry is written in the next term
write_NextTerm(n) ==
    LET l == Append(log[n], term[n] + 1) IN
    /\ log' = [log EXCEPT ![n] = l]
    /\ lastApplied' = [lastApplied EXCEPT ![n] = Top(l)]
    /\ candidates' = [candidates EXCEPT ![n] = @ \cup {Top(l)}]
    /\ UNCHANGED <<lastDurable, lastCommitted, published, stable>>

\* logOp and the OnCommit handler that calls setMyLastAppliedOpTimeAndWallTimeForward, which
\* asserts that the optimes of an oplog increase: a member that fails the assertion is down
\* until it restarts.
write(n) ==
    LET l == Append(log[n], term[n]) IN
    /\ Before(Top(log[n]), Top(l))
    /\ log' = [log EXCEPT ![n] = l]
    /\ lastApplied' = [lastApplied EXCEPT ![n] = Top(l)]
    /\ candidates' = [candidates EXCEPT ![n] = @ \cup {Top(l)}]
    /\ UNCHANGED <<lastDurable, lastCommitted, published, stable>>

\* signalDrainComplete: the producer was stopped when drain mode was entered and the buffer
\* is empty; onTransitionToPrimary writes the first entry of the term.  The commit level
\* calculated at the end cannot move, as nobody has reported that entry yet.  The fetcher
\* sees that it is shut down before it looks at the next batch, not while it handles one.
SignalDrainComplete(n) ==
    /\ role[n] = "LeaderElect"
    /\ Len(log[n]) < MaxLog
    /\ write(n)
    /\ role' = [role EXCEPT ![n] = "Master"]
    /\ firstOp' = [firstOp EXCEPT ![n] = Top(log'[n])]
    /\ batch' = [batch EXCEPT ![n] = IF LateBatches /\ @ # NoBatch
                                     THEN [@ EXCEPT !.entries = <<>>] ELSE NoBatch]
    /\ UNCHANGED <<term, lastVote, pendingTerm, waiting, reports, source,
                   restarts>>

\* A client writes and waits for majority write concern (awaitReplication).  A member that
\* steps down accepts writes until it holds the RSTL; it lets nobody start to wait.
ClientWrite(n) ==
    /\ role[n] \in {"Master", "SteppingDown"}
    /\ firstOp[n] # Infinity
    /\ Len(log[n]) < MaxLog
    /\ write(n)
    /\ waiting' = [waiting EXCEPT ![n] =
                      IF role[n] = "Master" THEN @ \cup {Top(log'[n])} ELSE @]
    /\ UNCHANGED <<electionVars, primaryVars, syncVars, restarts>>

\* _stepDownFinish under the RSTL, with _updateMemberStateFromTopologyCoordinator: the
\* waiters fail with PrimarySteppedDown; the pending term is taken over.  A step-down for
\* another reason (lost majority, replSetStepDown) needs no newer term.  The positions in
\* _memberData stay in the code; they are of terms before any later _firstOpTimeOfMyTerm and
\* decide nothing, so they are dropped here.
FinishStepDown(n) ==
    /\ isPrimary(n)
    /\ role' = [role EXCEPT ![n] = "Secondary"]
    /\ term' = [term EXCEPT ![n] = Larger(@, pendingTerm[n])]
    /\ pendingTerm' = [pendingTerm EXCEPT ![n] = 0]
    /\ firstOp' = [firstOp EXCEPT ![n] = Infinity]
    /\ reports' = [reports EXCEPT ![n] = [m \in Server |-> Null]]
    /\ waiting' = [waiting EXCEPT ![n] = {}]
    /\ UNCHANGED <<lastVote, oplogVars, lastCommitted, published, stable,
                   candidates, syncVars, restarts>>

-----------------------------------------------------------------------------
(* Journaling and positions.                                                *)

\* (mutant) an applied optime is counted before the journal is flushed
setLastDurable_Applied(n) == lastDurable' = lastDurable

\* waitUntilDurable: what was applied when the flush began is durable when it ends.
setLastDurable(n) == lastDurable' = [lastDurable EXCEPT ![n] = lastApplied[n]]

\* The journal flusher of a primary: onDurable, setMyLastDurableOpTimeAndWallTimeForward.
\* A flush that does not move the commit point is left out: nothing depends on it but what
\* a crash may lose, and a crash need not lose what is not durable.
JournalFlush(n) ==
    /\ Before(lastDurable[n], lastApplied[n])
    /\ setLastDurable(n)
    /\ updateLastCommitted(n, lastApplied[n])
    /\ UNCHANGED <<electionVars, log, lastApplied, primaryVars, syncVars, restarts>>

\* The journal flusher of m, and the report of the new durable optime that follows it, or a
\* later one: prepareReplSetUpdatePositionCommand or the answer to a heartbeat.  Optime and
\* term are read together, and the primary n looks at the term first.  It may handle the
\* optime long after it was sent: that is UpdateCommitPoint.  A primary that steps down
\* counts no more positions.
ReportPosition(m, n) ==
    /\ ~isPrimary(m)
    /\ role[n] \in {"LeaderElect", "Master"}
    /\ Before(reports[n][m], lastApplied[m])
    /\ setLastDurable(m)
    /\ updateTerm(n, term[m])
    /\ reports' = [reports EXCEPT ![n][m] = lastApplied[m]]
    /\ UNCHANGED <<lastVote, log, lastApplied, commitVars, firstOp, syncVars, restarts>>

\* setLastOptime, then _updateLastCommittedOpTimeAndWallTime.
UpdateCommitPoint(n) ==
    /\ updateLastCommitted(n, lastDurable[n])
    /\ UNCHANGED <<electionVars, oplogVars, primaryVars, syncVars, restarts>>

\* _handleHeartbeatResponse: the commit point of some member, now or earlier.
HeartbeatCommitPoint(n, c) ==
    /\ StaleRollbacks \/ lastApplied[n].t = Top(log[n]).t
    /\ Before(lastCommitted[n], c)
    /\ advanced(n, c, FALSE) # lastCommitted[n]
    /\ advanceCommitPoint(n, advanced(n, c, FALSE))
    /\ UNCHANGED <<electionVars, oplogVars, primaryVars, syncVars, restarts>>

-----------------------------------------------------------------------------
(* Fetching and applying.                                                   *)

\* A member in state ROLLBACK answers no oplog query.
readable(m) == role[m] \notin RollingBack

\* (mutant) the first document is not compared with the last entry of n
batches_AnyStart(n, m) ==
    {[entries |-> SubSeq(log[m], Len(log[n]) + 1, Len(log[n]) + k),
      commit |-> lastCommitted[m],
      term |-> term[m]] :
        k \in {k \in 0..MaxBatch : /\ m # n /\ readable(m)
                                    /\ Len(log[n]) + k <= Len(log[m])
                                    /\ k > 0}}

\* (mutant) nothing is learned from a batch without documents
batches_NoMetadata(n, m) ==
    {[entries |-> SubSeq(log[m], Len(log[n]) + 1, Len(log[n]) + k),
      commit |-> lastCommitted[m],
      term |-> term[m]] :
        k \in {k \in 1..MaxBatch : /\ m # n /\ readable(m)
                                    /\ Has(log[m], Top(log[n]))
                                    /\ Len(log[n]) + k <= Len(log[m])}}

\* OplogFetcher: the batches n may get of the sync source m, with m's commit point and term.
\* The first document must be the last entry of n (checkRemoteOplogStart); later batches
\* may be empty, and tell something only when the commit point or the term is news.
batches(n, m) ==
    {[entries |-> SubSeq(log[m], Len(log[n]) + 1, Len(log[n]) + k),
      commit |-> lastCommitted[m],
      term |-> term[m]] :
        k \in {k \in 0..MaxBatch :
                /\ m # n /\ readable(m)
                /\ Has(log[m], Top(log[n]))
                /\ Len(log[n]) + k <= Len(log[m])
                /\ k > 0 \/ Before(lastCommitted[n], lastCommitted[m]) \/ term[m] > term[n]}}

\* _onSuccessfulBatch: processMetadata (commit point, then term), _enqueueDocuments, and
\* the application of the batch b.
onSuccessfulBatch(n, b) ==
    LET c == advanced(n, b.commit, TRUE)
        l == log[n] \o b.entries
    IN
    /\ updateTerm(n, b.term)
    /\ IF b.entries = <<>>
       THEN advanceCommitPoint(n, c) /\ UNCHANGED <<log, lastApplied>>
       ELSE /\ log' = [log EXCEPT ![n] = l]
            /\ lastApplied' = [lastApplied EXCEPT ![n] = Top(l)]
            /\ advanceAndApply(n, c, Top(l))
    /\ UNCHANGED <<lastVote, lastDurable, primaryVars, source, restarts>>

\* A secondary handles a batch in the step that fetches it.
Sync(n, m) ==
    /\ role[n] = "Secondary"
    /\ batch[n] = NoBatch
    /\ \E b \in batches(n, m) : onSuccessfulBatch(n, b)
    /\ UNCHANGED batch

\* A new primary that catches up: between the answer of the sync source and its handling
\* the member may finish draining, or step down.
FetchBatch(n, m) ==
    /\ role[n] = "LeaderElect"
    /\ batch[n] = NoBatch
    /\ \E b \in batches(n, m) : batch' = [batch EXCEPT ![n] = b]
    /\ UNCHANGED <<electionVars, oplogVars, commitVars, primaryVars, source, restarts>>

ProcessBatch(n) ==
    /\ batch[n] # NoBatch
    /\ batch' = [batch EXCEPT ![n] = NoBatch]
    /\ onSuccessfulBatch(n, batch[n])

-----------------------------------------------------------------------------
(* Roll back via the stable timestamp, and restarts.                        *)

\* syncRollBackLocalOperations: the last entry two oplogs share.
commonPoint(l1, l2) ==
    Latest({Null} \cup {OpAt(l1, i) : i \in {j \in DOMAIN l1 : Has(l2, OpAt(l1, j))}})

\* What _findCommonPoint asserts of the common point.
covers(n, cp) == AtMost(lastCommitted[n], cp) /\ AtMost(stable[n], cp)

\* checkRemoteOplogStart finds that m is ahead and does not have the last entry of n:
\* OplogStartMissing.  _runRollback, _transitionToRollback; a candidate cancels its
\* election first, a primary that catches up just stops to.
EnterRollback(n, m) ==
    /\ role[n] = "Secondary"
    /\ batch[n] = NoBatch
    /\ readable(m)
    /\ Before(Top(log[n]), Top(log[m]))
    /\ ~Has(log[m], Top(log[n]))
    /\ role' = [role EXCEPT ![n] = "Rollback"]
    /\ source' = [source EXCEPT ![n] = m]
    /\ UNCHANGED <<term, lastVote, pendingTerm, oplogVars, commitVars,
                   primaryVars, batch, restarts>>

\* _findCommonPoint and _runPhaseFromAbortToReconstructPreparedTxns: the truncate point is
\* stored durably and the oplog truncated after it.  A crash before that leaves the oplog
\* as it was, a crash after it is recovered by truncating.  lastApplied and lastDurable
\* still name entries that are gone.  _findCommonPoint asserts that the common point is not
\* before the commit point and the stable timestamp: a member that fails the assertion is
\* down until it restarts.
TruncateOplog(n) ==
    LET cp == commonPoint(log[n], log[source[n]]) IN
    /\ role[n] = "Rollback"
    /\ readable(source[n])
    /\ StaleRollbacks \/ Before(Top(log[n]), Top(log[source[n]]))
    /\ covers(n, cp)
    /\ log' = [log EXCEPT ![n] = SubSeq(@, 1, cp.i)]
    /\ role' = [role EXCEPT ![n] = "Truncated"]
    /\ UNCHANGED <<term, lastVote, pendingTerm, lastApplied, lastDurable,
                   commitVars, primaryVars, syncVars, restarts>>

\* The candidates above the optime a roll back ends at are no longer on the oplog.
eraseCandidates(cands, op) == {x \in cands : AtMost(x, op)}

\* _setMyLastAppliedOpTimeAndWallTime(op) in state ROLLBACK: op becomes a candidate, and when
\* it is not after the commit point those before the one chosen are cleaned up.
resetCandidates(n, op) ==
    LET cands == candidates[n] \cup {op}
        chosen == Latest({x \in cands : AtMost(x, lastCommitted[n])})
    IN IF AtMost(op, lastCommitted[n]) THEN {x \in cands : AtMost(chosen, x)} ELSE cands

\* resetLastOpTimesFromOplog and _transitionFromRollbackToSecondary.
FinishRollback(n) ==
    /\ role[n] = "Truncated"
    /\ role' = [role EXCEPT ![n] = "Secondary"]
    /\ lastApplied' = [lastApplied EXCEPT ![n] = Top(log[n])]
    /\ lastDurable' = [lastDurable EXCEPT ![n] = Top(log[n])]
    /\ source' = [source EXCEPT ![n] = None]
    /\ candidates' = [candidates EXCEPT ![n] =
                        eraseCandidates(resetCandidates(n, Top(log[n])), Top(log[n]))]
    /\ UNCHANGED <<term, lastVote, pendingTerm, log, lastCommitted,
                   published, stable, waiting, primaryVars, batch, restarts>>

\* The roll back fails before it has changed anything, and ends the same way.
AbandonRollback(n) ==
    /\ role[n] = "Rollback"
    /\ role' = [role EXCEPT ![n] = "Secondary"]
    /\ source' = [source EXCEPT ![n] = None]
    /\ UNCHANGED <<term, lastVote, pendingTerm, oplogVars, commitVars,
                   primaryVars, batch, restarts>>

\* A crash keeps what is durable and perhaps more; the last stable checkpoint is as of the
\* stable timestamp, or the first one.  recoverFromOplog, _finishLoadLocalConfig.
Restart(n) ==
    /\ restarts < MaxRestarts
    /\ restarts' = restarts + 1
    /\ \E len \in (IF role[n] = "Truncated" THEN Len(log[n]) ELSE lastDurable[n].i)
                  .. Len(log[n]) :
        LET l == SubSeq(log[n], 1, len)
            checkpoint == IF stable[n].i <= len THEN stable[n] ELSE Null
        IN
        /\ log' = [log EXCEPT ![n] = l]
        /\ lastApplied' = [lastApplied EXCEPT ![n] = Top(l)]
        /\ lastDurable' = [lastDurable EXCEPT ![n] = Top(l)]
        /\ candidates' = [candidates EXCEPT ![n] = {Top(l)}]
        /\ stable' = [stable EXCEPT ![n] = checkpoint]
        /\ term' = [term EXCEPT ![n] = Larger(lastVote[n], Top(l).t)]
    /\ role' = [role EXCEPT ![n] = "Secondary"]
    /\ pendingTerm' = [pendingTerm EXCEPT ![n] = 0]
    /\ lastCommitted' = [lastCommitted EXCEPT ![n] = Null]
    /\ firstOp' = [firstOp EXCEPT ![n] = Infinity]
    /\ reports' = [reports EXCEPT ![n] = [m \in Server |-> Null]]
    /\ batch' = [batch EXCEPT ![n] = NoBatch]
    /\ source' = [source EXCEPT ![n] = None]
    /\ waiting' = [waiting EXCEPT ![n] = {}]
    /\ UNCHANGED <<lastVote, published>>

Next ==
    \E n \in Server :
        \/ \E Q \in SUBSET (Server \ {n}) : RunElection(n, Q)
        \/ SignalDrainComplete(n)
        \/ ClientWrite(n)
        \/ FinishStepDown(n)
        \/ JournalFlush(n)
        \/ UpdateCommitPoint(n)
        \/ ProcessBatch(n)
        \/ TruncateOplog(n)
        \/ FinishRollback(n)
        \/ AbandonRollback(n)
        \/ Restart(n)
        \/ \E c \in published : HeartbeatCommitPoint(n, c)
        \/ \E m \in Server :
            \/ LearnTerm(n, m)
            \/ ReportPosition(n, m)
            \/ Sync(n, m)
            \/ FetchBatch(n, m)
            \/ EnterRollback(n, m)

Spec == Init /\ [][Next]_vars

-----------------------------------------------------------------------------
(* Properties.                                                              *)

OpTimes == {Null} \cup [t : 1..MaxTerm, i : 1..MaxLog]

(* Type invariant. *)
TypeOK ==
    /\ term \in [Server -> 0..MaxTerm]
    /\ lastVote \in [Server -> 0..MaxTerm]
    /\ role \in [Server -> {"Secondary"} \cup Leading \cup RollingBack]
    /\ pendingTerm \in [Server -> 0..MaxTerm]
    /\ \A n \in Server : log[n] \in Seq(1..MaxTerm) /\ Len(log[n]) <= MaxLog
    /\ lastApplied \in [Server -> OpTimes]
    /\ lastDurable \in [Server -> OpTimes]
    /\ lastCommitted \in [Server -> OpTimes]
    /\ stable \in [Server -> OpTimes]
    /\ candidates \in [Server -> SUBSET OpTimes]
    /\ firstOp \in [Server -> OpTimes \cup {Infinity}]
    /\ reports \in [Server -> [Server -> OpTimes]]
    /\ \A n \in Server : batch[n] # NoBatch =>
            /\ batch[n].entries \in Seq(1..MaxTerm)
            /\ batch[n].commit \in OpTimes
            /\ batch[n].term \in 0..MaxTerm
    /\ source \in [Server -> Server \cup {None}]
    /\ waiting \in [Server -> SUBSET OpTimes]
    /\ published \subseteq OpTimes
    /\ restarts \in 0..MaxRestarts

(* Two oplogs that share an entry share everything before it: what                        *)
(* checkRemoteOplogStart and syncRollBackLocalOperations take for granted when they        *)
(* compare one optime of the sync source with one of their own.                            *)
LogMatching ==
    \A m, n \in Server : \A i \in DOMAIN log[m] :
        Has(log[n], OpAt(log[m], i)) => SubSeq(log[m], 1, i) = SubSeq(log[n], 1, i)

\* Could n win an election if it ran for one now?
couldWin(n) == IsMajority({v \in Server : AtMost(lastApplied[v], Top(log[n]))})

Safe(op) == \A n \in Server : Has(log[n], op) \/ ~couldWin(n)

(* What was majority committed once stays: a member that lacks an entry at some commit     *)
(* point that any member ever had would be refused by a majority of the voters, whatever   *)
(* crashes and elections came in between, late reports, and roll backs against a source    *)
(* that is still ahead.  The code does not make sure that it is (_runRollback), nor that   *)
(* the fetcher of a new primary has stopped: with StaleRollbacks or LateBatches this is    *)
(* false.                                                                                  *)
CommittedSurvives == \A c \in published : Safe(c)

(* What a member has on its oplog up to its commit point is committed, although it may     *)
(* have heard of a commit point on another branch of history (the comment in               *)
(* advanceLastCommittedOpTimeAndWallTime: "may not be on the same oplog branch as mine").  *)
(* So the stable timestamp, which is on the oplog and never past the commit points, can    *)
(* never be rolled back.                                                                   *)
OnMyBranch ==
    \A n \in Server :
        /\ \A i \in DOMAIN log[n] :
                AtMost(OpAt(log[n], i), lastCommitted[n]) => Safe(OpAt(log[n], i))
        /\ Has(log[n], stable[n]) /\ Safe(stable[n])
        /\ \E c \in published : AtMost(stable[n], c)

(* A write whose client is told that it is majority committed (the waiter is woken by      *)
(* _updateCommittedSnapshot, and not failed by a step-down or a crash) is on the oplog of  *)
(* the primary and can no longer be lost.                                                  *)
AcknowledgedIsSafe ==
    [][\A n \in Server : isPrimary(n)' =>
            \A w \in waiting[n] \ waiting'[n] : Has(log[n], w)' /\ Safe(w)']_vars

-----------------------------------------------------------------------------
(* What the replica set promises.                                           *)

\* The entries up to the latest commit point, as a member has them that has them all.
history ==
    LET upTo == [c \in published |->
                    IF \E n \in Server : Has(log[n], c)
                    THEN SubSeq(log[CHOOSE n \in Server : Has(log[n], c)], 1, c.i)
                    ELSE <<>>]
    IN upTo[Latest(published)]

snapshot == [n \in Server |-> SubSeq(log[n], 1, stable[n].i)]

Promise == INSTANCE MajorityHistory

(* There is one history of committed entries, which no crash, election or roll back takes  *)
(* anything from, and majority reads on every member see a prefix of it.                   *)
ImplementsMajorityHistory == Promise!Spec

-----------------------------------------------------------------------------
(* Liveness.                                                                *)

\* The threads of n that run in loops, and steps nothing but a lock can delay.
background(n) ==
    \/ role[n] = "SteppingDown" /\ FinishStepDown(n)
    \/ JournalFlush(n)
    \/ UpdateCommitPoint(n)
    \/ ProcessBatch(n)
    \/ FinishRollback(n)
    \/ \E m \in Server : LearnTerm(n, m) \/ ReportPosition(n, m)

\* Threads are scheduled, and heartbeats and positions get through in the end.  A member that
\* can fetch from a primary again and again does so: a source that lags behind the primary
\* is no longer chosen (chooseNewSyncSource, maxSyncSourceLagSecs).  A roll back is tried
\* again until it succeeds.  Nothing is fair about elections, clients, restarts, and
\* step-downs without a newer term.
Fairness ==
    \A n \in Server :
        /\ WF_vars(background(n))
        /\ SF_vars(\E m \in Server : role[m] = "Master" /\ Sync(n, m))
        /\ WF_vars(\E m \in Server : role[m] = "Master" /\ EnterRollback(n, m))
        /\ SF_vars(TruncateOplog(n))

FairSpec == Spec /\ Fairness

(* If p stays primary for good, its whole oplog becomes committed and every member learns  *)
(* that it is, roll backs of what others had written included.  All electable members have *)
(* the same part, so that it is enough to look at one of them.                             *)
Converges ==
    LET p == CHOOSE n \in Electable : TRUE IN
        <>[](role[p] = "Master") =>
            <>[](\A n \in Server : log[n] = log[p] /\ lastCommitted[n] = Top(log[p]))

=============================================================================
