# Verification of Percona Server for MongoDB: locking, replication, two-phase commit, chunk migration

TLA+ models of the server's core concurrency and replication code, checked with
TLC on small instances and, but for liveness, proved with TLAPS for every value of
the constants. Paths below are relative to `src/src/mongo/` of the repository.

## 1. The system

`mongod` is a multi-threaded database server. Threads synchronise through the
hierarchical **lock manager** (`db/concurrency`); servers form replica sets in
which **elections** (`db/repl`) choose the one primary of a term that accepts
writes, secondaries fetch and apply its oplog, and a majority commits. Sharded
clusters add two-phase commit, chunk migration and routing (`db/s`, `s`).

| Component | State | Operations | Hard behaviour | What makes it correct |
|---|---|---|---|---|
| Lock manager (`lock_manager.cpp`) | lock heads with granted and conflict queue and counters, partitioned lock heads, bucket and partition mutexes | lock, convert, unlock, downgrade, migration, cleanup | fast path that looks at no queue; status read without mutex; timeouts racing grants; counters that shortcut scans | exclusion, exact counters, nobody stranded, overtaken or starved |
| `LockerImpl` (`lock_state.cpp`) | requests per resource, wait notification, WUOW nesting, ticket | lockBegin/Complete, unlock, two-phase release, save/restore | give-up paths, deferred unlocks | what the owner believes it holds is what the manager granted |
| Elections (`replication_coordinator_impl_elect_v1.cpp`, `vote_requester.cpp`, `scatter_gather_runner.cpp`) | candidacy, responses, vote on disk | start, dry run, store vote, request votes, win, lose | chain of callbacks between which terms move; lost and late answers; crashes | one vote per term, one primary per term, durable votes, candidacies end |
| TopologyCoordinator, ReplicationCoordinator (terms, step-down) | term, role, leader mode, last vote, pending term, RSTL | updateTerm, processReplSetRequestVotes, stepDown, `_stepDownFinish`, signalDrainComplete | step-downs by command and by heartbeat overtaking each other; mutex released in the middle | primary only in its own term; step-downs finish and are not preempted |
| Heartbeats, commit point, write concern | member data, commit point, stable timestamp, waiters | report position, advance commit point, await | stale and late positions, commit points of another branch, commit in an old term | what was committed or acknowledged is never lost |
| Oplog fetcher/applier, rollback, recovery, initial sync | oplog, batch, common point, checkpoint | fetch, apply, catch up, roll back, recover | restarts between steps, batches handled late, a source that changes under a roll back | oplogs that share an entry share what is before it; a roll back never undoes a commit |
| Reconfig | config, config version and term | process reconfig, install by heartbeat | quorums of two configurations | quorums overlap |
| Two-phase commit (`db/s/transaction_coordinator*`, `txn_two_phase_commit_cmds.cpp`) | step, participants, votes, decision, durable document; prepared or not on each shard | create, prepare, decide, commit/abort, recover, answer | failover of any shard in any phase, two coordinators at once, stale primaries, deadline, retries | atomicity, decision durable before it is sent, prepared participants are released |
| Transactions and sessions | session checkout, transaction state | check out, kill, prepare, commit | kill racing check-out | one owner per session |
| Chunk migration and range deletion (`db/s/migration_*`, `range_deletion_util.cpp`) | coordinator and task documents, filtering metadata, critical section, migrate thread, chunk version on the config server | start, clone, enter critical section, commit, decide, complete, recover, delete orphans | failover of donor or recipient in any phase, commits and requests that arrive late, a chunk that comes back before it was deleted | the owner has every document, orphans are deleted and nothing else is, decisions are what the config server did |
| Balancer, routing | chunk map, policy | | | policy and calls to the above: not modelled |
| Query, BSON, storage integration, networking, auth, audit, encryption, shell | | | | data handling and I/O: not modelled |

Interactions: every state transition of replication takes the RSTL, a resource
of the lock manager, in mode X; storing a vote takes it in mode IX. Coordinators
call each other under `ReplicationCoordinatorImpl::_mutex` and continue in
executor callbacks; members talk through remote commands (`replSetRequestVotes`,
heartbeats), which may be lost or late. Two-phase commit sits on top: the
coordinator runs on the primary of one shard, writes its document through that
shard's replication, waits for majorities, and is stopped and recovered by the
step-down and step-up hooks of the ReplicationCoordinator. Chunk migration has the
same shape: the donor's primary drives it, the config server decides it, and the
same hooks recover it.

## 2. Modules

| Module | Role |
|---|---|
| `LockManager` | the lock manager for one resource and the lockers that use it |
| `ResourceLock` | abstract specification: a lock with modes |
| `MCLockManager` | instances of LockManager for TLC |
| `LockManagerProofs` | invariants of LockManager, and that it implements ResourceLock |
| `LockManagerScanProofs` | the grant scans leave no waiter behind |
| `Election` | elections, votes, terms and step-down of a replica set |
| `MCElection` | instances of Election for TLC |
| `ElectionProofs` | theorems about Election and their proofs |
| `TransactionCoordinator` | two-phase commit of one transaction between replica sets that fail over |
| `AtomicCommit` | abstract specification: one outcome, commit only if all prepared |
| `AtomicCommitProofs` | the abstract specification is atomic |
| `MCTransactionCoordinator` | instances of TransactionCoordinator for TLC |
| `TransactionCoordinatorProofs` | invariants of TransactionCoordinator, and that it implements AtomicCommit |
| `Replication` | oplogs, commit point, stable timestamp, roll back and restart of a replica set |
| `MajorityHistory` | abstract specification: one history of committed entries, of which every member serves a prefix |
| `ReplicationProofs` | types and oplogs of Replication |
| `ReplicationCommitProofs` | what is committed in Replication is never lost, and that it implements MajorityHistory |
| `MCReplication` | instances of Replication for TLC |
| `Migration` | migration of a chunk between shards that fail over, and range deletion |
| `MCMigration` | instances of Migration for TLC |
| `MigrationProofs` | invariants of Migration and their proofs |

Operators whose comment starts with `(mutant)` are wrong variants of the
definition that follows them. They occur in no specification; substituting one
must make a property fail, which shows that the property depends on the code.

### LockManager

One resource: resources share nothing but the bucket mutex, so one is
representative. Each locker is a thread with one `LockRequest`
(`recursiveCount = 0` means that the locker has none).

* `status, mode, convertMode, recursiveCount, partitioned, compatibleFirst` are the
  fields of `LockRequest`; `notified` is the result in `CondVarLockGrantNotification`.
* `grantedList ... compatibleFirstCount` are the fields of `LockHead`.
  `grantedModes` and `conflictModes` are derived from the counts, which the code
  keeps in lock-step. `plhExists`, `plhGrantedList` are the `PartitionedLockHead`
  of the resource per partition.
* `pc` is the place in the code between two mutex operations. Loops under the
  bucket mutex (migration, the two loops of `_onLockModeChanged`) take one step per
  iteration; `iter` and its companions are their locals.

`LockBegin`, `LockPartition`, `LockStartPartition`, `LockMigrate`,
`LockNewRequest` are `lock()`; `Migrate*` is `migratePartitionedLockHeads`;
`Convert*` is `convert()`; `Unlock*` is `unlock()`, entered from
`LockerImpl::unlock` or by a wait that is given up (`WaitAbandoned`);
`GrantConversion ... LockModeChangedDone` is `_onLockModeChanged`; `Cleanup*` is
the cleaner thread. The owner's read of `status` at the start of `unlock()`
happens without a mutex and is a step of its own.

`GrantRacesAbandon = FALSE` leaves out the executions of finding 1 below, so
that the other properties can be checked apart from it. `PriorityResources` says
whether the resource is one of Global, PBWM and RSTL, whose requests may jump the
queue; no caller upgrades those to a strong mode, and neither does the model.

`ResourceLock` promises: a mode is granted only while nobody else holds a
conflicting one, an upgrade keeps the old mode until it gets the new one, giving
up loses nothing. `ImplementsResourceLock` is the refinement, with `held` and
`wanted` as its mapping.

### Election

A step is what a member does under `_mutex`, or one write of the lastVote
collection. What the code does in two critical sections is two steps, with
anything in between.

* `term, role, leaderMode, lastVote`: TopologyCoordinator. `lastVoteDoc`: the
  document in `local.replset.election`. `lastApplied`: the term of the last
  applied entry; of two optimes of one term either may be the later one, so a
  voter may refuse for being ahead within a term (`canGrant`, `mustGrant`).
* `phase, electionTerm, votes, responded, staleTerm`: the candidacy and its
  `VoteRequester`.
* `requests`: `replSetRequestVotes` commands, from `sent` through `waiting` (for a
  step-down, in `updateTerm`), `voting` and `granted` (to be stored).
* `pendingTerm, hbStepDown, rstl, draining`: step-down and drain.
* `command, previousLeaderMode, termAtStart`: the `replSetStepDown` commands, each run by a
  thread of `Command` on the member `MemberOf` says. A member may have any number of
  them at once; a new one can begin while an older one still waits for secondaries
  whenever the member has stepped down and been elected again in between.
* `castVotes, elected, restarts, modeReset`: history, read by the properties and by the
  bound on restarts only. `modeReset` holds the commands that were waiting when the abort
  of another one ended the attempt of their member.

A primary steps down because it hears of a newer term (`updateTerm`), because it sees no
majority (`StepDownSelf`, which may happen at any time), or by command. `abortFn` is the
function that `prepareForStepDownAttempt` returns: it ends whatever attempt is under way,
also that of another command. The assertion in `tryToStartStepDown`
(`db/repl/topology_coordinator.cpp:2496`) is an action, `StepDownAssertionFails`: the process
ends and is started again (see section 5).

Messages: a request is handled at any later time; a response that comes late is
ignored as in the code; lost requests and responses are `ResponsesFail`. Dry-run
requests record nothing at the voter but the term and are one step with their
answer. A crash (`crash`, in `Restart` and in a failed assertion) keeps only the vote
document and any prefix of the oplog. Writing a vote may fail (`WriteLastVoteFails`, `StoreVoteFails`).

`VoteWhileSteppingDown = FALSE` leaves out the executions of finding 2: a member
that is already stepping down then receives a vote request for a newer term only
after the step-down.

Not in the model: reconfiguration, arbiters and non-voting members, catch-up
and takeover timing, priorities other than electable or not, shutdown.

### TransactionCoordinator

One transaction; transactions share the scheduler and the catalog but no state
that matters to the outcome. It has run its statements and the router commits it
with two-phase commit.

* `node[s][t]` is the primary that shard `s` had in term `t` (one per term, as
  proved in ElectionProofs): whether it takes writes (`mode`), whether it has the
  transaction open in memory, its oplog and its commit point. An oplog is reduced
  to what each entry leaves behind: the coordinator's document and the state of
  the participant. Old primaries stay active until they step down, with a commit
  point that no longer moves; a new one takes what is majority committed and any
  longer prefix of any branch (`stepUp`). A crash is a node that takes no more
  steps.
* `co[t]` is the TransactionCoordinator of the term-`t` primary of the coordinating
  shard: `step` is the place in the future chain (majority waits are places of
  their own), `prep` and `sched` are the status of `_sendPrepareScheduler` and
  `_scheduler`, `waitFor` is the optime waited for, `result` is the completion
  promise. `absent`, `recovering`, `failed` are states of the catalog.
* `net` holds the commands that coordinators sent; each may be handled at any
  time, more than once, by any primary the shard ever had. Retries need no state:
  a command is repeated until a conclusive answer, and the participants' handlers
  are idempotent. Commands to the coordinator's own shard run on its own node
  (`scheduleRemoteCommand`).
* `answers` records the answers that `coordinateCommitTransaction` takes from the
  local participant.

An answer is an atomic read of the participant: a vote or acknowledgement counts
when the write concern it asks for, majority, is satisfied on the node that
gives it. `NoSuchTransaction` first writes a no-op and waits for it, which only
the latest primary can do, after all of its oplog became durable. A remote
shard may vote abort at any time (ShardNotFound counts as a vote).
`deleteCoordinatorDoc` does not wait and is tried once. Failpoints, metrics,
the reason of an abort and error texts are left out.

`AtomicCommit` sees what is durable on each shard and the decision once it is
sent; `ImplementsAtomicCommit` is the refinement.

### Replication

A step is what a thread does while it holds the mutex of the
ReplicationCoordinator. An oplog is a sequence of terms: the index of an entry
stands for its timestamp, and what it says does not matter to replication.

* `term, lastVote, role, pendingTerm` are what Election is about, reduced to what the
  oplog sees: an election is one step that a majority votes for by comparing
  optimes (`RunElection`), a step-down is begun by a newer term and finished later.
* `log, lastApplied, lastDurable`: the oplog and the optimes the member keeps of it;
  after a roll back they may name entries that are gone until it has finished.
* `lastCommitted, stable, candidates`: commit point, stable timestamp and the
  candidates for it. `published` is every commit point ever held: a heartbeat may
  carry any of them at any time (`HeartbeatCommitPoint`).
* `firstOp, reports`: `_firstOpTimeOfMyTerm` and the durable optimes reported to the
  primary, which may arrive late (`ReportPosition`).
* `batch, source`: the batch of the oplog fetcher, whose metadata are handled before
  its documents and possibly late, and the source of a roll back.
* `waiting`: writes that await majority write concern.

`advanced` is `advanceLastCommittedOpTimeAndWallTime`, with its three tests (term of
the primary, own branch, source); `updateLastCommitted` is the computation on the
primary; `onSuccessfulBatch` is the fetcher's handler, entered through `Sync`, or
through `FetchBatch` and `ProcessBatch` when the member has become primary in
between. `EnterRollback ... AbandonRollback` is roll back via the stable timestamp.
`Restart` keeps the durable part of the oplog and goes back to a checkpoint.

`MajorityHistory` promises one history of committed entries that only grows, of
which the majority snapshot of every member is a prefix. `ImplementsMajorityHistory`
is the refinement. `LateBatches = FALSE` leaves out the executions of finding 3.
`StaleRollbacks = FALSE` leaves out those in which a member that rolls back goes by
what is no longer so: it truncates although its source, which was ahead when the roll
back was begun, has fallen behind (finding 5), or it takes a commit point from a
heartbeat while `lastApplied` still names the branch it has just dropped. The passing runs
and the theorems about commit points leave them out; run `ReplicationStale` shows what
they do.

Three places are coarser than the code. A flush of the journal and the report of what it
made durable are one step (`setLastDurable`; the code reads the optime before it flushes, at
`db/storage/wiredtiger/wiredtiger_session_cache.cpp:349`, and reports it at `:383`; what
is applied in between waits for the next flush, and a roll back in between is left out). The search for
the common point and the truncation are one step (`TruncateOplog`): nothing else changes the
member's own oplog in between, and what the source loses in between is as if lost after
it. The end of a roll back (`FinishRollback`) resets the optimes, adds the common point to
the candidates for the stable timestamp (`resetCandidates`) and erases those above it
(`eraseCandidates`) in one step, although the code leaves the state ROLLBACK a little later.

An entry is written only if its optime is after the last one: the coordinator asserts
it (`setMyLastAppliedOpTimeAndWallTimeForward`), and a member that fails the assertion
is down until it restarts.

Not in the model: write concerns other than majority, arbiters, reconfiguration,
roll back via refetch, initial sync, application by several threads, timestamps
with gaps, prepared transactions.

### Migration

One chunk, shards that are replica sets, and the config server as one
linearizable register (it answers with majority read and write concern).

* `config, committed`: owner and version of the chunk, the migrations committed.
* `log[s]`: the states of the shard's collections that a new primary may start
  from, the majority committed one first: `coord` (the migration coordinator
  documents), `task` (range deletion tasks, pending or ready), `txn` (whether the
  session's transaction number was advanced) and `docs` (documents of the chunk).
  A write appends, `Replicate` drops the first, `Failover(s, k)` keeps the first `k`.
* `meta, recv, del`: filtering metadata, the migrate thread of the recipient, the
  range deletions submitted; all in memory and lost with the primary.
* `thr[m][t]`: the thread that coordinates migration `m` on the donor's primary of
  failover `t`; that of a deposed primary goes on as far as no write of its
  own has to become majority committed.
* `msgs`: requests and answers; those that are retried stay, so that they may be
  handled again at any time.

`StartMigration ... CleanupOnError` is MigrationSourceManager; `PersistDecision ...
ForgetMigration` is `MigrationCoordinator::completeMigration`, on commit and on abort;
`ResumeMigration` is the recovery on step-up. `RecvChunkStart ... ReceiveFails` is the
migrate thread, which holds the session of the migration while it runs.
`AdvanceTransaction, DeleteTask, ReadyTask` are the requests of the coordinator at
the recipient, `CommitChunkMigration` and `ensured` the config server, `CleanUpRange ...
RemoveTask` the range deleter. Deletion and cloning work on single documents, so
that everything may happen in the middle of either.

`ServeBeforeRecovery = FALSE` leaves out the executions of finding 4: a new primary
then takes no writes until its recovery task has found out how a migration ended.

Not in the model: clients that delete or update, an insert that is rolled back
(inserts are acknowledged with majority), the transfer of session history, queries
that hold old metadata, drops, splits and merges, a failover of the config server,
a deposed donor that still serves transfers, the range deleter without task
documents, cleanupOrphaned. An insert and its majority acknowledgement are one step. A
failover drops every range deletion that was submitted; in the code one may survive
to the next step-up of the same node, but each batch looks for its task again, and a task
submitted twice (`again`) has the same effect. Each migration has a session of its own, where
the code has one per donor process with growing transaction numbers: no second
migration of a donor starts before the recovery of the first is complete
(`db/s/migration_util.cpp:767`).

## 3. Runs

| Run | Instance | Checks |
|---|---|---|
| `LockManager` | 3 lockers, two sharing a partition; IX, S, X; re-acquisition in IS and upgrades to X; recursion 2; with and without queue-jumping | all safety properties, `NoOvertaking`, refinement of `ResourceLock`, absence of deadlock in the lock manager |
| `LockManagerLive` | 3 lockers, IX and X, fairness | `WaitEnds` |
| `LockManagerRace` | S upgraded to X, `GrantRacesAbandon` | finding 1 |
| `Election` | 2 members, 2 terms, with and without dry run, 1 crash, two commands on one member, primaries that see no majority, fairness | votes and their durability across crashes, the primary's term, step-downs racing each other, drain and votes; step-downs and candidacies end |
| `ElectionVoteTwice` | 3 members, commands, `VoteWhileSteppingDown` | finding 2 |
| `TransactionCoordinator` | 2 shards with different prepare timestamps, 2 terms each, failovers and failed step-down attempts (at most 1) 2 in all, fairness | safety, answers, `CommitTimestampCovers`, refinement of `AtomicCommit`, `ResolvesUnlessAbandoned` |
| `Replication` | 3 members, 2 terms, no election lost, oplogs of 2, 1 restart | all safety properties, `AcknowledgedIsSafe`, refinement of `MajorityHistory` |
| `ReplicationLive` | 3 members, 3 terms, oplogs of 1, fairness | `CommittedSurvives` with three terms, `Converges` |
| `ReplicationLateBatch` | 3 members, 2 terms, `LateBatches` | finding 3 |
| `ReplicationStale` | 3 members, 3 terms, oplogs of 2, 1 restart, `StaleRollbacks` | finding 5 |
| `Migration` | 2 shards, 2 migrations, 1 failover of either, 2 documents, fairness | all safety properties and `Quiesces` |
| `MigrationUnrecovered` | 2 shards, 1 migration, 1 failover, `ServeBeforeRecovery` | finding 4 |

Why the bounds are enough. Three lockers are needed for a holder, a waiter and
a newcomer, and for a migration of one partition while another is used; with
recursion 2 an upgrade and its cancellation happen. In Election two terms let a
primary hear of a newer one while it steps down, and a member vote, crash and be
asked again; two members suffice for step-down, which concerns one member and
whoever makes it step down. A primary that steps down for want of a majority can be
elected again in the second term while its command still waits, and a second command
begun there is what the abort of the first one disturbs. Larger sets, more terms, more
commands and more crashes are left to the proofs, which cover every safety property of
Election for all bounds.
Terms are bounded by `MaxTerm` (no member runs for a higher one), so Election may
stop: its runs do not check deadlock. Symmetry is used for safety only.
A coordinator's document can be lost or doubted only between two primaries, so
two terms show every handover. That a third primary follows the branch of the first
past the second, which is what the wait in the recovery task is for, is left to the
proofs. Two shards have a local and a remote participant, which are the two
ways a command takes, and either may prepare at the later timestamp.
A transaction ends and its terms are bounded, so these runs do not check deadlock
either; nor do those of Replication and Migration, which are bounded in the same
way.
Two terms and two entries give two branches of different length and term, which a
roll back, a commit point of the other branch and a late report need; an entry of
an old term that is committed by counting needs a third term, hence
`ReplicationLive`. In `Replication` an action constraint
(`ElectionsAreWon`) leaves the lost elections out, which use up votes and raise terms and
write no entry; `ReplicationLive` has them, and the proofs cover them for any number of
terms. `ReplicationStale` looks for a loss in three terms and so restricts its
search by an action constraint (`SourceCrashes`): the one crash is that of the source of a
roll back, no batch is handled late and no election is lost. The constraint removes behaviours and adds none,
so the violation it finds is one of the model. Two migrations let a chunk come back to the shard it left (or go
away again at once), which is what stale decisions, conflicting deletions and late
requests need, together with a failover at any point, which may also bring back a
document that was deleted. Of the two documents of the chunk one is there from the start and one is inserted at any time.

Properties of LockManager:

* `MutualExclusion`: no two owners hold conflicting modes.
* `CountsMatchLists`: counters and lists of the lock head agree.
* `PartitionedIsUncontended`: a partitioned head has no conflicts, so migration
  always re-grants (asserted in the code), and every partition is reachable.
* `NoStrandedWaiter`: between critical sections every waiter is really blocked.
* `NotifiedIffGranted`: no lost, stale or repeated notification.
* `NoOvertaking`: a newcomer is not granted past a conflicting waiter, unless the
  resource is in compatibleFirst mode.
* `WaitEnds`: every wait ends, under the fairness below.
* `GrantedRemovedOnLastReference`: what a comment in `unlock()` asserts (violated).

Properties of Election: `OneVotePerTerm`, `OnePrimaryPerTerm`, `VoteIsDurable`,
`PrimaryInElectedTerm`, `StepDownNotPreempted`, `StepDownCompletes`,
`CandidacyEnds`; each is explained where it is defined. `StepDownNotPreempted` says of
overlapping `replSetStepDown` commands that one which finishes is not disturbed; that one
which was overtaken by a step-down and a new election notices; that the assertion of
`tryToStartStepDown` fails only for a command whose attempt the abort of another one has
ended; and that a primary refuses writes for an attempt only while some command makes it.

Properties of TransactionCoordinator:

* `CommitOnlyIfAllPrepared`: nobody commits, even provisionally, before every
  participant is durably prepared.
* `OneDecision`: whatever coordinators ran, one outcome with one timestamp is sent.
* `CommitTimestampCovers`: no participant is prepared after the commit timestamp.
* `PreparedIsRecoverable`: while someone is prepared, every node that could become
  primary of the coordinating shard has the document.
* `AnswersAgree`: what clients were told is what happens.
* `ResolvesUnlessAbandoned`: prepared participants are eventually released, unless
  the coordinator gave up in one of two ways. The deadline may expire while a
  recovered coordinator still rewrites the participant list, which ends it without
  an abort being sent (`db/s/transaction_coordinator.cpp:115` and `:156`); and a failed
  `replSetStepDown` attempt makes a majority wait fail, after which the node stays
  primary and nothing resumes the commit (`:243`). The property says that there is
  no third way.

Properties of Replication:

* `LogMatching`: oplogs that share an entry share everything before it.
* `CommittedSurvives`: a member that lacks what was ever committed cannot win an
  election. True without late batches and stale roll backs, false with either
  (findings 3 and 5).
* `OnMyBranch`: what a member has up to its commit point is committed, although the
  commit point may be of another branch; its stable timestamp is on its oplog and
  committed.
* `AcknowledgedIsSafe`: a majority write that is acknowledged is not lost.
* `Converges`: under a primary that stays, all members get its oplog and commit point.

Properties of Migration:

* `DecisionAgrees`: what a coordinator document says is what the config server did.
* `OwnerHasData`: the owner has every acknowledged document, whoever becomes primary.
* `OrphansAccounted`: documents on another shard are covered by a task.
* `OwnerKeepsRange`: no task is ready on the shard that owns the chunk.
* `Quiesces`: in the end nothing is left: no orphan, no task, no coordinator document.
* `DonationIsComplete`: nothing acknowledged is missing at the recipient when a
  donation commits (violated).

Fairness. LockManager: a thread inside the lock manager keeps running and
eventually obtains a mutex that is free again and again (strong fairness of
`Progress`); locks are held by scoped objects, so the last unlock of an idle
locker comes (strong, since re-acquisitions may come between). Nobody has to
acquire, upgrade or give up. Election: the continuation of an election or
step-down that has begun runs (executor callbacks, and the RSTL is released by
every holder), and an unanswered vote request times out. Nobody has to run,
answer, sync or learn a term. TransactionCoordinator: scheduled work runs,
replication progresses on the latest primary, a set whose primary stepped down
elects one, step-down attempts end, and participants are reachable and handle
what they receive (all weak). No request, deadline, failover or loss of an open
transaction is forced. Replication: background threads run and reports and
heartbeats get through (weak); a member that can again and again fetch from a
primary does so, and a roll back is retried until it succeeds (strong: sources that
lag are not chosen for ever); a member that has diverged from a primary enters roll
back (weak). No election, client, restart or voluntary step-down is forced.
Migration: every coordinating thread, migrate thread and range deletion goes on,
replication progresses, requests that are retried until they succeed arrive, and
a recipient whose donor no longer answers gives up (all weak). No migration, client
request, failure or failover is forced, and the first `_recvChunkStart` may be lost.

## 4. Proofs

`ElectionProofs` holds for any finite set of members, any bounds and any choice
of roles; its assumptions are those named in `Election` (finiteness, bounds that
are naturals, subsets).

| Theorem | Statement | Assumes |
|---|---|---|
| `TypeCorrect` | `Spec => []TypeOK` | |
| `VotesDurable` | `Spec => []VoteIsDurable` | `VoteWhileSteppingDown = FALSE` |
| `VotesOnce` | `Spec => []OneVotePerTerm` | `VoteWhileSteppingDown = FALSE` |
| `ElectionSafety` | `Spec => []OnePrimaryPerTerm` | `VoteWhileSteppingDown = FALSE` |
| `PrimaryKeepsTerm` | `Spec => []PrimaryInElectedTerm` | |
| `StepDownSafety` | `Spec => []StepDownNotPreempted` | |

* `TypeInv` adds to the types that a dry run is below the last term, without
  which the real election after it could leave the bound.
* `VoteInv`: a vote passes through memory, disk and the network. `Voted` is
  every trace it may have left; all traces of a term agree (`VotesAgree`), none is
  newer than the vote in memory (`VotesNotAhead`), and a member has reached the
  term of its last vote and of the requests it is voting on (`TermsReached`). So a
  new vote, always in a later term than the last one, contradicts no trace.
  `TermsReached` is what fails when a member votes while it is stepping down
  (finding 2); hence the assumption. `OwnVoteStored` and `VoteIsDurable` carry the
  candidate's own vote over the gap between storing it and starting the requester.
* `ElectionInv`: counted votes were cast, an election was won by the cast votes of
  a majority, and a primary has the term it won. Two majorities share a member
  (cardinalities, from FiniteSetTheorems), which by `VotesOnce` voted for one.
* `StepDownInv`: leader mode, role and the scheduled step-downs agree (`ModesAgree`); a command
  that tries or finishes holds the RSTL (`CommandsAgree`), and is the only one of its member
  that does (`OneHolder`), so the others can only be waiting when it aborts; an attempt loses its
  mode only together with its term or to an abort, because whoever wins an election has a
  term later than any that a command began in (`AttemptKeepsTerm`); and the mode of an attempt
  stands for a command that makes it (`AttemptIsMade`). `CommandsKept` shows once what a step
  that is no command's must not do; each command has a lemma of its own.

`AtomicCommitProofs` has `Atomicity`: `Spec => []Atomic` of the abstract commit, for
any set of participants. The inductive invariant adds the outcome to the states:
a final state is the outcome, and a commit outcome has found everyone prepared.

### LockManager

`LockManagerProofs` and `LockManagerScanProofs` hold for any finite set of lockers and partitions, any modes asked for and any depth of
recursion. All of them assume `NoGrantRace`, which leaves out exactly the execution
that run `LockManagerRace` exhibits (finding 1: an upgrade granted between its
owner's decision to give it up and the bucket mutex); in that execution
`GrantedRemovedOnLastReference`, and with it exclusion, really fails.

| Theorem | Property |
|---|---|
| `LockManagerProofs.TypeCorrect` | `TypeOK` |
| `MutuallyExclusive` | `MutualExclusion` |
| `CountsMatch` | `CountsMatchLists` |
| `PartitionsUncontended` | `PartitionedIsUncontended` |
| `NotifiedExactlyWhenGranted` | `NotifiedIffGranted` |
| `RemovedOnLastReference` | `GrantedRemovedOnLastReference` |
| `NobodyOvertakes` | `NoOvertaking` (action property) |
| `LockManagerScanProofs.NobodyStranded` | `NoStrandedWaiter` |
| `LockManagerProofs.Refinement` | `ImplementsResourceLock` |

* `Inv`: the lists hold a request once (`ListsInv`); references, status, modes,
  place in the code and place on the lists agree (`RequestInv`: `StatusInv`,
  `ModeInv`, `PlaceInv`, `NotifyInv`); whoever works on the lock head in several
  steps owns the bucket mutex (`MutexInv`); the counts are the cardinalities of the
  requests (`CountsMatchLists`, split into holders and upgraders of a mode); what
  is on the lock head is compatible (`Compatible`). Exclusion between the lock head
  and the partitions comes from `PartitionedIsUncontended`: while a partition has
  requests, only intent modes are granted and nobody is queued.
* `ScanInv` says what a scan of `_onLockModeChanged` leaves to be done: upgrades it
  has not reached and a queue whose front it has not passed may be grantable, all
  others are blocked. It needs that a mode is in `grantedModes` exactly when a
  request is counted in it, that an upgrade asks for a mode that covers the one
  held (so a grant unblocks nobody), and that a request which leaves obstructed
  only those that the scan it starts will visit.
* The refinement maps each step to a grant, a request, a release, a weakening, a
  giving up, or no step of `ResourceLock`, from what one request holds and wants.

### TransactionCoordinator

`TransactionCoordinatorProofs` holds for any finite set of participants, any number
of terms and failovers, any timestamps that are positive naturals and any number of
step-down attempts: the named assumptions of `TransactionCoordinator`, nothing else.

| Theorem | Property |
|---|---|
| `TransactionCoordinatorProofs.TypeCorrect` | `TypeOK` |
| `DecidedOnce` | `OneDecision` |
| `CommitsWhenPrepared` | `CommitOnlyIfAllPrepared` |
| `TimestampCovers` | `CommitTimestampCovers` |
| `Recoverable` | `PreparedIsRecoverable` |
| `AnswersHold` | `AnswersAgree` |
| `Refinement` | `ImplementsAtomicCommit` |

* `LogInv` speaks of one shard's oplogs. What is majority committed on the primary
  of a term is in the oplog of every later primary (`PrefixInv`). Within one oplog
  no entry contradicts an earlier one (`OrderInv`, `Follows`): an outcome is final, a
  prepare timestamp stays, a document has one decision and is not followed by a bare
  list, and an entry that a later primary wrote without the transaction excludes
  the transaction for good. `TermInv` ties a transaction that is open in memory to
  the first primary, the only one that can prepare it.
* A node's step is one of four (`NodeStep`): it keeps the oplogs, appends an entry
  that its handler may write (`PartLegal`, `DocLegal`), moves the commit point, or
  raises a new primary. Everything the invariant says of what is majority committed
  (`DurableDocs`, `PreparedAt`, `AllPrepared`, `Frozen`, `Resolved`) is shown once to
  be stable under these four; then each handler only has to show that its write is
  one of the permitted ones.
* `CoordinatorInv`: what a coordinator of any term, also a deposed one, knows is
  durable: it sends prepare when the list is, counts votes of shards that have
  durably prepared, decides commit at a timestamp that covers them, and deletes its
  document when every shard is `Resolved` (has the outcome, or can never prepare).
* `DocumentInv`, `NetInv`, `ParticipantInv`, `AnswerInv` carry that to the document in
  any oplog, to the commands under way, to the participants and to the answers.
  A commit document is written only when all have prepared; a decision is sent only
  when durable, and durable decisions are one; a participant has an outcome only
  when it was sent.
* The refinement: what is durable changes on one shard at a time, where its commit
  point moves, and follows what was durable; the outcome changes only when a
  decision is sent, with everyone still exactly prepared if it is commit, because
  a participant that had committed would have been sent a commit before.

### Replication

`ReplicationProofs` holds for any finite set of members, any electable ones, any
bounds on terms, oplogs, batches and restarts, with late batches (finding 3) and
with stale roll backs. `ReplicationCommitProofs` holds for the same constants, but
assumes `~LateBatches` and `~StaleRollbacks`, without which findings 3 and 5 refute it: the
code does have the executions that these leave out, and the runs `ReplicationLateBatch` and
`ReplicationStale` show what they do. The theorems say that there is no other way to lose
what was committed.

| Theorem | Property |
|---|---|
| `ReplicationProofs.TypeCorrect` | `TypeOK` |
| `OplogsMatch` | `LogMatching` |
| `ReplicationCommitProofs.CommittedEntriesSurvive` | `CommittedSurvives` |
| `CommitPointsAreOnMyBranch` | `OnMyBranch` |
| `AcknowledgedWritesAreSafe` | `AcknowledgedIsSafe` (action property) |
| `ReplicationImplementsHistory` | `ImplementsMajorityHistory` |

* `TypeInv` and `MembersInv` belong together: a batch fits behind the oplog it was
  fetched for only because a primary's batch is emptied before it writes, and no
  member rolls back with a batch in hand.
* `LogInv` is about `Fetched(n)`, the oplog of a member followed by the batch it has
  fetched, since a batch that waits is matched against an oplog its source may have
  lost by then. An entry determines what is before it (`MatchInv`); entries and
  primaries are of terms for which a majority has voted (`ElectedInv`); a primary is
  alone in its term and has every entry of it that exists anywhere (`LeaderInv`).
  Every step lets each `Fetched` start like some `Fetched` of before
  (`CopyingKeeps`), but for a write: nobody has an entry of the primary's term at
  the place where it writes (`WritingKeeps`).
* Latest optimes exist because there are finitely many (`LatestFacts`, by the well-
  founded order of their ranks).
* `SafeInv` is what the commit point needs on top of that. No property above is
  inductive by itself: that a majority has an entry says nothing of a member that
  has already voted in a later term, and reports arrive late. So the invariant says of
  *every* entry what may still become of it (`FateInv`). Either it is `Blocked`: a
  majority has voted in a later term without having reported it to its primary, which
  therefore can no longer count it. Or everyone that has moved on to a later term has
  it, and nobody that rolls back has dropped it, and whoever has reported it still has
  it durably.
* An entry that the primary of its term counts on a majority is not blocked, since two
  majorities share a member; so it is `Decided`: a majority has it durably, every later
  oplog has it, nobody drops it. Decided entries stay decided (the primary elected next
  was voted for by one of that majority and compared optimes with it). `Committed`
  is what lies before a decided entry on one oplog, and it stays committed.
* `ShapeInv`: the terms of an oplog do not decrease, and the entries of one term lie on
  one branch. `AppliedInv` and `ReportInv` are about what members say: `lastApplied` and
  `lastDurable` name entries of the oplog but during a roll back, and a report of the
  primary's own term names an entry of the primary's. A report of a *later* term, which
  a member that was elected elsewhere may send, counts as well in the code; then a
  majority has already joined a later term and the primary counts too late.
* `CommitInv`: every commit point ever held is committed, and so is what a member has
  up to its own commit point, and what is in its batch up to the one that came with it.
  The test of the term in `advanceLastCommittedOpTimeAndWallTime` is what keeps a commit
  point of another branch from covering entries of one's own. `StableInv`: the stable
  timestamp is committed and on the oplog, and candidates above a common point are
  gone before they can be chosen.
* The refinement: the history is what is before the latest commit point. A step keeps it
  or lets it grow, because what is committed stays committed and is on one branch.

TLC checked `SafeInv` on three members, two terms, oplogs of two and one restart before
it was proved.

### Migration

`MigrationProofs` holds for any shards and documents and any bounds on migrations,
failovers and writes that are not yet majority committed: the named assumptions of
`Migration`.

| Theorem | Property |
|---|---|
| `MigrationProofs.TypeCorrect` | `TypeOK` |
| `DecisionsAgree` | `DecisionAgrees` |
| `RangeKept` | `OwnerKeepsRange` |
| `DataKept` | `OwnerHasData`, if `~ServeBeforeRecovery` |
| `OrphansHaveTasks` | `OrphansAccounted`, if `~ServeBeforeRecovery` |

The first three hold whatever new primaries do before they have recovered. The last
two are about documents, and a primary that takes writes too early acknowledges what
the recipient never gets (finding 4); the executions they exclude are those.

* What a shard may fail over to matters only as the set `States(s)`. A write adds one
  state, which follows from the primary's; replication and failover take some
  away. So what holds of every state is kept by every step but the write, and what
  the code waits a majority for holds of every state afterwards.
* `ControlInv` is about migrations. One is `Live` while the config server may still
  commit it: its commit is sent or its first thread may send it, and the version is
  still the one it found. Only one version is current, so a commit of one migration, or
  the version that a recovery raises (`ensured`), ends all others for good: `Aborted`
  is stable. A coordinator document says a decision only when it is final (`CoordOK`),
  and the chunk has left the donor of a document exactly if its migration committed.
* A task on the donor becomes ready only after a commit, one on the recipient only
  after an abort, and by then no primary of the recipient takes part any more
  (`Closed`: the transaction number has been advanced by a majority). `OwnerKeepsRange`
  needs in addition that while a migration is `Live` its recipient is `Reserved`: no
  other task and no other migration uses the range there.
* `DataInv` follows the documents. A shard that believes it owns the chunk does, or is
  `Blocked` from writing by its critical section or by recovery (`MetaInv`); the owner, and the
  recipient of a live migration once it has reported `received`, have everything that
  was acknowledged, in each of their states (`DocsInv`); whoever else has documents
  has a task, and the recipient's task outlasts its migrate thread (`OrphanInv`).

The invariants were checked with TLC on two shards before they were proved.

### Only model-checked

* Liveness (`WaitEnds`, `ResolvesUnlessAbandoned`, and those of Replication and
  Migration): fairness and ENABLED are out of the prover's reach.
* The assertion of `db/repl/rollback_impl.cpp:1016`, that the common point of a roll back is not
  before the commit point, is not claimed: it can fail without any crash in a set of five.
  An entry of term 1 is on a minority when term 2 elects a primary without it, which writes
  and is cut off; the primary of term 3 has the entry and commits it along with its own. A
  member that has it, and has heard that it is committed, then finds the primary of term 2
  ahead and rolls back against it. The process ends and nothing is lost; the model has
  the assertion as a guard of `TruncateOplog`, and the theorems cover the member that is down
  until `Restart`.
* Replication with late batches or stale roll backs, but for types and `LogMatching`.

## 5. Findings

1. `unlock()` of a given-up upgrade that is granted at the last moment takes the
   request off the granted list while its owner still has a reference
   (`db/concurrency/lock_manager.cpp:595` and `:621`; run `LockManagerRace`).
   The owner believes that it still holds its old lock, and another locker
   may obtain a conflicting one.
2. A primary in the last stage of `replSetStepDown` handles a vote request for a
   newer term: the term is put off but the vote is granted, and after the
   step-down the member may run in that same term and vote for itself
   (`db/repl/topology_coordinator.cpp:1544`,
   `db/repl/replication_coordinator_impl.cpp:2700` and `:4961`; run
   `ElectionVoteTwice`).
3. The fetcher of a new primary may handle the metadata of a batch after the
   producer was stopped and the drain has ended. The commit point of a newer term
   then passes for one of the primary's own, and the primary commits an entry that
   nobody else has (`db/repl/oplog_fetcher.cpp:689`,
   `db/repl/topology_coordinator.cpp:2733`; run `ReplicationLateBatch`).
4. A donor fails over while its commit is under way at the config server. The new
   primary serves the chunk before its recovery task has raised the chunk's
   version; the old commit then succeeds, and what was written meanwhile is an
   orphan (`db/s/shard_filtering_metadata_refresh.cpp:107`,
   `db/repl/replication_coordinator_external_state_impl.cpp:885`; run
   `MigrationUnrecovered`).

5. `BackgroundSync::_runRollback` (`db/repl/bgsync.cpp:657`) rolls back against the source
   that the fetcher found to be ahead, and nothing looks again whether it still is when
   `_findCommonPoint` (`db/repl/rollback_impl.cpp:972`) reads the source's oplog. If the source
   has crashed meanwhile and lost what it had not journaled, the member gives up entries
   for an oplog that is behind its own. If it had reported them as durable, an entry that a
   majority was counted for is then on fewer members, and those without it can elect a
   primary. The assertions on the common point (`rollback_impl.cpp:1016`) stop this only if
   the member knows the commit point already (run `ReplicationStale`).

Two more observations have no run.

* The abort of an overtaken `replSetStepDown` command sets the leader mode back although the
  attempt is by then another command's (`db/repl/topology_coordinator.cpp:1572`), and when that
  one retries the assertion at `:2496` ends the process. `StepDownAssertionFails` is this step;
  it is taken in run `Election`, which with theorem `StepDownSafety` shows that the
  assertion fails in no other way.
* Between the truncation of the oplog and `resetLastOpTimesFromOplog`
  (`db/repl/replication_coordinator_impl.cpp:4637`) `lastApplied` is that of the branch
  that was dropped, and the commit point of a heartbeat
  (`db/repl/replication_coordinator_impl_heartbeat.cpp:220`) is compared with it.
  `StaleRollbacks` leaves this out too when the two are of different terms: the proof does
  not go through, but no loss is known.

## 6. Plan

1. `Locker`: two-phase locking, WriteUnitOfWork nesting and tickets of
   `lock_state.cpp` on top of ResourceLock.
2. Session check-out and kill; safe reconfig.

## 7. Not modelled

Query execution, BSON, storage engine, networking, authorization, auditing,
encryption and the shell are data handling, policy or I/O: there is no protocol in
them that a model checker would explore better than tests do. They make up most
of the repository's lines. Initial sync, index builds, the balancer, routing and the
replica set monitor have control worth modelling, but either change no state that
the modelled parts depend on or only sequence calls of them.
