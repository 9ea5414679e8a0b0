----------------------------- MODULE Migration -----------------------------
(***************************************************************************)
(* Migration of one chunk between shards and the deletion of the orphans   *)
(* it leaves (db/s): MigrationSourceManager and MigrationCoordinator on    *)
(* the donor, MigrationDestinationManager on the recipient, the range      *)
(* deleter on both, and the config server that owns the chunk's version.   *)
(*                                                                         *)
(* Every shard is a replica set that fails over.  log[s] holds the states  *)
(* of its collections that a new primary may start from: the first is      *)
(* majority committed, the last is the primary's.  What is kept in memory  *)
(* is lost with the primary, but a deposed primary may go on for a while:  *)
(* its threads still send requests, although no write of theirs becomes    *)
(* majority committed.  Requests may be late, and those that are retried   *)
(* may be handled again.  The config server answers as one linearizable    *)
(* register.  The collection is neither dropped nor are its chunks split   *)
(* or merged, and the resumable range deleter is enabled, as by default.   *)
(***************************************************************************)
EXTENDS Integers, Sequences, FiniteSets, Functions

CONSTANTS
    Shard,               \* the shards
    FirstOwner,          \* the shard that has the chunk at first
    Doc,                 \* the documents of the chunk
    FirstDocs,           \* those that are there at first
    None,                \* no shard
    MaxMigrations,       \* bound on the number of migrations
    MaxTerm,             \* bound on the failovers of each shard
    MaxFailovers,        \* bound on the failovers of all shards
    MaxUncommitted,      \* bound on the writes that are not yet majority committed
    ServeBeforeRecovery  \* FALSE leaves out the executions in which a new primary takes
                         \* writes while it does not know the outcome of a migration

ASSUME ShardAssumption == /\ IsFiniteSet(Shard)
                          /\ None \notin Shard
                          /\ FirstOwner \in Shard
ASSUME DocAssumption == FirstDocs \subseteq Doc
ASSUME BoundAssumption == /\ MaxMigrations \in Nat
                          /\ MaxTerm \in Nat
                          /\ MaxFailovers \in Nat
                          /\ MaxUncommitted \in Nat \ {0}
ASSUME ServeAssumption == ServeBeforeRecovery \in BOOLEAN

Migrations == 1 .. MaxMigrations

VARIABLES
    \* config.chunks on the config server: the chunk's owner and version, and the
    \* migrations that it committed
    config, committed,
    \* donor, recipient and preMigrationChunkVersion of every migration
    mig,
    \* the replicated collections of every shard, its failovers so far
    log, term,
    \* in the memory of every primary: the filtering metadata, the migrate thread of the
    \* recipient and the submitted range deletions
    meta, recv, del,
    \* the thread of the donor that coordinates a migration, for every primary it has had
    thr,
    \* requests and answers under way, late ones included
    msgs,
    \* documents whose insertion was acknowledged
    acked

vars == <<config, committed, mig, log, term, meta, recv, del, thr, msgs, acked>>

Unknown == [owner |-> None, version |-> 0]
NoMigration == [from |-> None, to |-> None, version |-> 0]
NoReceive == [m |-> 0, state |-> "none", batch |-> {}, empty |-> FALSE, after |-> FALSE]
NoDeletion == [step |-> "none", again |-> FALSE]
NoThread == [pc |-> "idle", decision |-> "none", critSec |-> FALSE]

Init ==
    /\ config = [owner |-> FirstOwner, version |-> 1]
    /\ committed = {}
    /\ mig = [m \in Migrations |-> NoMigration]
    /\ log = [s \in Shard |->
                 <<[coord |-> [m \in Migrations |-> "none"],
                    task  |-> [m \in Migrations |-> "none"],
                    txn   |-> [m \in Migrations |-> FALSE],
                    docs  |-> IF s = FirstOwner THEN FirstDocs ELSE {}]>>]
    /\ term = [s \in Shard |-> 0]
    /\ meta = [s \in Shard |-> config]
    /\ recv = [s \in Shard |-> NoReceive]
    /\ del = [s \in Shard |-> [m \in Migrations |-> NoDeletion]]
    /\ thr = [m \in Migrations |-> [t \in 0 .. MaxTerm |-> NoThread]]
    /\ msgs = {}
    /\ acked = FirstDocs

-----------------------------------------------------------------------------
(* Writes of a shard, and what is certain to survive its failovers.         *)

primary(s) == log[s][Len(log[s])]

written(s, state) == IF state = primary(s) THEN log[s] ELSE Append(log[s], state)

\* The primary of s makes its collections look like state.
write(s, state) ==
    /\ Len(log[s]) <= MaxUncommitted
    /\ log' = [log EXCEPT ![s] = written(s, state)]

\* A write has returned with write concern majority: what it left is in every state.
coordDurable(s, m, d) == \A i \in DOMAIN log[s] : log[s][i].coord[m] = d
taskDurable(s, m, t) == \A i \in DOMAIN log[s] : log[s][i].task[m] = t
txnDurable(s, m) == \A i \in DOMAIN log[s] : log[s][i].txn[m]

from(m) == mig[m].from
to(m) == mig[m].to

\* The thread of m is one of the current primary.
current(m, t) == from(m) # None /\ t = term[from(m)]
at(m, t, pc) == thr[m][t].pc = pc
goto(m, t, pc) == thr' = [thr EXCEPT ![m][t].pc = pc]
send(type, m) == msgs' = msgs \cup {[type |-> type, m |-> m]}
sent(type, m) == [type |-> type, m |-> m] \in msgs

\* A request that is not retried.
receiveOnce(type, m) == /\ sent(type, m)
                        /\ msgs' = msgs \ {[type |-> type, m |-> m]}

active(m, t) == thr[m][t].pc \notin {"idle", "done"}

\* ActiveMigrationsRegistry: neither donating nor receiving, nor recovering a migration.
registryFree(s) ==
    /\ recv[s] = NoReceive
    /\ \A m \in Migrations : from(m) = s => ~active(m, term[s])

-----------------------------------------------------------------------------
(* The donor: MigrationSourceManager up to the decision.                    *)

\* The constructor forces a refresh and notes the chunk's version; startMigration begins with
\* the coordinator document.
StartMigration(m, s, r) ==
    /\ mig[m] = NoMigration
    /\ m > 1 => mig[m - 1] # NoMigration
    /\ r # s
    /\ registryFree(s)
    /\ config.owner = s
    /\ meta' = [meta EXCEPT ![s] = config]
    /\ mig' = [mig EXCEPT ![m] = [from |-> s, to |-> r, version |-> config.version]]
    /\ write(s, [primary(s) EXCEPT !.coord[m] = "unknown"])
    /\ goto(m, term[s], "persistCoordinator")
    /\ UNCHANGED <<config, committed, term, recv, del, msgs, acked>>

PersistDonorTask(m, t) ==
    /\ at(m, t, "persistCoordinator") /\ current(m, t)
    /\ coordDurable(from(m), m, "unknown")
    /\ write(from(m), [primary(from(m)) EXCEPT !.task[m] = "pending"])
    /\ goto(m, t, "persistTask")
    /\ UNCHANGED <<config, committed, mig, term, meta, recv, del, msgs, acked>>

StartClone(m, t) ==
    /\ at(m, t, "persistTask") /\ current(m, t)
    /\ taskDurable(from(m), m, "pending")
    /\ send("recvChunkStart", m)
    /\ goto(m, t, "cloning")
    /\ UNCHANGED <<config, committed, mig, log, term, meta, recv, del, acked>>

\* The recipient says that it is steady; startMetadataOp, with write concern majority, then
\* shows that the donor is still the primary.
EnterCriticalSection(m, t) ==
    /\ at(m, t, "cloning") /\ current(m, t)
    /\ recv[to(m)].m = m /\ recv[to(m)].state = "steady"
    /\ send("recvChunkCommit", m)
    /\ thr' = [thr EXCEPT ![m][t].pc = "critical", ![m][t].critSec = TRUE]
    /\ UNCHANGED <<config, committed, mig, log, term, meta, recv, del, acked>>

CommitChunkOnRecipient(m, t) ==
    /\ at(m, t, "critical")
    /\ sent("received", m)
    /\ goto(m, t, "cloneCompleted")
    /\ UNCHANGED <<config, committed, mig, log, term, meta, recv, del, msgs, acked>>

CommitChunkMetadataOnConfig(m, t) ==
    /\ at(m, t, "cloneCompleted")
    /\ send("commit", m)
    /\ goto(m, t, "committing")
    /\ UNCHANGED <<config, committed, mig, log, term, meta, recv, del, acked>>

\* The answer to the commit, if it arrives and says that it was successful.
CommitAnswered(m, t) ==
    /\ at(m, t, "committing")
    /\ m \in committed
    /\ goto(m, t, "confirm")
    /\ UNCHANGED <<config, committed, mig, log, term, meta, recv, del, msgs, acked>>

\* An error, or no answer.
CommitFailed(m, t) ==
    /\ at(m, t, "committing")
    /\ goto(m, t, "ensure")
    /\ UNCHANGED <<config, committed, mig, log, term, meta, recv, del, msgs, acked>>

\* (mutant) the version stays
ensured_Never(m) == config
\* (mutant) the version is raised again
ensured_Always(m) == [config EXCEPT !.version = @ + 1]

\* ensureChunkVersionIsGreaterThan: a commit that is still under way comes too late.
ensured(m) == [config EXCEPT !.version = IF mig[m].version < @ THEN @ ELSE @ + 1]

EnsureChunkVersion(m, t) ==
    /\ at(m, t, "ensure")
    /\ config' = ensured(m)
    /\ goto(m, t, "refresh")
    /\ UNCHANGED <<committed, mig, log, term, meta, recv, del, msgs, acked>>

\* What the refreshed metadata says of the outcome.  A chunk that is still owned although
\* its commit was answered leaves the migration undecided.
outcome(m, t) ==
    IF config.owner # from(m) THEN "committed"
    ELSE IF at(m, t, "confirm") THEN "none"
    ELSE "aborted"

RefreshAndDecide(m, t) ==
    /\ at(m, t, "confirm") \/ at(m, t, "refresh")
    /\ meta' = IF current(m, t) THEN [meta EXCEPT ![from(m)] = config] ELSE meta
    /\ thr' = [thr EXCEPT ![m][t] =
                   [pc       |-> IF outcome(m, t) = "none" THEN "done" ELSE "decide",
                    decision |-> outcome(m, t),
                    critSec  |-> FALSE]]
    /\ UNCHANGED <<config, committed, mig, log, term, recv, del, msgs, acked>>

\* cleanupOnError before the commit was sent.  The request to abort, if it gets through,
\* ends the recipient's thread: see ReceiveFails.
CleanupOnError(m, t) ==
    /\ thr[m][t].pc \in {"persistCoordinator", "persistTask", "cloning", "critical",
                         "cloneCompleted"}
    /\ thr' = [thr EXCEPT ![m][t] =
                   [pc |-> "decide", decision |-> "aborted", critSec |-> FALSE]]
    /\ UNCHANGED <<config, committed, mig, log, term, meta, recv, del, msgs, acked>>

-----------------------------------------------------------------------------
(* The donor: MigrationCoordinator::completeMigration.  Requests to the     *)
(* recipient are sent until they have succeeded with write concern          *)
(* majority; a primary stops when it finds out that it is deposed.          *)

PersistDecision(m, t) ==
    /\ at(m, t, "decide") /\ current(m, t)
    /\ write(from(m), IF primary(from(m)).coord[m] = "none"
                      THEN primary(from(m))
                      ELSE [primary(from(m)) EXCEPT !.coord[m] = thr[m][t].decision])
    /\ goto(m, t, "persistDecision")
    /\ UNCHANGED <<config, committed, mig, term, meta, recv, del, msgs, acked>>

AdvanceTransactionOnRecipient(m, t) ==
    /\ at(m, t, "persistDecision") /\ current(m, t)
    /\ coordDurable(from(m), m, thr[m][t].decision) \/ coordDurable(from(m), m, "none")
    /\ send("advanceTransaction", m)
    /\ goto(m, t, "advance")
    /\ UNCHANGED <<config, committed, mig, log, term, meta, recv, del, acked>>

\* The recipient's task of a committed migration goes before the donor's becomes ready.
DeleteTaskOnRecipient(m, t) ==
    /\ at(m, t, "advance") /\ thr[m][t].decision = "committed"
    /\ txnDurable(to(m), m)
    /\ send("deleteTask", m)
    /\ goto(m, t, "recipientTask")
    /\ UNCHANGED <<config, committed, mig, log, term, meta, recv, del, acked>>

MarkAsReadyLocally(m, t) ==
    /\ at(m, t, "recipientTask") /\ thr[m][t].decision = "committed" /\ current(m, t)
    /\ sent("deleteTask", m) /\ taskDurable(to(m), m, "none")
    /\ write(from(m), IF primary(from(m)).task[m] = "none"
                      THEN primary(from(m))
                      ELSE [primary(from(m)) EXCEPT !.task[m] = "ready"])
    /\ goto(m, t, "donorTask")
    /\ UNCHANGED <<config, committed, mig, term, meta, recv, del, msgs, acked>>

submitted(d) == IF d.step = "none" THEN [NoDeletion EXCEPT !.step = "submitted"]
                ELSE [d EXCEPT !.again = TRUE]

SubmitLocally(m, t) ==
    /\ at(m, t, "donorTask") /\ thr[m][t].decision = "committed" /\ current(m, t)
    /\ taskDurable(from(m), m, "ready") \/ taskDurable(from(m), m, "none")
    /\ del' = [del EXCEPT ![from(m)][m] = submitted(@)]
    /\ goto(m, t, "forget")
    /\ UNCHANGED <<config, committed, mig, log, term, meta, recv, msgs, acked>>

\* The donor's task of an aborted migration goes before the recipient's becomes ready.
DeleteTaskLocally(m, t) ==
    /\ at(m, t, "advance") /\ thr[m][t].decision = "aborted" /\ current(m, t)
    /\ txnDurable(to(m), m)
    /\ write(from(m), [primary(from(m)) EXCEPT !.task[m] = "none"])
    /\ goto(m, t, "donorTask")
    /\ UNCHANGED <<config, committed, mig, term, meta, recv, del, msgs, acked>>

MarkAsReadyOnRecipient(m, t) ==
    /\ at(m, t, "donorTask") /\ thr[m][t].decision = "aborted" /\ current(m, t)
    /\ taskDurable(from(m), m, "none")
    /\ send("readyTask", m)
    /\ goto(m, t, "recipientTask")
    /\ UNCHANGED <<config, committed, mig, log, term, meta, recv, del, acked>>

AbortDelivered(m, t) ==
    /\ at(m, t, "recipientTask") /\ thr[m][t].decision = "aborted"
    /\ taskDurable(to(m), m, "ready") \/ taskDurable(to(m), m, "none")
    /\ goto(m, t, "forget")
    /\ UNCHANGED <<config, committed, mig, log, term, meta, recv, del, msgs, acked>>

\* With write concern 1: the document may come back with the next primary.
ForgetMigration(m, t) ==
    /\ at(m, t, "forget") /\ current(m, t)
    /\ write(from(m), [primary(from(m)) EXCEPT !.coord[m] = "none"])
    /\ goto(m, t, "done")
    /\ UNCHANGED <<config, committed, mig, term, meta, recv, del, msgs, acked>>

\* resumeMigrationCoordinationsOnStepUp, one document after the other, once what is read is
\* majority committed.
ResumeMigration(m, t) ==
    /\ at(m, t, "recover") /\ current(m, t)
    /\ \A n \in 1 .. m - 1 : from(n) = from(m) => ~active(n, t)
    /\ LET d == primary(from(m)).coord[m] IN
           /\ coordDurable(from(m), m, d)
           /\ thr' = [thr EXCEPT ![m][t] =
                          [pc       |-> IF d = "unknown" THEN "ensure" ELSE "decide",
                           decision |-> IF d = "unknown" THEN "none" ELSE d,
                           critSec  |-> FALSE]]
    /\ UNCHANGED <<config, committed, mig, log, term, meta, recv, del, msgs, acked>>

-----------------------------------------------------------------------------
(* The recipient: MigrationDestinationManager.                              *)

\* (mutant) the transaction number is not looked at
mayReceive_Late(s, m) == TRUE

\* _recvChunkStart and the begin of the migrate thread, which checks out the session of the
\* migration for as long as it runs.  A transaction number that was advanced ends it.
mayReceive(s, m) == ~primary(s).txn[m]

RecvChunkStart(m) ==
    LET s == to(m) IN
    /\ receiveOnce("recvChunkStart", m)
    /\ registryFree(s)
    /\ mayReceive(s, m)
    /\ meta' = [meta EXCEPT ![s] = config]
    /\ recv' = [recv EXCEPT ![s] = [NoReceive EXCEPT !.m = m, !.state = "ready"]]
    /\ UNCHANGED <<config, committed, mig, log, term, del, thr, acked>>

\* (mutant) no deletion is waited for
conflictingDeletions_None(s) == {}

\* checkForConflictingDeletions: any task on the range, pending or not.
conflictingDeletions(s) == {m \in Migrations : primary(s).task[m] # "none"}

PersistRecipientTask(s) ==
    /\ recv[s].state = "ready"
    /\ conflictingDeletions(s) = {}
    /\ write(s, [primary(s) EXCEPT !.task[recv[s].m] = "pending"])
    /\ recv' = [recv EXCEPT ![s].state = "clone"]
    /\ UNCHANGED <<config, committed, mig, term, meta, del, thr, msgs, acked>>

\* The donor answers _migrateClone and _transferMods until its thread cleans up.
serves(m) == \E t \in 0 .. MaxTerm : /\ current(m, t)
                                          /\ thr[m][t].pc \in {"cloning", "critical"}

missing(s) == primary(from(recv[s].m)).docs \ primary(s).docs

\* The thread may ask the donor for more.
transferring(s) ==
    /\ recv[s].state \in {"clone", "steady", "commitStart"}
    /\ taskDurable(s, recv[s].m, "pending")
    /\ recv[s].batch = {} /\ ~recv[s].empty
    /\ serves(recv[s].m)

\* transferAfterCommit: the donor had said that it blocks writes before it was asked.
nowAfter(s) == recv[s].after \/ recv[s].state = "commitStart"

\* Documents that the donor has, cloned or out of its modifications.
FetchBatch(s) ==
    /\ transferring(s)
    /\ missing(s) # {}
    /\ recv' = [recv EXCEPT ![s].batch = missing(s), ![s].after = nowAfter(s)]
    /\ UNCHANGED <<config, committed, mig, log, term, meta, del, thr, msgs, acked>>

\* They are inserted later, whatever has become of the donor meanwhile.
InsertBatch(s) ==
    /\ recv[s].batch # {}
    /\ write(s, [primary(s) EXCEPT !.docs = @ \cup recv[s].batch])
    /\ recv' = [recv EXCEPT ![s].batch = {}]
    /\ UNCHANGED <<config, committed, mig, term, meta, del, thr, msgs, acked>>

Steady(s) ==
    /\ transferring(s)
    /\ recv[s].state = "clone"
    /\ missing(s) = {}
    /\ recv' = [recv EXCEPT ![s].state = "steady"]
    /\ UNCHANGED <<config, committed, mig, log, term, meta, del, thr, msgs, acked>>

\* A _transferMods that has nothing to transfer.
TransferNothing(s) ==
    /\ transferring(s)
    /\ recv[s].state \in {"steady", "commitStart"}
    /\ missing(s) = {}
    /\ recv' = [recv EXCEPT ![s].empty = TRUE, ![s].after = nowAfter(s)]
    /\ UNCHANGED <<config, committed, mig, log, term, meta, del, thr, msgs, acked>>

\* _recvChunkCommit (startCommit).
StartCommit(m) ==
    LET s == to(m) IN
    /\ receiveOnce("recvChunkCommit", m)
    /\ recv[s].m = m /\ recv[s].state = "steady"
    /\ recv' = [recv EXCEPT ![s].state = "commitStart"]
    /\ UNCHANGED <<config, committed, mig, log, term, meta, del, thr, acked>>

\* (mutant) no transfer after the commit message is needed
complete_AnyEmpty(s) == recv[s].state = "commitStart"

\* The condition under which the loop of step 5 ends.
complete(s) == recv[s].state = "commitStart" /\ recv[s].after

\* (mutant) replication is not awaited
flushed_Not(s) == TRUE

\* _flushPendingWrites.
flushed(s) == \A i \in DOMAIN log[s] : log[s][i].docs = primary(s).docs

ExamineState(s) ==
    /\ recv[s].empty
    /\ IF complete(s) /\ flushed(s)
       THEN /\ send("received", recv[s].m)
            /\ recv' = [recv EXCEPT ![s] = NoReceive]
       ELSE /\ recv' = [recv EXCEPT ![s].empty = FALSE]
            /\ UNCHANGED msgs
    /\ UNCHANGED <<config, committed, mig, log, term, meta, del, thr, acked>>

\* _recvChunkAbort, an error, or the time-out of startCommit.
ReceiveFails(s) ==
    /\ recv[s] # NoReceive
    /\ recv' = [recv EXCEPT ![s] = NoReceive]
    /\ UNCHANGED <<config, committed, mig, log, term, meta, del, thr, msgs, acked>>

\* (mutant) the session is not waited for
sessionFree_NotAwaited(s, m) == TRUE

\* The retryable write of advanceTransactionOnRecipient waits for the session, which the
\* migrate thread has checked out.
sessionFree(s, m) == recv[s].m # m

AdvanceTransaction(m) ==
    LET s == to(m) IN
    /\ sent("advanceTransaction", m)
    /\ sessionFree(s, m)
    /\ ~primary(s).txn[m]
    /\ write(s, [primary(s) EXCEPT !.txn[m] = TRUE])
    /\ UNCHANGED <<config, committed, mig, term, meta, recv, del, thr, msgs, acked>>

DeleteTask(m) ==
    LET s == to(m) IN
    /\ sent("deleteTask", m)
    /\ primary(s).task[m] # "none"
    /\ write(s, [primary(s) EXCEPT !.task[m] = "none"])
    /\ UNCHANGED <<config, committed, mig, term, meta, recv, del, thr, msgs, acked>>

\* The op observer of the recipient submits a task that becomes ready.
ReadyTask(m) ==
    LET s == to(m) IN
    /\ sent("readyTask", m)
    /\ primary(s).task[m] = "pending"
    /\ write(s, [primary(s) EXCEPT !.task[m] = "ready"])
    /\ del' = [del EXCEPT ![s][m] = submitted(@)]
    /\ UNCHANGED <<config, committed, mig, term, meta, recv, thr, msgs, acked>>

-----------------------------------------------------------------------------
(* The config server: commitChunkMigration.                                 *)

\* (mutant) the version is not compared
chunkMatches_AnyVersion(m) == config.owner = from(m)
chunkMatches(m) == config.owner = from(m) /\ config.version <= mig[m].version

CommitChunkMigration(m) ==
    /\ sent("commit", m)
    /\ chunkMatches(m)
    /\ config' = [owner |-> to(m), version |-> config.version + 1]
    /\ committed' = committed \cup {m}
    /\ UNCHANGED <<mig, log, term, meta, recv, del, thr, msgs, acked>>

-----------------------------------------------------------------------------
(* The range deleter.                                                       *)

finished(d) == IF d.again THEN [NoDeletion EXCEPT !.step = "submitted"] ELSE NoDeletion

\* submitRangeDeletionTask and cleanUpRange: unknown metadata are refreshed, and the range
\* of a chunk that the shard owns is refused.
CleanUpRange(s, m) ==
    LET known == IF meta[s] = Unknown THEN config ELSE meta[s] IN
    /\ del[s][m].step = "submitted"
    /\ meta' = [meta EXCEPT ![s] = known]
    /\ del' = [del EXCEPT ![s][m] = IF known.owner = s THEN finished(@)
                                    ELSE [@ EXCEPT !.step = "scheduled"]]
    /\ UNCHANGED <<config, committed, mig, log, term, recv, thr, msgs, acked>>

\* (mutant) the task is not looked for
taskStillExists_Assumed(s, m) == TRUE

\* ensureRangeDeletionTaskStillExists, at the begin of every batch.
taskStillExists(s, m) == primary(s).task[m] = "ready"

DeleteNextBatch(s, m, d) ==
    /\ del[s][m].step = "scheduled"
    /\ taskStillExists(s, m)
    /\ d \in primary(s).docs
    /\ write(s, [primary(s) EXCEPT !.docs = @ \ {d}])
    /\ UNCHANGED <<config, committed, mig, term, meta, recv, del, thr, msgs, acked>>

DeletionEnds(s, m) ==
    /\ del[s][m].step = "scheduled"
    /\ \/ /\ taskStillExists(s, m)
          /\ primary(s).docs = {}
          /\ del' = [del EXCEPT ![s][m].step = "replicate"]
       \/ /\ ~taskStillExists(s, m)
          /\ del' = [del EXCEPT ![s][m] = finished(@)]
    /\ UNCHANGED <<config, committed, mig, log, term, meta, recv, thr, msgs, acked>>

RemoveTask(s, m) ==
    /\ del[s][m].step = "replicate"
    /\ flushed(s)
    /\ write(s, [primary(s) EXCEPT !.task[m] = "none"])
    /\ del' = [del EXCEPT ![s][m] = finished(@)]
    /\ UNCHANGED <<config, committed, mig, term, meta, recv, thr, msgs, acked>>

-----------------------------------------------------------------------------
(* Clients, replication and failover.                                       *)

inCriticalSection(s) == \E m \in Migrations : from(m) = s /\ thr[m][term[s]].critSec

\* A request with a newer shard version makes the shard refresh its metadata.
Refresh(s) ==
    /\ meta[s] # config
    /\ ~inCriticalSection(s)
    /\ meta' = [meta EXCEPT ![s] = config]
    /\ UNCHANGED <<config, committed, mig, log, term, recv, del, thr, msgs, acked>>

undecided(s) == \E m \in Migrations : /\ from(m) = s
                                      /\ thr[m][term[s]].pc \in {"recover", "ensure", "refresh"}
                                      /\ ~thr[m][term[s]].critSec

\* An insert by way of a router that has the shard's version, up to its acknowledgement
\* with write concern majority.
ClientInsert(s, d) ==
    /\ meta[s].owner = s
    /\ ~inCriticalSection(s)
    /\ ServeBeforeRecovery \/ ~undecided(s)
    /\ d \notin acked
    /\ log' = [log EXCEPT ![s] = <<[primary(s) EXCEPT !.docs = @ \cup {d}]>>]
    /\ acked' = acked \cup {d}
    /\ UNCHANGED <<config, committed, mig, term, meta, recv, del, thr, msgs>>

Replicate(s) ==
    /\ Len(log[s]) > 1
    /\ log' = [log EXCEPT ![s] = Tail(@)]
    /\ UNCHANGED <<config, committed, mig, term, meta, recv, del, thr, msgs, acked>>

\* (mutant) nothing is submitted on step-up
resubmitted_None(state) == [m \in Migrations |-> NoDeletion]
resubmitted(state) ==
    [m \in Migrations |-> IF state.task[m] = "ready" THEN submitted(NoDeletion) ELSE NoDeletion]

\* A member with the first k states becomes primary: it resubmits the range deletions that
\* are ready and resumes the migrations whose documents it finds.
Failover(s, k) ==
    LET state == log[s][k] IN
    /\ term[s] < MaxTerm
    /\ FoldFunction(+, 0, term) < MaxFailovers
    /\ term' = [term EXCEPT ![s] = @ + 1]
    /\ log' = [log EXCEPT ![s] = SubSeq(@, 1, k)]
    /\ meta' = [meta EXCEPT ![s] = Unknown]
    /\ recv' = [recv EXCEPT ![s] = NoReceive]
    /\ del' = [del EXCEPT ![s] = resubmitted(state)]
    /\ thr' = [m \in Migrations |->
                  IF from(m) = s /\ state.coord[m] # "none"
                  THEN [thr[m] EXCEPT ![term[s] + 1].pc = "recover"]
                  ELSE thr[m]]
    /\ UNCHANGED <<config, committed, mig, msgs, acked>>

-----------------------------------------------------------------------------

donorStep(m, t) ==
    \/ PersistDonorTask(m, t) \/ StartClone(m, t) \/ EnterCriticalSection(m, t)
    \/ CommitChunkOnRecipient(m, t) \/ CommitChunkMetadataOnConfig(m, t)
    \/ CommitAnswered(m, t) \/ EnsureChunkVersion(m, t) \/ RefreshAndDecide(m, t)
    \/ PersistDecision(m, t) \/ AdvanceTransactionOnRecipient(m, t)
    \/ DeleteTaskOnRecipient(m, t) \/ MarkAsReadyLocally(m, t) \/ SubmitLocally(m, t)
    \/ DeleteTaskLocally(m, t) \/ MarkAsReadyOnRecipient(m, t) \/ AbortDelivered(m, t)
    \/ ForgetMigration(m, t) \/ ResumeMigration(m, t)

donorFails(m, t) == CommitFailed(m, t) \/ CleanupOnError(m, t)

handleRequest(m) ==
    \/ AdvanceTransaction(m) \/ DeleteTask(m) \/ ReadyTask(m)

receive(s) ==
    \/ PersistRecipientTask(s) \/ FetchBatch(s) \/ InsertBatch(s) \/ Steady(s)
    \/ TransferNothing(s) \/ ExamineState(s)

rangeDeleter(s, m) ==
    \/ CleanUpRange(s, m) \/ DeletionEnds(s, m) \/ RemoveTask(s, m)
    \/ \E d \in Doc : DeleteNextBatch(s, m, d)

Next ==
    \/ \E m \in Migrations, s, r \in Shard : StartMigration(m, s, r)
    \/ \E m \in Migrations, t \in 0 .. MaxTerm : donorStep(m, t) \/ donorFails(m, t)
    \/ \E m \in Migrations : from(m) # None /\ (RecvChunkStart(m) \/ StartCommit(m))
    \/ \E m \in Migrations : from(m) # None /\ (handleRequest(m) \/ CommitChunkMigration(m))
    \/ \E s \in Shard : receive(s) \/ ReceiveFails(s)
    \/ \E s \in Shard, m \in Migrations : rangeDeleter(s, m)
    \/ \E s \in Shard : Refresh(s) \/ Replicate(s)
    \/ \E s \in Shard, d \in Doc : ClientInsert(s, d)
    \/ \E s \in Shard : \E k \in DOMAIN log[s] : Failover(s, k)

Spec == Init /\ [][Next]_vars

\* The recipient's thread finds that its donor no longer answers.
giveUp(s) == /\ recv[s].state # "ready"
             /\ recv[s] # NoReceive => ~serves(recv[s].m)
             /\ ReceiveFails(s)

FairSpec ==
    /\ Spec
    /\ \A m \in Migrations :
           /\ \A t \in 0 .. MaxTerm : WF_vars(donorStep(m, t) \/ donorFails(m, t))
           /\ WF_vars(from(m) # None /\ handleRequest(m))
           /\ WF_vars(from(m) # None /\ StartCommit(m))
           /\ \A s \in Shard : WF_vars(rangeDeleter(s, m))
    /\ \A s \in Shard : WF_vars(receive(s)) /\ WF_vars(giveUp(s)) /\ WF_vars(Replicate(s))

-----------------------------------------------------------------------------

State == [coord : [Migrations -> {"none", "unknown", "committed", "aborted"}],
          task  : [Migrations -> {"none", "pending", "ready"}],
          txn   : [Migrations -> BOOLEAN],
          docs  : SUBSET Doc]

\* Every migration raises the chunk's version once at most: by its commit or, so that it
\* cannot commit any more, by ensureChunkVersionIsGreaterThan.
Version == 0 .. MaxMigrations + 1
Metadata == [owner : Shard \cup {None}, version : Version]

\* The type invariant, with the bound on the chunk's version.
TypeOK ==
    /\ config \in [owner : Shard, version : Version]
    /\ committed \subseteq Migrations
    /\ mig \in [Migrations -> [from : Shard \cup {None}, to : Shard \cup {None},
                               version : Version]]
    /\ \A s \in Shard : /\ Len(log[s]) \in 1 .. MaxUncommitted + 1
                        /\ \A i \in DOMAIN log[s] : log[s][i] \in State
    /\ term \in [Shard -> 0 .. MaxTerm]
    /\ meta \in [Shard -> Metadata]
    /\ recv \in [Shard -> [m : 0 .. MaxMigrations,
                           state : {"none", "ready", "clone", "steady", "commitStart"},
                           batch : SUBSET Doc, empty : BOOLEAN, after : BOOLEAN]]
    /\ del \in [Shard -> [Migrations ->
                   [step : {"none", "submitted", "scheduled", "replicate"},
                    again : BOOLEAN]]]
    /\ \A m \in Migrations, t \in 0 .. MaxTerm :
           /\ thr[m][t].decision \in {"none", "committed", "aborted"}
           /\ thr[m][t].critSec \in BOOLEAN
    /\ acked \subseteq Doc

\* What a coordinator document says of a migration is what the config server did, whoever
\* wrote it: the primary that sent the commit and got no answer, its successor that recovers
\* the outcome while that commit may still be under way, or one that finds that the chunk
\* has come back meanwhile (completeMigration, resumeMigrationCoordinationsOnStepUp).
DecisionAgrees ==
    \A s \in Shard, m \in Migrations : \A i \in DOMAIN log[s] :
        /\ log[s][i].coord[m] = "committed" => m \in committed
        /\ log[s][i].coord[m] = "aborted" => m \notin committed

\* The owner of the chunk has every document whose insertion was acknowledged, whichever of
\* its members becomes primary: none is missed by the last transfer, lost by the recipient
\* in a failover, or taken for an orphan by a range deletion of an earlier migration.
OwnerHasData ==
    \A i \in DOMAIN log[config.owner] : acked \subseteq log[config.owner][i].docs

\* A shard that does not own the chunk has documents of it only while it also has a range
\* deletion task, so that no orphan is left for ever: the migrate thread of the recipient
\* holds the session of its migration for as long as it may still insert.
OrphansAccounted ==
    \A s \in Shard \ {config.owner} : \A i \in DOMAIN log[s] :
        log[s][i].docs # {} => \E m \in Migrations : log[s][i].task[m] # "none"

\* No task on the range of a chunk is ready on the shard that owns it: the task of one side
\* is deleted, by a majority, before the other side's becomes ready, and a chunk comes back
\* only after the range was cleaned.
OwnerKeepsRange ==
    \A i \in DOMAIN log[config.owner], m \in Migrations :
        log[config.owner][i].task[m] # "ready"

NothingLeft ==
    \A s \in Shard :
        /\ \A m \in Migrations : /\ primary(s).coord[m] = "none"
                                 /\ primary(s).task[m] = "none"
        /\ s # config.owner => primary(s).docs = {}

\* Once migrations and failovers have stopped, every migration is decided and forgotten and
\* every orphan deleted, whatever failed: nobody waits for ever for a session, for a
\* conflicting deletion or for a task that no one submits again.
Quiesces == <>[]NothingLeft

\* What is acknowledged by the donor is on the recipient when the donation commits.
\* migration_source_manager.h says of enterCriticalSection "Once this call returns
\* successfully, no writes will be happening on this shard until the chunk donation is
\* committed."
DonationIsComplete ==
    [][\A m \in committed' \ committed : acked \subseteq primary(to(m)).docs]_vars
=============================================================================
