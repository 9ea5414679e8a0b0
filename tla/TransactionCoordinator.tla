----------------------- MODULE TransactionCoordinator -----------------------
(***************************************************************************)
(* Two-phase commit of one cross-shard transaction (db/s): the             *)
(* TransactionCoordinator on the shard the router chose, its document in   *)
(* config.transaction_coordinators, the prepareTransaction,                *)
(* commitTransaction and abortTransaction commands of the participants,    *)
(* the recovery of the coordinator after a failover and the answers of     *)
(* coordinateCommitTransaction.                                            *)
(*                                                                         *)
(* Every shard is a replica set.  Election.tla shows that a term has one   *)
(* primary; here node[s][t] is the primary shard s had in term t.  A new   *)
(* primary keeps what is majority committed and any part of what is not,   *)
(* from any branch; an old primary stays active, with a commit point that  *)
(* no longer moves, until it notices and steps down.  A crashed node is    *)
(* one that takes no further step.                                         *)
(*                                                                         *)
(* An oplog is the sequence of what its entries leave behind: the          *)
(* coordinator's document and the participant's state.                     *)
(***************************************************************************)
EXTENDS Integers, Sequences, FiniteSets, FiniteSetsExt

CONSTANTS
    Shards,          \* the transaction's participants
    Coord,           \* the participant whose shard coordinates the commit
    MaxTerm,         \* bound: [Shards -> terms each replica set goes through]
    MaxDisruptions,  \* bound on the failovers of all replica sets and the failed step-down
                     \* attempts together
    Timestamps,      \* bound: the prepare timestamps in play
    PrepareTimestamps, \* bound: [Shards -> those a prepare on that shard may get]
    MaxAttempts      \* bound on failed step-down attempts of the coordinator's shard

ASSUME ShardAssumption == IsFiniteSet(Shards) /\ Coord \in Shards
ASSUME TermAssumption == MaxTerm \in [Shards -> Nat \ {0}] /\ MaxDisruptions \in Nat
ASSUME TimestampAssumption == IsFiniteSet(Timestamps) /\ Timestamps \subseteq Nat \ {0}
ASSUME PrepareAssumption == PrepareTimestamps \in [Shards -> SUBSET Timestamps]
ASSUME AttemptAssumption == MaxAttempts \in Nat

VARIABLES
    top,             \* [Shards -> the latest term of each replica set]
    node,            \* [Shards -> [term -> the primary of that term]]
    co,              \* [term of Coord -> the coordinator that primary runs]
    net,             \* commands the coordinators sent to the other shards; none is ever lost for
                     \* good, any may arrive late, twice or at an old primary
    answers,         \* answers to coordinateCommitTransaction recovered from the participant
    attempts         \* failed step-down attempts so far

vars == <<top, node, co, net, answers, attempts>>

NoDecision == [kind |-> "none", ts |-> 0]
AbortDecision == [kind |-> "abort", ts |-> 0]
CommitDecision(ts) == [kind |-> "commit", ts |-> ts]
Decisions == {AbortDecision} \cup {CommitDecision(ts) : ts \in Timestamps}
PrepareCommand == [kind |-> "prepare", ts |-> 0]

\* TransactionCoordinatorDocument: absent, a participant list, or a list with a decision
NoDoc == NoDecision
ListDoc == [kind |-> "list", ts |-> 0]
Docs == {NoDoc, ListDoc} \cup Decisions

\* config.transactions: what the oplog says of the transaction
NoRecord == [kind |-> "none", ts |-> 0]
Record(kind, ts) == [kind |-> kind, ts |-> ts]
Records == {NoRecord} \cup {Record("aborted", 0)}
             \cup {Record(k, ts) : k \in {"prepared", "committed"}, ts \in Timestamps}

NoVote == [kind |-> "none", ts |-> 0]

Entry(t, doc, part) == [term |-> t, doc |-> doc, part |-> part]
FirstEntry == Entry(1, NoDoc, NoRecord)

Last(s, t) == node[s][t].log[Len(node[s][t].log)]
\* what a majority is known to have
Majority(s, t) == node[s][t].log[node[s][t].ci]
CanAcceptWrites(s, t) == node[s][t].mode = "primary"

\* What node (s, t) is after it wrote an entry, or nothing if the write changes nothing.
Wrote(s, t, doc, part) ==
    IF doc = Last(s, t).doc /\ part = Last(s, t).part
    THEN node[s][t]
    ELSE [node[s][t] EXCEPT !.log = Append(@, Entry(t, doc, part))]

SetNode(s, t, n) == node' = [node EXCEPT ![s][t] = n]
SetCo(t, c) == co' = [co EXCEPT ![t] = c]

Coordinator(step) ==
    [step |-> step, prep |-> "ok", sched |-> "ok", votes |-> [s \in Shards |-> NoVote],
     decision |-> NoDecision, waitFor |-> 0, acks |-> {}, result |-> "none"]

(* The transaction has run its statements: it is open on every shard and    *)
(* the coordinator was created with its first statement.                    *)
Init ==
    /\ top = [s \in Shards |-> 1]
    /\ node = [s \in Shards |-> [t \in 1..MaxTerm[s] |->
                 [mode |-> IF t = 1 THEN "primary" ELSE "none", open |-> t = 1,
                  log |-> <<FirstEntry>>, ci |-> 1]]]
    /\ co = [t \in 1..MaxTerm[Coord] |-> Coordinator(IF t = 1 THEN "inactive" ELSE "absent")]
    /\ net = {}
    /\ answers = {}
    /\ attempts = 0

-----------------------------------------------------------------------------
\* The coordinator (TransactionCoordinator, transaction_coordinator_util)

(* _done: the decision promise keeps a decision that is durable, otherwise  *)
(* it is failed; the coordinator leaves the catalog and its state is gone.  *)
done(c, code) ==
    [Coordinator("done") EXCEPT !.result = IF c.result = "none" THEN code ELSE c.result]

\* The votes are in, or no more are waited for: the consensus leaves a decision.
decided(c, d) ==
    [c EXCEPT !.step = "writingDecision", !.decision = d, !.waitFor = 0, !.prep = "ok",
              !.votes = [s \in Shards |-> NoVote]]

\* What interrupted the scheduler that persists the participants and sends prepare.
prepareError(c) == IF c.prep = "abort" THEN "ReachedAbortDecision" ELSE "SteppingDown"

(* coordinateCommitTransaction with a participant list.  The first request  *)
(* starts the commit, later ones only wait for it.                          *)
runCommit(t) ==
    /\ node[Coord][t].mode # "down"
    /\ co[t].step = "inactive"
    /\ SetCo(t, [co[t] EXCEPT !.step = "writingParticipants"])
    /\ UNCHANGED <<top, node, net, answers, attempts>>

(* recoverCommit (coordinateCommitTransaction without a list), a newer      *)
(* transaction on the session, commitTransaction or abortTransaction from   *)
(* the router: a commit that has not started never will.                    *)
cancelIfCommitNotYetStarted(t) ==
    /\ node[Coord][t].mode # "down"
    /\ co[t].step = "inactive"
    /\ SetCo(t, done(co[t], "NoSuchTransaction"))
    /\ UNCHANGED <<top, node, net, answers, attempts>>

(* The deadline task: cancels a commit that has not started and shuts down  *)
(* the scheduler of the first phase.  Later steps do not look at it.        *)
deadline(t) ==
    /\ co[t].sched = "ok"
    /\ co[t].prep = "ok"
    /\ co[t].step \in {"inactive", "writingParticipants", "waitingParticipants", "votes"}
    /\ SetCo(t, IF co[t].step = "inactive" THEN done(co[t], "NoSuchTransaction")
                ELSE [co[t] EXCEPT !.prep = "abort"])
    /\ UNCHANGED <<top, node, net, answers, attempts>>

(* persistParticipantsList.  The upsert replaces a document that has no     *)
(* list or the same list; a failed write is retried until it succeeds.      *)
persistParticipants(t) ==
    /\ co[t].step = "writingParticipants"
    /\ co[t].prep = "ok"
    /\ CanAcceptWrites(Coord, t)
    /\ LET n == Wrote(Coord, t, ListDoc, Last(Coord, t).part) IN
       /\ SetNode(Coord, t, n)
       /\ SetCo(t, [co[t] EXCEPT !.step = "waitingParticipants", !.waitFor = Len(n.log)])
    /\ UNCHANGED <<top, net, answers, attempts>>

(* The scheduler was shut down while the list was being written: the retry  *)
(* fails and with it the whole chain.  The write may have happened.         *)
persistParticipantsInterrupted(t) ==
    /\ co[t].step = "writingParticipants"
    /\ co[t].prep # "ok"
    /\ \/ UNCHANGED node
       \/ /\ CanAcceptWrites(Coord, t)
          /\ SetNode(Coord, t, Wrote(Coord, t, ListDoc, Last(Coord, t).part))
    /\ SetCo(t, done(co[t], prepareError(co[t])))
    /\ UNCHANGED <<top, net, answers, attempts>>

(* The list is majority committed: sendPrepare.  With its scheduler shut    *)
(* down by the deadline every shard counts as "no vote"; shut down by a     *)
(* step-down it fails.                                                      *)
participantsDurable(t) ==
    /\ co[t].step = "waitingParticipants"
    /\ co[t].waitFor <= node[Coord][t].ci
    /\ \/ /\ co[t].prep = "ok"
          /\ SetCo(t, [co[t] EXCEPT !.step = "votes", !.waitFor = 0])
          /\ net' = net \cup {PrepareCommand}
       \/ /\ co[t].prep = "abort"
          /\ SetCo(t, decided(co[t], AbortDecision))
          /\ UNCHANGED net
       \/ /\ co[t].prep = "stepdown"
          /\ SetCo(t, done(co[t], "SteppingDown"))
          /\ UNCHANGED net
    /\ UNCHANGED <<top, node, answers, attempts>>

(* waitUntilMajority fails on a node that is no longer primary, and when    *)
(* awaitReplication is entered during a step-down attempt.  The error ends  *)
(* the chain.                                                               *)
waitForMajorityFails(t) ==
    /\ co[t].step \in {"waitingParticipants", "waitingDecision"}
    /\ node[Coord][t].mode \in {"attempting", "down"}
    /\ SetCo(t, done(co[t], "PrimarySteppedDown"))
    /\ UNCHANGED <<top, node, net, answers, attempts>>

\* (mutant) the largest timestamp is never recorded
consensus_Unset(votes) == CommitDecision(0)

\* (mutant) any participant's timestamp will do
consensus_Min(votes) == CommitDecision(Min({votes[s].ts : s \in Shards}))

\* PrepareVoteConsensus::decision of votes that are all for commit
consensus(votes) == CommitDecision(Max({votes[s].ts : s \in Shards}))

\* (mutant) NoSuchTransaction is returned without the no-op write
NoSuchTransaction_NoNoop(s, t) ==
    /\ CanAcceptWrites(s, t)
    /\ ~node[s][t].open
    /\ Last(s, t).part.kind # "prepared"

(* Node (s, t) answers NoSuchTransaction and the answer counts: the no-op   *)
(* write it makes first was majority committed, so that this is the latest  *)
(* primary and all of its oplog is majority committed.                      *)
NoSuchTransaction(s, t) ==
    /\ CanAcceptWrites(s, t)
    /\ ~node[s][t].open
    /\ Last(s, t).part.kind # "prepared"
    /\ t = top[s]
    /\ node[s][t].ci = Len(node[s][t].log)

\* The nodes a command of coordinator t may reach: its own node if the shard is its own.
Targets(s, t) == IF s = Coord THEN {t} ELSE 1..top[s]

\* (mutant) a vote counts before the prepare entry is majority committed
votesCommit_NoMajority(s, u) ==
    /\ node[s][u].mode # "down"
    /\ Last(s, u).part.kind = "prepared"

(* prepareTransaction returned a timestamp without a write concern error    *)
votesCommit(s, u) ==
    /\ node[s][u].mode # "down"
    /\ Last(s, u).part.kind = "prepared"
    /\ Majority(s, u).part.kind = "prepared"

(* A conclusive response to prepare.  One vote to abort decides and stops   *)
(* the others.  Another shard may vote so at any time (NoSuchTransaction,   *)
(* ReadConcernMajorityNotEnabled, or ShardNotFound, which counts as one).   *)
registerVote(t, s) ==
    /\ co[t].step = "votes"
    /\ co[t].votes[s] = NoVote
    /\ \/ \E u \in Targets(s, t) :
            /\ votesCommit(s, u)
            /\ LET votes == [co[t].votes EXCEPT ![s] = [kind |-> "commit", ts |-> Last(s, u).part.ts]]
                   all == \A r \in Shards : votes[r].kind = "commit"
               IN SetCo(t, IF all THEN decided(co[t], consensus(votes))
                           ELSE [co[t] EXCEPT !.votes = votes])
       \/ /\ s = Coord => NoSuchTransaction(s, t)
          /\ SetCo(t, decided(co[t], AbortDecision))
    /\ UNCHANGED <<top, node, net, answers, attempts>>

(* The scheduler is shut down while votes are missing: by the deadline, the *)
(* missing ones are "no vote"; by a step-down, sendPrepare fails.           *)
prepareInterrupted(t) ==
    /\ co[t].step = "votes"
    /\ co[t].prep # "ok"
    /\ SetCo(t, IF co[t].prep = "abort" THEN decided(co[t], AbortDecision)
                ELSE done(co[t], "SteppingDown"))
    /\ UNCHANGED <<top, node, net, answers, attempts>>

\* (mutant) a decision can only be written once
decisionMatches_New(doc, d) == doc = ListDoc

\* The filter of persistDecision's update: no decision, or the same one.
decisionMatches(doc, d) == doc \in {ListDoc, d}

(* persistDecision.  An update that matches no document is an error, which  *)
(* is retried for ever.                                                     *)
persistDecision(t) ==
    /\ co[t].step = "writingDecision"
    /\ co[t].sched = "ok"
    /\ CanAcceptWrites(Coord, t)
    /\ decisionMatches(Last(Coord, t).doc, co[t].decision)
    /\ LET n == Wrote(Coord, t, co[t].decision, Last(Coord, t).part) IN
       /\ SetNode(Coord, t, n)
       /\ SetCo(t, [co[t] EXCEPT !.step = "waitingDecision", !.waitFor = Len(n.log)])
    /\ UNCHANGED <<top, net, answers, attempts>>

\* (mutant) the decision is sent as soon as it is written
decisionDurable_NoWait(t) ==
    /\ co[t].step = "waitingDecision"
    /\ LET c == [co[t] EXCEPT !.result = co[t].decision.kind, !.waitFor = 0] IN
       /\ SetCo(t, [c EXCEPT !.step = "acks"])
       /\ net' = net \cup {co[t].decision}
    /\ UNCHANGED <<top, node, answers, attempts>>

(* The decision is majority committed: the promise is fulfilled and         *)
(* sendCommit or sendAbort sends it, unless the scheduler is shut down.     *)
decisionDurable(t) ==
    /\ co[t].step = "waitingDecision"
    /\ co[t].waitFor <= node[Coord][t].ci
    /\ LET c == [co[t] EXCEPT !.result = co[t].decision.kind, !.waitFor = 0] IN
       IF co[t].sched = "ok"
       THEN /\ SetCo(t, [c EXCEPT !.step = "acks"])
            /\ net' = net \cup {co[t].decision}
       ELSE /\ SetCo(t, done(c, "SteppingDown"))
            /\ UNCHANGED net
    /\ UNCHANGED <<top, node, answers, attempts>>

\* (mutant) an acknowledgement counts before it is majority committed
acknowledges_NoMajority(s, u, d) ==
    /\ node[s][u].mode # "down"
    /\ Last(s, u).part.kind = IF d = AbortDecision THEN "aborted" ELSE "committed"

\* Node (s, u) carried decision d out and the entry is majority committed.
acknowledges(s, u, d) ==
    /\ node[s][u].mode # "down"
    /\ Majority(s, u).part.kind = IF d = AbortDecision THEN "aborted" ELSE "committed"

(* sendDecisionToShard is resolved: the participant carried the decision    *)
(* out or, as a vote-abort error, does not know the transaction.  An abort  *)
(* that finds the transaction open drops it and waits for nothing.          *)
registerAck(t, s) ==
    /\ co[t].step = "acks"
    /\ co[t].sched = "ok"
    /\ s \notin co[t].acks
    /\ LET acks == co[t].acks \cup {s} IN
       SetCo(t, [co[t] EXCEPT !.acks = acks, !.step = IF acks = Shards THEN "deleting" ELSE @])
    /\ \E u \in Targets(s, t) :
         \/ acknowledges(s, u, co[t].decision) /\ UNCHANGED node
         \/ NoSuchTransaction(s, u) /\ UNCHANGED node
         \/ /\ co[t].decision = AbortDecision
            /\ node[s][u].open /\ node[s][u].mode # "down"
            /\ SetNode(s, u, [node[s][u] EXCEPT !.open = FALSE])
    /\ UNCHANGED <<top, net, answers, attempts>>

(* deleteCoordinatorDoc, with w:1.  The delete matches a document with a    *)
(* decision; if it matches none or cannot write it is not tried again.      *)
deleteCoordinatorDoc(t) ==
    /\ co[t].step = "deleting"
    /\ co[t].sched = "ok"
    /\ IF CanAcceptWrites(Coord, t) /\ Last(Coord, t).doc \in Decisions
       THEN SetNode(Coord, t, Wrote(Coord, t, NoDoc, Last(Coord, t).part))
       ELSE UNCHANGED node
    /\ SetCo(t, done(co[t], "none"))
    /\ UNCHANGED <<top, net, answers, attempts>>

\* The step-down shut the scheduler down: whatever is retried on it ends.
interrupted(t) ==
    /\ co[t].step \in {"writingDecision", "acks", "deleting"}
    /\ co[t].sched = "stepdown"
    /\ SetCo(t, done(co[t], "SteppingDown"))
    /\ UNCHANGED <<top, node, net, answers, attempts>>

-----------------------------------------------------------------------------
\* The participants (prepareTransaction, commitTransaction, abortTransaction)

(* Command c of a coordinator is before node (s, t).  A local command runs  *)
(* while its coordinator waits for it, also one that began before the       *)
(* scheduler was shut down.                                                 *)
Received(s, t, c) ==
    IF s # Coord THEN c \in net
    ELSE \/ co[t].step = "votes" /\ c = PrepareCommand
         \/ co[t].step = "acks" /\ c = co[t].decision

\* prepareTransaction of an open transaction
prepareTransaction(s, t) ==
    /\ CanAcceptWrites(s, t)
    /\ node[s][t].open
    /\ Received(s, t, PrepareCommand)
    /\ \E ts \in PrepareTimestamps[s] :
         SetNode(s, t, [Wrote(s, t, Last(s, t).doc, Record("prepared", ts)) EXCEPT !.open = FALSE])
    /\ UNCHANGED <<top, co, net, answers, attempts>>

(* commitTransaction of a prepared transaction: the prepare entry must be   *)
(* majority committed and the commit timestamp not be before it.            *)
commitPreparedTransaction(s, t) ==
    /\ CanAcceptWrites(s, t)
    /\ Last(s, t).part.kind = "prepared"
    /\ Majority(s, t).part.kind = "prepared"
    /\ \E ts \in Timestamps :
         /\ Received(s, t, CommitDecision(ts))
         /\ ts >= Last(s, t).part.ts
         /\ SetNode(s, t, Wrote(s, t, Last(s, t).doc, Record("committed", ts)))
    /\ UNCHANGED <<top, co, net, answers, attempts>>

\* abortTransaction of a prepared transaction
abortPreparedTransaction(s, t) ==
    /\ CanAcceptWrites(s, t)
    /\ Last(s, t).part.kind = "prepared"
    /\ Received(s, t, AbortDecision)
    /\ SetNode(s, t, Wrote(s, t, Last(s, t).doc, Record("aborted", 0)))
    /\ UNCHANGED <<top, co, net, answers, attempts>>

(* An open transaction is dropped from memory: by its lifetime limit, a     *)
(* killed session, a failed command, the router's abort or the              *)
(* coordinator's.  Nothing is logged.                                       *)
abortUnprepared(s, t) ==
    /\ node[s][t].open
    /\ SetNode(s, t, [node[s][t] EXCEPT !.open = FALSE])
    /\ UNCHANGED <<top, co, net, answers, attempts>>

-----------------------------------------------------------------------------
\* Replication and failover, in the part the commit protocol sees, and what the
\* TransactionCoordinatorService does on them

\* updateLastCommittedOpTimeAndWallTime: the commit point of the latest primary moves up
\* to an entry of its own term.
Replicate(s) ==
    LET t == top[s] IN
    /\ node[s][t].mode \in {"primary", "attempting"}
    /\ \E i \in (node[s][t].ci + 1)..Len(node[s][t].log) :
         /\ node[s][t].log[i].term = t
         /\ SetNode(s, t, [node[s][t] EXCEPT !.ci = i])
    /\ UNCHANGED <<top, co, net, answers, attempts>>

\* What MaxDisruptions bounds; a set without a primary is going to fail over.
disruptions ==
    attempts + Cardinality(UNION {{s} \X (2..top[s]) : s \in Shards})
             + Cardinality({s \in Shards : node[s][top[s]].mode = "down"})

\* Another primary of s may be elected, within the bounds.
mayFailOver(s) ==
    /\ top[s] < MaxTerm[s]
    /\ node[s][top[s]].mode = "down" \/ disruptions < MaxDisruptions

(* A new primary: it has all that is majority committed and some of the     *)
(* rest of one branch, and writes a no-op in its term.  Transactions open   *)
(* on the old primary are unknown to it.  On the coordinator's shard        *)
(* onStepUp schedules the recovery.                                         *)
stepUp(s) ==
    /\ mayFailOver(s)
    /\ LET ci == node[s][top[s]].ci
           t == top[s] + 1
       IN /\ \E u \in 1..top[s] : \E k \in ci..Len(node[s][u].log) :
               LET log == node[s][u].log IN
               /\ SubSeq(log, 1, ci) = SubSeq(node[s][top[s]].log, 1, ci)
               /\ SetNode(s, t, [mode |-> "primary", open |-> FALSE, ci |-> ci,
                                 log |-> Append(SubSeq(log, 1, k),
                                                Entry(t, log[k].doc, log[k].part))])
          /\ top' = [top EXCEPT ![s] = t]
          /\ IF s = Coord THEN SetCo(t, Coordinator("recovering")) ELSE UNCHANGED co
    /\ UNCHANGED <<net, answers, attempts>>

\* (mutant) a recovered coordinator writes the participant list whatever its document says
continueCommit_Restart(doc) ==
    IF doc = NoDoc THEN Coordinator("absent") ELSE Coordinator("writingParticipants")

(* continueCommit.  A document with a decision skips the first phase, one   *)
(* without starts over at the participant list.                             *)
continueCommit(doc) ==
    CASE doc = NoDoc -> Coordinator("absent")
      [] doc = ListDoc -> Coordinator("writingParticipants")
      [] doc \in Decisions -> [Coordinator("writingDecision") EXCEPT !.decision = doc]

(* The recovery task: all of the node's oplog is majority committed, so the *)
(* documents it reads are final.                                            *)
recoverCoordinators(t) ==
    /\ co[t].step = "recovering"
    /\ co[t].sched = "ok"
    /\ node[Coord][t].ci = Len(node[Coord][t].log)
    /\ SetCo(t, continueCommit(Last(Coord, t).doc))
    /\ UNCHANGED <<top, node, net, answers, attempts>>

(* The wait fails on a step-down or a step-down attempt: exitStepUp with an *)
(* error, after which the catalog refuses every request.                    *)
recoveryFails(t) ==
    /\ co[t].step = "recovering"
    /\ node[Coord][t].mode \in {"attempting", "down"}
    /\ SetCo(t, [co[t] EXCEPT !.step = "failed"])
    /\ UNCHANGED <<top, node, net, answers, attempts>>

(* A primary steps down: open transactions are aborted.  On the             *)
(* coordinator's shard TransactionCoordinatorService::onStepDown shuts the  *)
(* scheduler down and cancels a coordinator that has not started.           *)
stepDown(s, t) ==
    /\ node[s][t].mode \in {"primary", "attempting"}
    /\ t < top[s] \/ mayFailOver(s)
    /\ SetNode(s, t, [node[s][t] EXCEPT !.mode = "down", !.open = FALSE])
    /\ IF s # Coord THEN UNCHANGED co
       ELSE LET c == [co[t] EXCEPT !.sched = "stepdown", !.prep = IF @ = "ok" THEN "stepdown" ELSE @]
            IN SetCo(t, CASE c.step \in {"absent", "failed", "done"} -> co[t]
                          [] c.step = "inactive" -> done(c, "SteppingDown")
                          [] OTHER -> c)
    /\ UNCHANGED <<top, net, answers, attempts>>

(* replSetStepDown on the coordinator's shard: while the attempt waits for  *)
(* secondaries the node takes no writes; it aborted what was open when it   *)
(* took the RSTL.                                                           *)
startStepDownAttempt(t) ==
    /\ attempts < MaxAttempts /\ disruptions < MaxDisruptions
    /\ node[Coord][t].mode = "primary"
    /\ SetNode(Coord, t, [node[Coord][t] EXCEPT !.mode = "attempting", !.open = FALSE])
    /\ attempts' = attempts + 1
    /\ UNCHANGED <<top, co, net, answers>>

\* The attempt fails and the node goes on as primary.
stepDownAttemptFails(t) ==
    /\ node[Coord][t].mode = "attempting"
    /\ SetNode(Coord, t, [node[Coord][t] EXCEPT !.mode = "primary"])
    /\ UNCHANGED <<top, co, net, answers, attempts>>

-----------------------------------------------------------------------------
\* (mutant) a prepared transaction is not waited for
recoverFromParticipant_NoWait(t) ==
    /\ node[Coord][t].mode \in {"primary", "attempting"}
    /\ co[t].step \in {"absent", "done"}
    /\ answers' = answers \cup {IF Last(Coord, t).part.kind = "committed" THEN "commit" ELSE "abort"}
    /\ SetNode(Coord, t, [node[Coord][t] EXCEPT !.open = FALSE])
    /\ UNCHANGED <<top, co, net, attempts>>

(* coordinateCommitTransaction when the catalog, once step-up has           *)
(* completed, has no coordinator, or when the coordinator was cancelled:    *)
(* the outcome is that of the local participant.  An open one is aborted; a *)
(* prepared one is waited for.                                              *)
recoverFromParticipant(t) ==
    /\ node[Coord][t].mode \in {"primary", "attempting"}
    /\ co[t].step \in {"absent", "done"}
    /\ Last(Coord, t).part.kind # "prepared"
    /\ answers' = answers \cup {IF Last(Coord, t).part.kind = "committed" THEN "commit" ELSE "abort"}
    /\ SetNode(Coord, t, [node[Coord][t] EXCEPT !.open = FALSE])
    /\ UNCHANGED <<top, co, net, attempts>>

CoordinatorStep(t) ==
    \/ runCommit(t) \/ cancelIfCommitNotYetStarted(t) \/ deadline(t)
    \/ persistParticipants(t) \/ persistParticipantsInterrupted(t) \/ participantsDurable(t)
    \/ waitForMajorityFails(t) \/ prepareInterrupted(t) \/ persistDecision(t)
    \/ decisionDurable(t) \/ deleteCoordinatorDoc(t) \/ interrupted(t)
    \/ recoverCoordinators(t) \/ recoveryFails(t) \/ recoverFromParticipant(t)
    \/ startStepDownAttempt(t) \/ stepDownAttemptFails(t)
    \/ \E s \in Shards : registerVote(t, s) \/ registerAck(t, s)

ParticipantStep(s, t) ==
    \/ prepareTransaction(s, t) \/ commitPreparedTransaction(s, t)
    \/ abortPreparedTransaction(s, t) \/ abortUnprepared(s, t) \/ stepDown(s, t)

Next ==
    \/ \E t \in 1..top[Coord] : CoordinatorStep(t)
    \/ \E s \in Shards : \/ Replicate(s) \/ stepUp(s)
                          \/ \E t \in 1..top[s] : ParticipantStep(s, t)

Spec == Init /\ [][Next]_vars

-----------------------------------------------------------------------------
Steps == {"absent", "recovering", "failed", "inactive", "writingParticipants",
          "waitingParticipants", "votes", "writingDecision", "waitingDecision", "acks",
          "deleting", "done"}
Results == {"none", "commit", "abort", "NoSuchTransaction", "ReachedAbortDecision",
            "SteppingDown", "PrimarySteppedDown"}

Nodes == [mode : {"none", "primary", "attempting", "down"}, open : BOOLEAN,
          log : Seq([term : Nat, doc : Docs, part : Records]), ci : Nat]
Coordinators ==
    [step : Steps, prep : {"ok", "abort", "stepdown"}, sched : {"ok", "stepdown"},
     votes : [Shards -> {NoVote} \cup [kind : {"commit"}, ts : Timestamps]],
     decision : {NoDecision} \cup Decisions, waitFor : Nat, acks : SUBSET Shards,
     result : Results]

\* The shape of the state; commit points are positions of their oplogs.
TypeOK ==
    /\ top \in [Shards -> Nat]
    /\ \A s \in Shards :
         /\ top[s] \in 1..MaxTerm[s]
         /\ DOMAIN node[s] = 1..MaxTerm[s]
         /\ \A t \in 1..MaxTerm[s] : /\ node[s][t] \in Nodes
                                     /\ node[s][t].ci \in 1..Len(node[s][t].log)
    /\ co \in [1..MaxTerm[Coord] -> Coordinators]
    /\ net \subseteq {PrepareCommand} \cup Decisions
    /\ answers \subseteq {"commit", "abort"}
    /\ attempts \in 0..MaxAttempts

\* What is majority committed on shard s.
Durable(s) == Majority(s, top[s])

\* Some node of shard s has an oplog entry with this state of the participant.
Logged(s, kind) ==
    \E t \in 1..top[s] : \E i \in 1..Len(node[s][t].log) : node[s][t].log[i].part.kind = kind

(* A shard commits, even on a node whose entry may still roll back, only    *)
(* when every participant is durably prepared or committed: whatever fails  *)
(* over, all of them will commit (sendCommit after decisionDurable).        *)
CommitOnlyIfAllPrepared ==
    (\E s \in Shards : Logged(s, "committed"))
        => \A s \in Shards : Durable(s).part.kind \in {"prepared", "committed"}

(* However many coordinators worked on the transaction, at the same time or *)
(* after failovers, they sent one decision with one commit timestamp.       *)
OneDecision == \A c, d \in net \cap Decisions : c = d

(* The commit timestamp is not before any participant's prepare timestamp:  *)
(* commitPreparedTransaction refuses an earlier one, for ever.              *)
CommitTimestampCovers ==
    \A d \in net : d.kind = "commit" =>
        \A s \in Shards : Durable(s).part.kind = "prepared" => Durable(s).part.ts <= d.ts

(* While a participant is durably prepared, every node of the coordinator's *)
(* shard that could be elected has the coordinator's document: the w:1      *)
(* delete comes after acknowledgements that cannot roll back.               *)
PreparedIsRecoverable ==
    (\E s \in Shards : Durable(s).part.kind = "prepared")
        => LET n == node[Coord][top[Coord]] IN
           \A i \in n.ci..Len(n.log) : n.log[i].doc # NoDoc

\* Someone was told this outcome: by a coordinator's future or from the local participant.
Told(kind) ==
    kind \in answers \/ \E t \in 1..top[Coord] : co[t].step = "done" /\ co[t].result = kind

(* What coordinateCommitTransaction answered is what happens: after         *)
(* "committed" every participant is durably prepared or committed and none  *)
(* aborts; after "aborted" no participant ever commits.                     *)
AnswersAgree ==
    /\ Told("commit") => \A s \in Shards : /\ Durable(s).part.kind \in {"prepared", "committed"}
                                            /\ ~Logged(s, "aborted")
    /\ Told("abort") => \A s \in Shards : ~Logged(s, "committed")
    /\ ~(Told("commit") /\ Told("abort"))

\* The abstract view: what is durable on each shard, and the decision once it is sent.
DurableState(s) ==
    IF Durable(s).part.kind = "none" THEN "working" ELSE Durable(s).part.kind
SentOutcome ==
    IF \E d \in net : d.kind = "commit" THEN "commit"
    ELSE IF AbortDecision \in net THEN "abort" ELSE "none"

Abstract == INSTANCE AtomicCommit
                WITH state <- [s \in Shards |-> DurableState(s)], outcome <- SentOutcome

(* Coordinators that fail over, old primaries that go on and commands that  *)
(* arrive late or twice implement an atomic commit: every step is a step of *)
(* AtomicCommit or changes nothing of what is durable.                      *)
ImplementsAtomicCommit == Abstract!Spec

-----------------------------------------------------------------------------
(* What goes on by itself: the chain of a coordinator, and what a           *)
(* participant does with the commands it receives.                          *)
CoordinatorProgress(t) ==
    \/ persistParticipants(t) \/ persistParticipantsInterrupted(t) \/ participantsDurable(t)
    \/ prepareInterrupted(t) \/ persistDecision(t) \/ decisionDurable(t)
    \/ deleteCoordinatorDoc(t) \/ interrupted(t) \/ recoverCoordinators(t)
    \/ \E s \in Shards : registerVote(t, s) \/ registerAck(t, s)
ParticipantProgress(s, t) ==
    prepareTransaction(s, t) \/ commitPreparedTransaction(s, t) \/ abortPreparedTransaction(s, t)

(* Fairness: the executors run what is scheduled, replication progresses on *)
(* the latest primary, a set without a primary elects one, an attempt to    *)
(* step down ends, the participants are reachable and handle what they      *)
(* receive.  Nothing forces a client's request, a deadline or a failure.    *)
Fairness ==
    /\ \A t \in 1..MaxTerm[Coord] :
         WF_vars(CoordinatorProgress(t)) /\ WF_vars(stepDownAttemptFails(t))
    /\ \A s \in Shards :
         /\ WF_vars(Replicate(s))
         /\ WF_vars(node[s][top[s]].mode = "down" /\ stepUp(s))
         /\ \A t \in 1..MaxTerm[s] : WF_vars(ParticipantProgress(s, t))

FairSpec == Spec /\ Fairness

(* The latest primary of the coordinator's shard gave the commit up without *)
(* a durable decision: its first phase was cut off by the deadline while    *)
(* the list was written, or a majority wait met a step-down attempt.        *)
Abandoned ==
    LET c == co[top[Coord]] IN
    \/ c.step = "failed"
    \/ c.step = "done" /\ c.result \in {"ReachedAbortDecision", "PrimarySteppedDown"}

(* A participant that is durably prepared holds its locks until it learns   *)
(* the decision.  It learns it in the end, unless the commit was abandoned: *)
(* failovers of either shard, late and repeated commands, and a deadline    *)
(* that expires while votes are missing do not hold the decision up.        *)
ResolvesUnlessAbandoned ==
    \A s \in Shards :
        (Durable(s).part.kind = "prepared") ~> (Durable(s).part.kind # "prepared" \/ Abandoned)
=============================================================================
