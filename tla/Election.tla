------------------------------ MODULE Election ------------------------------
(***************************************************************************)
(* Protocol version 1 elections of a replica set (db/repl): terms, the     *)
(* vote each member casts and makes durable, candidacy with its optional   *)
(* dry run, winning and draining, and the ways a primary steps down: when  *)
(* it hears of a newer term or sees no majority, and by replSetStepDown.   *)
(*                                                                         *)
(* A step is what a member does while it holds ReplicationCoordinatorImpl's*)
(* _mutex (or the lastVote collection); whatever the code does in two      *)
(* critical sections is two steps.  The configuration is fixed and every   *)
(* member votes.  Optimes are abstracted to their terms: of two optimes    *)
(* with the same term either may be the later one.                         *)
(***************************************************************************)
EXTENDS Integers, FiniteSets

CONSTANTS
    Server,                  \* the voting members
    None,                    \* no candidate
    Electable,               \* members with a priority above 0
    Command,                 \* threads that run replSetStepDown commands, one after another
    MemberOf,                \* the member that a thread of Command runs on
    Restartable,             \* members that may crash and restart
    Reasons,                 \* why elections start: subset of StartReason
    MaxTerm,                 \* bound: no member runs for a higher term
    MaxRestarts,             \* bound on the number of restarts
    VoteWhileSteppingDown    \* FALSE leaves out the executions in which a member that is
                             \* already stepping down handles a vote request for a newer
                             \* term: the request is then received after the step-down

StartReason == {"dryRun", "skipDryRun"}

ASSUME ServerAssumption == IsFiniteSet(Server) /\ None \notin Server
ASSUME MemberAssumption == Electable \cup Restartable \subseteq Server
ASSUME CommandAssumption == MemberOf \in [Command -> Server]
ASSUME BoundAssumption == MaxTerm \in Nat /\ MaxRestarts \in Nat
ASSUME ReasonAssumption == Reasons \subseteq StartReason
ASSUME VoteAssumption == VoteWhileSteppingDown \in BOOLEAN

VARIABLES
    \* TopologyCoordinator
    term, role, leaderMode, lastVote,
    \* local.replset.election, on disk
    lastVoteDoc,
    \* term of the last applied oplog entry
    lastApplied,
    \* the election a candidate is running, and its VoteRequester
    phase, electionTerm, votes, responded, staleTerm,
    \* replSetRequestVotes commands (real elections), sent or being handled
    requests,
    \* step-down: _pendingTermUpdateDuringStepDown (0: none), _stepDownFinish scheduled,
    \* the replSetStepDown commands, holder of the RSTL in mode X, applier draining
    pendingTerm, hbStepDown, command, previousLeaderMode, termAtStart, rstl, draining,
    \* history: votes that left the voter, elections won, restarts so far, and the commands
    \* that waited when the abort of another one ended the attempt of their member
    castVotes, elected, restarts, modeReset

coordVars == <<term, role, leaderMode, lastVote>>
candVars == <<phase, electionTerm, votes, responded, staleTerm>>
cmdVars == <<command, previousLeaderMode, termAtStart, modeReset>>
stepDownVars == <<pendingTerm, hbStepDown, cmdVars, rstl, draining>>
history == <<castVotes, elected, restarts>>
vars == <<coordVars, lastVoteDoc, lastApplied, candVars, requests, stepDownVars, history>>

LastVote(t, c) == [term |-> t, candidate |-> c]
MaxOf(a, b) == IF a > b THEN a ELSE b

\* (mutant) one vote short of a majority is enough
IsMajority_OneShort(S) == 2 * (Cardinality(S) + 1) > Cardinality(Server)

\* getMajorityVoteCount() votes or more
IsMajority(S) == 2 * Cardinality(S) > Cardinality(Server)

Init ==
    /\ term = [n \in Server |-> 0]
    /\ role = [n \in Server |-> "Follower"]
    /\ leaderMode = [n \in Server |-> "NotLeader"]
    /\ lastVote = [n \in Server |-> LastVote(0, None)]
    /\ lastVoteDoc = [n \in Server |-> LastVote(0, None)]
    /\ lastApplied = [n \in Server |-> 0]
    /\ phase = [n \in Server |-> "none"]
    /\ electionTerm = [n \in Server |-> 0]
    /\ votes = [n \in Server |-> {}]
    /\ responded = [n \in Server |-> {}]
    /\ staleTerm = [n \in Server |-> FALSE]
    /\ requests = {}
    /\ pendingTerm = [n \in Server |-> 0]
    /\ hbStepDown = [n \in Server |-> FALSE]
    /\ command = [c \in Command |-> "none"]
    /\ previousLeaderMode = [c \in Command |-> "NotLeader"]
    /\ termAtStart = [c \in Command |-> 0]
    /\ rstl = [n \in Server |-> "free"]
    /\ draining = [n \in Server |-> FALSE]
    /\ castVotes = {}
    /\ elected = {}
    /\ restarts = 0
    /\ modeReset = {}

-----------------------------------------------------------------------------
\* (mutant) a primary takes the new term over at once
updateTerm_Primary(n, t) ==
    /\ term' = [term EXCEPT ![n] = MaxOf(@, t)]
    /\ UNCHANGED <<leaderMode, pendingTerm, hbStepDown>>

\* (mutant) a step-down attempt by command keeps the heartbeat step-down from starting
updateTerm_NotScheduled(n, t) ==
    LET stepsDown == t > term[n] /\ role[n] = "Leader" IN
    /\ term' = IF stepsDown THEN term ELSE [term EXCEPT ![n] = MaxOf(@, t)]
    /\ pendingTerm' = IF stepsDown THEN [pendingTerm EXCEPT ![n] = MaxOf(@, t)] ELSE pendingTerm
    /\ leaderMode' = IF stepsDown THEN [leaderMode EXCEPT ![n] = "SteppingDown"] ELSE leaderMode
    /\ hbStepDown' = IF stepsDown /\ leaderMode[n] \in {"LeaderElect", "Master"}
                     THEN [hbStepDown EXCEPT ![n] = TRUE] ELSE hbStepDown

(* ReplicationCoordinatorImpl::_updateTerm_inlock.  A primary does not take *)
(* the term over: it records it and starts an unconditional step-down,      *)
(* unless one is under way already.                                         *)
updateTerm(n, t) ==
    \/ /\ t <= term[n]
       /\ UNCHANGED <<term, leaderMode, pendingTerm, hbStepDown>>
    \/ /\ t > term[n]
       /\ role[n] # "Leader"
       /\ term' = [term EXCEPT ![n] = t]
       /\ UNCHANGED <<leaderMode, pendingTerm, hbStepDown>>
    \/ /\ t > term[n]
       /\ role[n] = "Leader"
       /\ pendingTerm' = [pendingTerm EXCEPT ![n] = MaxOf(@, t)]
       /\ leaderMode' = [leaderMode EXCEPT ![n] = "SteppingDown"]
       /\ hbStepDown' = [hbStepDown EXCEPT ![n] = @ \/ leaderMode[n] # "SteppingDown"]
       /\ UNCHANGED term

\* A heartbeat or other metadata tells n of a term m has reached.
LearnTerm(n, m) ==
    /\ \E t \in (term[n] + 1)..term[m] : updateTerm(n, t)
    /\ UNCHANGED <<role, lastVote, lastVoteDoc, lastApplied, candVars, requests, cmdVars,
                   rstl, draining, history>>

\* n applies what its sync source m has, as a follower or while it catches up and drains
\* after winning an election.  The metadata of a batch is processed before its entries:
\* n has learned the term of what it applies.
SyncFrom(n, m) ==
    /\ role[n] # "Leader" \/ draining[n]
    /\ lastApplied[n] < lastApplied[m]
    /\ lastApplied[m] <= term[n]
    /\ lastApplied' = [lastApplied EXCEPT ![n] = lastApplied[m]]
    /\ UNCHANGED <<coordVars, lastVoteDoc, candVars, requests, stepDownVars, history>>

-----------------------------------------------------------------------------
(* Candidacy.                                                               *)

\* No election is under way: the vote requester is reset.
endElection(n) ==
    /\ phase' = [phase EXCEPT ![n] = "none"]
    /\ electionTerm' = [electionTerm EXCEPT ![n] = 0]
    /\ votes' = [votes EXCEPT ![n] = {}]
    /\ responded' = [responded EXCEPT ![n] = {}]
    /\ staleTerm' = [staleTerm EXCEPT ![n] = FALSE]

\* LoseElectionGuardV1: processLoseElection and reset of the vote requester.
loseElection(n) ==
    /\ role' = [role EXCEPT ![n] = "Follower"]
    /\ endElection(n)

\* A new VoteRequester; the candidate's own vote is counted from the start.
startVoteRequester(n, ph, t) ==
    /\ phase' = [phase EXCEPT ![n] = ph]
    /\ electionTerm' = [electionTerm EXCEPT ![n] = t]
    /\ votes' = [votes EXCEPT ![n] = {n}]
    /\ responded' = [responded EXCEPT ![n] = {}]
    /\ staleTerm' = [staleTerm EXCEPT ![n] = FALSE]

\* (mutant) the term is incremented again
startRealElection_Twice(n, newTerm) ==
    /\ term' = [term EXCEPT ![n] = newTerm + 1]
    /\ lastVote' = [lastVote EXCEPT ![n] = LastVote(newTerm + 1, n)]
    /\ startVoteRequester(n, "storing", newTerm + 1)

\* _startRealElection_inlock: updateTerm (never a primary here), voteForMyselfV1, and the
\* vote is scheduled to be written.
startRealElection(n, newTerm) ==
    /\ term' = [term EXCEPT ![n] = newTerm]
    /\ lastVote' = [lastVote EXCEPT ![n] = LastVote(newTerm, n)]
    /\ phase' = [phase EXCEPT ![n] = "storing"]
    /\ electionTerm' = [electionTerm EXCEPT ![n] = newTerm]
    /\ votes' = [votes EXCEPT ![n] = {}]
    /\ responded' = [responded EXCEPT ![n] = {}]
    /\ staleTerm' = [staleTerm EXCEPT ![n] = FALSE]

\* _startElectSelfIfEligibleV1, becomeCandidateIfElectable, _startElectSelfV1_inlock.
\* Whether the member is electable (sees a majority, is not in its stepdown period, is
\* fresh enough for a takeover) is left to chance.
StartElection(n) ==
    /\ n \in Electable
    /\ role[n] = "Follower"
    /\ term[n] < MaxTerm
    /\ role' = [role EXCEPT ![n] = "Candidate"]
    /\ \/ /\ "skipDryRun" \in Reasons
          /\ startRealElection(n, term[n] + 1)
       \/ /\ "dryRun" \in Reasons
          /\ startVoteRequester(n, "dryRun", term[n])
          /\ UNCHANGED <<term, lastVote>>
    /\ UNCHANGED <<leaderMode, lastVoteDoc, lastApplied, requests, stepDownVars, history>>

\* (mutant) only enough votes or a newer term end the wait for responses
sufficientResponses_Endless(n) == staleTerm[n] \/ IsMajority(votes[n])

\* VoteRequester::Algorithm::hasReceivedSufficientResponses
sufficientResponses(n) ==
    \/ staleTerm[n]
    \/ IsMajority(votes[n])
    \/ responded[n] = Server \ {n}

\* A response is wanted while the requester of that phase and term is still gathering.
awaits(n, ph, t, v) ==
    /\ phase[n] = ph
    /\ electionTerm[n] = t
    /\ v \notin responded[n]
    /\ ~sufficientResponses(n)

\* VoteRequester::Algorithm::processResponse; the outcome is ignored when not awaited.
processResponse(n, ph, t, v, granted, respTerm) ==
    IF awaits(n, ph, t, v)
    THEN /\ responded' = [responded EXCEPT ![n] = @ \cup {v}]
         /\ votes' = [votes EXCEPT ![n] = IF granted THEN @ \cup {v} ELSE @]
         /\ staleTerm' = [staleTerm EXCEPT ![n] = @ \/ respTerm > t]
    ELSE UNCHANGED <<responded, votes, staleTerm>>

\* The requests still outstanding are lost or time out, or their responses are; the
\* voters may act on them all the same.  A single loss that comes earlier commutes with
\* the responses of the others.
ResponsesFail(n) ==
    /\ phase[n] \in {"dryRun", "requesting"}
    /\ ~sufficientResponses(n)
    /\ responded' = [responded EXCEPT ![n] = Server \ {n}]
    /\ UNCHANGED <<coordVars, lastVoteDoc, lastApplied, phase, electionTerm, votes,
                   staleTerm, requests, stepDownVars, history>>

\* v answers a dry run: it learns the term and says whether it could vote yes.  Nothing
\* is recorded, so request, answer and its counting are one step.
DryRunResponse(n, v) ==
    /\ phase[n] = "dryRun"
    /\ v # n
    /\ awaits(n, "dryRun", electionTerm[n], v)
    /\ updateTerm(v, electionTerm[n])
    /\ \E granted \in BOOLEAN :
        /\ granted => electionTerm[n] >= term'[v] /\ lastApplied[n] >= lastApplied[v]
        /\ ~granted => electionTerm[n] < term'[v] \/ lastApplied[n] <= lastApplied[v]
        /\ processResponse(n, "dryRun", electionTerm[n], v, granted, term'[v])
    /\ UNCHANGED <<role, lastVote, lastVoteDoc, lastApplied, phase, electionTerm, requests,
                   cmdVars, rstl, draining, history>>

\* VoteRequester::Algorithm::getResult = kSuccessfullyElected
successfullyElected(n) == ~staleTerm[n] /\ IsMajority(votes[n])

\* _processDryRunResult
ProcessDryRunResult(n) ==
    /\ phase[n] = "dryRun"
    /\ sufficientResponses(n)
    /\ IF term[n] = electionTerm[n] /\ successfullyElected(n)
       THEN startRealElection(n, electionTerm[n] + 1) /\ UNCHANGED role
       ELSE loseElection(n) /\ UNCHANGED <<term, lastVote>>
    /\ UNCHANGED <<leaderMode, lastVoteDoc, lastApplied, requests, stepDownVars, history>>

\* (mutant) the last writer wins
storeLastVote_Unordered(n, vote) == lastVoteDoc' = [lastVoteDoc EXCEPT ![n] = vote]

\* storeLocalLastVoteDocument replaces the document only by a vote of a higher term.
storeLastVote(n, vote) ==
    lastVoteDoc' = IF vote.term > lastVoteDoc[n].term
                   THEN [lastVoteDoc EXCEPT ![n] = vote] ELSE lastVoteDoc

\* _writeLastVoteForMyElection, before it takes the mutex back.  Writing the collection
\* needs the RSTL in mode IX.
WriteLastVoteForMyElection(n) ==
    /\ phase[n] = "storing"
    /\ rstl[n] = "free"
    /\ storeLastVote(n, LastVote(electionTerm[n], n))
    /\ phase' = [phase EXCEPT ![n] = "stored"]
    /\ UNCHANGED <<coordVars, lastApplied, electionTerm, votes, responded, staleTerm,
                   requests, stepDownVars, history>>

\* The write fails, for instance because the operation is interrupted.
WriteLastVoteFails(n) ==
    /\ phase[n] = "storing"
    /\ loseElection(n)
    /\ UNCHANGED <<term, leaderMode, lastVote, lastVoteDoc, lastApplied, requests, stepDownVars,
                   history>>

\* The candidate's request to one voter, and how far the voter has got with it.
VoteRequest(c, v, t, applied, state) ==
    [candidate |-> c, voter |-> v, term |-> t, lastApplied |-> applied, state |-> state]

\* ... and after: superseded, or the vote requester starts.
StartVoteRequester(n) ==
    /\ phase[n] = "stored"
    /\ IF term[n] = electionTerm[n]
       THEN /\ startVoteRequester(n, "requesting", electionTerm[n])
            /\ requests' = requests \cup
                   {VoteRequest(n, v, electionTerm[n], lastApplied[n], "sent") :
                        v \in Server \ {n}}
            /\ castVotes' = castVotes \cup {<<n, electionTerm[n], n>>}
            /\ UNCHANGED role
       ELSE loseElection(n) /\ UNCHANGED <<requests, castVotes>>
    /\ UNCHANGED <<term, leaderMode, lastVote, lastVoteDoc, lastApplied, stepDownVars,
                   elected, restarts>>

\* _onVoteRequestComplete, _postWonElectionUpdateMemberState, processWinElection
OnVoteRequestComplete(n) ==
    /\ phase[n] = "requesting"
    /\ sufficientResponses(n)
    /\ IF term[n] = electionTerm[n] /\ successfullyElected(n)
       THEN /\ role' = [role EXCEPT ![n] = "Leader"]
            /\ leaderMode' = [leaderMode EXCEPT ![n] = "LeaderElect"]
            /\ draining' = [draining EXCEPT ![n] = TRUE]
            /\ elected' = elected \cup {<<n, term[n]>>}
            /\ endElection(n)
       ELSE loseElection(n) /\ UNCHANGED <<leaderMode, draining, elected>>
    /\ UNCHANGED <<term, lastVote, lastVoteDoc, lastApplied, requests, pendingTerm,
                   hbStepDown, cmdVars, rstl, castVotes, restarts>>

-----------------------------------------------------------------------------
(* The voter: ReplicationCoordinatorImpl::processReplSetRequestVotes.       *)

inState(r, state) == VoteRequest(r.candidate, r.voter, r.term, r.lastApplied, state)

moveRequest(r, state) == (requests \ {r}) \cup {inState(r, state)}

\* updateTerm, which waits for the step-down this very call started.
ReceiveVoteRequest(r) ==
    LET v == r.voter
        newer == r.term > term[v] /\ role[v] = "Leader"
        steppingDown == leaderMode[v] = "SteppingDown"
    IN
    /\ r.state = "sent"
    /\ newer /\ steppingDown => VoteWhileSteppingDown
    /\ updateTerm(v, r.term)
    /\ requests' = moveRequest(r, IF newer /\ ~steppingDown THEN "waiting" ELSE "voting")
    /\ UNCHANGED <<role, lastVote, lastVoteDoc, lastApplied, candVars, cmdVars, rstl,
                   draining, history>>

\* (mutant) does not look at the last vote
canGrant_Again(r) ==
    r.term >= term[r.voter] /\ r.lastApplied >= lastApplied[r.voter]

\* TopologyCoordinator::processReplSetRequestVotes
canGrant(r) ==
    /\ r.term >= term[r.voter]
    /\ r.lastApplied >= lastApplied[r.voter]
    /\ lastVote[r.voter].term # r.term

mustGrant(r) == canGrant(r) /\ r.lastApplied > lastApplied[r.voter]

GrantVote(r) ==
    /\ r.state = "voting"
    /\ canGrant(r)
    /\ lastVote' = [lastVote EXCEPT ![r.voter] = LastVote(r.term, r.candidate)]
    /\ requests' = moveRequest(r, "granted")
    /\ UNCHANGED <<term, role, leaderMode, lastVoteDoc, lastApplied, candVars,
                   stepDownVars, history>>

RefuseVote(r) ==
    /\ r.state = "voting"
    /\ ~mustGrant(r)
    /\ requests' = requests \ {r}
    /\ processResponse(r.candidate, "requesting", r.term, r.voter, FALSE, term[r.voter])
    /\ UNCHANGED <<coordVars, lastVoteDoc, lastApplied, phase, electionTerm, stepDownVars,
                   history>>

\* The vote is made durable outside the mutex, then the response leaves.
StoreVote(r) ==
    LET v == r.voter IN
    /\ r.state = "granted"
    /\ rstl[v] = "free"
    /\ storeLastVote(v, LastVote(r.term, r.candidate))
    /\ requests' = requests \ {r}
    /\ castVotes' = castVotes \cup {<<v, r.term, r.candidate>>}
    /\ processResponse(r.candidate, "requesting", r.term, v, TRUE, r.term)
    /\ UNCHANGED <<coordVars, lastApplied, phase, electionTerm, stepDownVars, elected,
                   restarts>>

\* The write fails: the vote stays in memory, and the candidate gets an error.
StoreVoteFails(r) ==
    /\ r.state = "granted"
    /\ requests' = requests \ {r}
    /\ UNCHANGED <<coordVars, lastVoteDoc, lastApplied, candVars, stepDownVars, history>>

-----------------------------------------------------------------------------
(* Drain mode: signalDrainComplete, with the RSTL in mode X.                *)

canCompleteTransitionToPrimary(n) == leaderMode[n] \in {"LeaderElect", "AttemptingStepDown"}

\* The first oplog entry of the new term is written after the mutex was released.
DrainBegin(n) ==
    /\ draining[n]
    /\ rstl[n] = "free"
    /\ canCompleteTransitionToPrimary(n)
    /\ rstl' = [rstl EXCEPT ![n] = "drain"]
    /\ draining' = [draining EXCEPT ![n] = FALSE]
    /\ lastApplied' = [lastApplied EXCEPT ![n] = term[n]]
    /\ UNCHANGED <<coordVars, lastVoteDoc, candVars, requests, pendingTerm, hbStepDown,
                   cmdVars, history>>

\* completeTransitionToPrimary fails if a step-down began meanwhile.
DrainFinish(n) ==
    /\ rstl[n] = "drain"
    /\ rstl' = [rstl EXCEPT ![n] = "free"]
    /\ leaderMode' = [leaderMode EXCEPT ![n] = IF @ = "LeaderElect" THEN "Master" ELSE @]
    /\ UNCHANGED <<term, role, lastVote, lastVoteDoc, lastApplied, candVars, requests,
                   pendingTerm, hbStepDown, cmdVars, draining, history>>

-----------------------------------------------------------------------------
(* Step-down.                                                               *)

\* finishUnconditionalStepDown
finishUnconditionalStepDown(n) ==
    /\ role' = [role EXCEPT ![n] = "Follower"]
    /\ leaderMode' = [leaderMode EXCEPT ![n] = "NotLeader"]
    /\ draining' = [draining EXCEPT ![n] = FALSE]

\* Vote requests of n waiting for a step-down go on when it ends.
signalStepDownFinished(n) ==
    requests' = {IF r.voter = n /\ r.state = "waiting" THEN inState(r, "voting") ELSE r :
                    r \in requests}

\* checkMemberTimeouts: a primary that sees no majority of the members starts to step down.
StepDownSelf(n) ==
    /\ role[n] = "Leader"
    /\ leaderMode[n] # "SteppingDown"
    /\ leaderMode' = [leaderMode EXCEPT ![n] = "SteppingDown"]
    /\ hbStepDown' = [hbStepDown EXCEPT ![n] = TRUE]
    /\ UNCHANGED <<term, role, lastVote, lastVoteDoc, lastApplied, candVars, requests,
                   pendingTerm, cmdVars, rstl, draining, history>>

\* _stepDownFinish obtains the RSTL.  Its early return is for a step-down that a
\* reconfiguration has finished already.
HeartbeatStepDownBegin(n) ==
    /\ hbStepDown[n]
    /\ rstl[n] = "free"
    /\ rstl' = [rstl EXCEPT ![n] = "heartbeat"]
    /\ UNCHANGED <<coordVars, lastVoteDoc, lastApplied, candVars, requests, pendingTerm,
                   hbStepDown, cmdVars, draining, history>>

\* (mutant) the term that caused the step-down is forgotten
takePendingTerm_Forgotten(n) == UNCHANGED term /\ pendingTerm' = [pendingTerm EXCEPT ![n] = 0]

\* The update of the term that was put off when the step-down began.
takePendingTerm(n) ==
    /\ term' = [term EXCEPT ![n] = MaxOf(@, pendingTerm[n])]
    /\ pendingTerm' = [pendingTerm EXCEPT ![n] = 0]

\* ... and finishes after yielding the locks of prepared transactions without the mutex.
HeartbeatStepDownFinish(n) ==
    /\ rstl[n] = "heartbeat"
    /\ finishUnconditionalStepDown(n)
    /\ takePendingTerm(n)
    /\ hbStepDown' = [hbStepDown EXCEPT ![n] = FALSE]
    /\ rstl' = [rstl EXCEPT ![n] = "free"]
    /\ signalStepDownFinished(n)
    /\ UNCHANGED <<lastVote, lastVoteDoc, lastApplied, candVars, cmdVars, history>>

\* A replSetStepDown command: prepareForStepDownAttempt, under the RSTL.  Another command may
\* still be there that began when the member was primary before.
StepDownBegin(c) ==
    LET n == MemberOf[c] IN
    /\ command[c] = "none"
    /\ rstl[n] = "free"
    /\ leaderMode[n] \in {"LeaderElect", "Master"}
    /\ command' = [command EXCEPT ![c] = "trying"]
    /\ previousLeaderMode' = [previousLeaderMode EXCEPT ![c] = leaderMode[n]]
    /\ termAtStart' = [termAtStart EXCEPT ![c] = term[n]]
    /\ leaderMode' = [leaderMode EXCEPT ![n] = "AttemptingStepDown"]
    /\ rstl' = [rstl EXCEPT ![n] = "command"]
    /\ UNCHANGED <<term, role, lastVote, lastVoteDoc, lastApplied, candVars, requests,
                   pendingTerm, hbStepDown, modeReset, draining, history>>

\* (mutant) does not notice another step-down
mayStartStepDown_Stepping(c) ==
    role[MemberOf[c]] = "Leader" /\ term[MemberOf[c]] = termAtStart[c]

\* tryToStartStepDown throws if the node stepped down for another reason.
mayStartStepDown(c) ==
    LET n == MemberOf[c] IN
    role[n] = "Leader" /\ leaderMode[n] # "SteppingDown" /\ term[n] = termAtStart[c]

\* It succeeds when forced or when enough members have caught up.
TryStepDownSucceeds(c) ==
    LET n == MemberOf[c] IN
    /\ command[c] = "trying"
    /\ mayStartStepDown(c)
    /\ leaderMode[n] = "AttemptingStepDown"
    /\ leaderMode' = [leaderMode EXCEPT ![n] = "SteppingDown"]
    /\ command' = [command EXCEPT ![c] = "finishing"]
    /\ UNCHANGED <<term, role, lastVote, lastVoteDoc, lastApplied, candVars, requests,
                   pendingTerm, hbStepDown, previousLeaderMode, termAtStart, modeReset, rstl,
                   draining, history>>

\* Members have not caught up: release the RSTL and wait.  Without a write in the current
\* term isSafeToStepDown does not wait.
TryStepDownWaits(c) ==
    LET n == MemberOf[c] IN
    /\ command[c] = "trying"
    /\ mayStartStepDown(c)
    /\ leaderMode[n] = "AttemptingStepDown"
    /\ lastApplied[n] = term[n]
    /\ command' = [command EXCEPT ![c] = "waiting"]
    /\ rstl' = [rstl EXCEPT ![n] = "free"]
    /\ UNCHANGED <<coordVars, lastVoteDoc, lastApplied, candVars, requests, pendingTerm,
                   hbStepDown, previousLeaderMode, termAtStart, modeReset, draining, history>>

StepDownReacquires(c) ==
    LET n == MemberOf[c] IN
    /\ command[c] = "waiting"
    /\ rstl[n] = "free"
    /\ command' = [command EXCEPT ![c] = "trying"]
    /\ rstl' = [rstl EXCEPT ![n] = "command"]
    /\ UNCHANGED <<coordVars, lastVoteDoc, lastApplied, candVars, requests, pendingTerm,
                   hbStepDown, previousLeaderMode, termAtStart, modeReset, draining, history>>

\* (mutant) the mode is set back also when another step-down has begun
abortFn_Always(c) ==
    /\ leaderMode' = [leaderMode EXCEPT ![MemberOf[c]] = previousLeaderMode[c]]
    /\ modeReset' = modeReset \ {c}

\* What prepareForStepDownAttempt returns: the attempt that is under way ends, whosever it is.
abortFn(c) ==
    LET n == MemberOf[c]
        others == {d \in Command \ {c} : MemberOf[d] = n /\ command[d] = "waiting"}
    IN
    IF leaderMode[n] = "AttemptingStepDown"
    THEN /\ leaderMode' = [leaderMode EXCEPT ![n] = previousLeaderMode[c]]
         /\ modeReset' = (modeReset \ {c}) \cup others
    ELSE /\ UNCHANGED leaderMode
         /\ modeReset' = modeReset \ {c}

\* onExitGuard: timed out, interrupted, or stepped down for another reason.
StepDownAborts(c) ==
    /\ command[c] = "trying"
    /\ abortFn(c)
    /\ command' = [command EXCEPT ![c] = "none"]
    /\ rstl' = [rstl EXCEPT ![MemberOf[c]] = "free"]
    /\ UNCHANGED <<term, role, lastVote, lastVoteDoc, lastApplied, candVars, requests,
                   pendingTerm, hbStepDown, previousLeaderMode, termAtStart, draining,
                   history>>

\* Unlike _stepDownFinish, the command leaves _pendingTermUpdateDuringStepDown alone.
StepDownFinish(c) ==
    LET n == MemberOf[c] IN
    /\ command[c] = "finishing"
    /\ finishUnconditionalStepDown(n)
    /\ command' = [command EXCEPT ![c] = "none"]
    /\ modeReset' = modeReset \ {c}
    /\ rstl' = [rstl EXCEPT ![n] = "free"]
    /\ UNCHANGED <<term, lastVote, lastVoteDoc, lastApplied, candVars, requests, pendingTerm,
                   hbStepDown, previousLeaderMode, termAtStart, history>>

-----------------------------------------------------------------------------
\* (mutant) the last vote is not loaded
loadLastVote_Forgotten(n) == lastVote' = [lastVote EXCEPT ![n] = LastVote(0, None)]

loadLastVote(n) == lastVote' = [lastVote EXCEPT ![n] = lastVoteDoc[n]]

(* Crash and restart: _startLoadLocalConfig loads the last vote, and        *)
(* _finishLoadLocalConfig takes the later of the terms of the last vote and *)
(* the last oplog entry.  Applied entries that were not journaled are lost. *)
crash(n) ==
    LET here == {c \in Command : MemberOf[c] = n} IN
    /\ \E applied \in 0..lastApplied[n] :
        /\ lastApplied' = [lastApplied EXCEPT ![n] = applied]
        /\ term' = [term EXCEPT ![n] = MaxOf(applied, lastVoteDoc[n].term)]
    /\ loadLastVote(n)
    /\ leaderMode' = [leaderMode EXCEPT ![n] = "NotLeader"]
    /\ loseElection(n)
    /\ requests' = {r \in requests : r.voter = n => r.state = "sent"}
    /\ pendingTerm' = [pendingTerm EXCEPT ![n] = 0]
    /\ hbStepDown' = [hbStepDown EXCEPT ![n] = FALSE]
    /\ command' = [c \in Command |-> IF c \in here THEN "none" ELSE command[c]]
    /\ modeReset' = modeReset \ here
    /\ rstl' = [rstl EXCEPT ![n] = "free"]
    /\ draining' = [draining EXCEPT ![n] = FALSE]
    /\ UNCHANGED <<lastVoteDoc, previousLeaderMode, termAtStart, castVotes, elected>>

Restart(n) ==
    /\ n \in Restartable
    /\ restarts < MaxRestarts
    /\ restarts' = restarts + 1
    /\ crash(n)

\* tryToStartStepDown asserts that the member is still attempting to step down; the process
\* ends, and is started again, if another command has set the mode back.
StepDownAssertionFails(c) ==
    /\ command[c] = "trying"
    /\ mayStartStepDown(c)
    /\ leaderMode[MemberOf[c]] # "AttemptingStepDown"
    /\ crash(MemberOf[c])
    /\ UNCHANGED restarts

-----------------------------------------------------------------------------
ServerNext(n) ==
    \/ \E m \in Server : LearnTerm(n, m) \/ SyncFrom(n, m)
    \/ StartElection(n)
    \/ \E v \in Server : DryRunResponse(n, v)
    \/ ResponsesFail(n) \/ ProcessDryRunResult(n)
    \/ WriteLastVoteForMyElection(n) \/ WriteLastVoteFails(n)
    \/ StartVoteRequester(n) \/ OnVoteRequestComplete(n)
    \/ DrainBegin(n) \/ DrainFinish(n)
    \/ StepDownSelf(n) \/ HeartbeatStepDownBegin(n) \/ HeartbeatStepDownFinish(n)
    \/ Restart(n)

CommandNext(c) ==
    \/ StepDownBegin(c) \/ TryStepDownSucceeds(c) \/ TryStepDownWaits(c)
    \/ StepDownReacquires(c) \/ StepDownAborts(c) \/ StepDownFinish(c)
    \/ StepDownAssertionFails(c)

Next ==
    \/ \E n \in Server : ServerNext(n)
    \/ \E c \in Command : CommandNext(c)
    \/ \E r \in requests : ReceiveVoteRequest(r)
    \/ \E r \in requests : GrantVote(r)
    \/ \E r \in requests : RefuseVote(r)
    \/ \E r \in requests : StoreVote(r)
    \/ \E r \in requests : StoreVoteFails(r)

Spec == Init /\ [][Next]_vars

-----------------------------------------------------------------------------
(* Fairness.  A thread that is in the middle of a transition goes on (the RSTL is   *)
(* released by whoever holds it), a step-down command ends, and a vote request that  *)
(* nobody answers times out.  Nothing obliges a member to run for election, to       *)
(* learn a term or to answer.                                                        *)
ElectionProgress(n) ==
    \/ ProcessDryRunResult(n) \/ WriteLastVoteForMyElection(n) \/ StartVoteRequester(n)
    \/ OnVoteRequestComplete(n) \/ ResponsesFail(n)

StepDownProgress(n) ==
    \/ HeartbeatStepDownBegin(n) \/ HeartbeatStepDownFinish(n) \/ DrainFinish(n)
    \/ \E c \in Command : MemberOf[c] = n /\ (StepDownAborts(c) \/ StepDownFinish(c))

FairSpec ==
    /\ Spec
    /\ \A n \in Server : WF_vars(ElectionProgress(n)) /\ WF_vars(StepDownProgress(n))

-----------------------------------------------------------------------------
(* Type invariant. *)
Term == 0..MaxTerm
Vote == [term : Term, candidate : Server \cup {None}]
Request ==
    [candidate : Server, voter : Server, term : Term, lastApplied : Term,
     state : {"sent", "waiting", "voting", "granted"}]

TypeOK ==
    /\ term \in [Server -> Term]
    /\ role \in [Server -> {"Follower", "Candidate", "Leader"}]
    /\ leaderMode \in [Server -> {"NotLeader", "LeaderElect", "Master",
                                  "AttemptingStepDown", "SteppingDown"}]
    /\ lastVote \in [Server -> Vote]
    /\ lastVoteDoc \in [Server -> Vote]
    /\ lastApplied \in [Server -> Term]
    /\ phase \in [Server -> {"none", "dryRun", "storing", "stored", "requesting"}]
    /\ electionTerm \in [Server -> Term]
    /\ votes \in [Server -> SUBSET Server]
    /\ responded \in [Server -> SUBSET Server]
    /\ staleTerm \in [Server -> BOOLEAN]
    /\ requests \subseteq Request
    /\ pendingTerm \in [Server -> Term]
    /\ hbStepDown \in [Server -> BOOLEAN]
    /\ command \in [Command -> {"none", "trying", "waiting", "finishing"}]
    /\ previousLeaderMode \in [Command -> {"NotLeader", "LeaderElect", "Master"}]
    /\ termAtStart \in [Command -> Term]
    /\ rstl \in [Server -> {"free", "drain", "heartbeat", "command"}]
    /\ draining \in [Server -> BOOLEAN]
    /\ castVotes \subseteq (Server \X Term \X Server)
    /\ elected \subseteq (Server \X Term)
    /\ restarts \in 0..MaxRestarts
    /\ modeReset \subseteq Command

(* "The topology coordinator grants only one vote per term": a member's votes that    *)
(* left it, its vote for itself included, name one candidate per term, also across    *)
(* restarts and step-downs.                                                           *)
OneVotePerTerm ==
    \A a, b \in castVotes : a[1] = b[1] /\ a[2] = b[2] => a[3] = b[3]

(* Election safety: at most one member ever wins the election of a term.              *)
OnePrimaryPerTerm ==
    \A a, b \in elected : a[2] = b[2] => a = b

(* The lastVote document covers every vote that left the member, although it is       *)
(* written outside the mutex by racing threads: a restart cannot forget a vote.       *)
VoteIsDurable ==
    \A c \in castVotes :
        \/ lastVoteDoc[c[1]].term > c[2]
        \/ lastVoteDoc[c[1]] = LastVote(c[2], c[3])

(* "we don't want to report that we are primary in the new term": a primary is only   *)
(* ever primary in the term it was elected for, whatever terms it hears of meanwhile. *)
PrimaryInElectedTerm ==
    \A n \in Server : role[n] = "Leader" => <<n, term[n]>> \in elected

(* "If attemptStepDown() succeeds, we are guaranteed that no concurrent step up or    *)
(* step down can happen afterwards", and the assertions of the step-down paths: when  *)
(* a step-down is being finished the member is still stepping down; a retry of an     *)
(* attempt that was overtaken by a step-down and a new election of the member does    *)
(* not take the new primary's mode for its own.  The assertion of tryToStartStepDown  *)
(* fails in one way only: an overtaken command that ends sets the mode back although  *)
(* the attempt is another command's.  And no primary is left refusing writes for an   *)
(* attempt that nobody makes any more.                                                *)
StepDownNotPreempted ==
    /\ \A n \in Server : rstl[n] = "heartbeat" => leaderMode[n] = "SteppingDown"
    /\ \A c \in Command :
        /\ command[c] = "finishing" =>
                /\ leaderMode[MemberOf[c]] = "SteppingDown"
                /\ rstl[MemberOf[c]] = "command" /\ ~hbStepDown[MemberOf[c]]
        /\ command[c] = "trying" /\ mayStartStepDown(c) /\ c \notin modeReset
                => leaderMode[MemberOf[c]] = "AttemptingStepDown"
    /\ \A n \in Server : leaderMode[n] = "AttemptingStepDown" =>
            \E c \in Command \ modeReset :
                MemberOf[c] = n /\ command[c] \in {"trying", "waiting"} /\ termAtStart[c] = term[n]

(* A member that began to step down stops being primary: the heartbeat step-down,     *)
(* drain completion and the step-down command wait for each other on the RSTL, and    *)
(* each of them lets go of it.                                                        *)
StepDownCompletes ==
    \A n \in Server : leaderMode[n] = "SteppingDown" ~> leaderMode[n] = "NotLeader"

(* Every candidacy ends, won or lost: no path through the callbacks of an election    *)
(* leaves the member a candidate for ever (LoseElectionGuardV1).                      *)
CandidacyEnds ==
    \A n \in Server : role[n] = "Candidate" ~> role[n] # "Candidate"
=============================================================================
