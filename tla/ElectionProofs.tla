--------------------------- MODULE ElectionProofs ---------------------------
(***************************************************************************)
(* Theorems about Election, for any number of members, any bounds and any  *)
(* of the reasons and roles that the constants allow.                      *)
(***************************************************************************)
EXTENDS Election, FiniteSetTheorems, TLAPS

-----------------------------------------------------------------------------
(* Moving a request on replaces it by one of the same kind. *)
LEMMA MoveRequest ==
    ASSUME NEW r, NEW state, requests' = moveRequest(r, state), NEW q \in requests'
    PROVE  q \in requests \/ /\ q.voter = r.voter /\ q.candidate = r.candidate
                             /\ q.term = r.term /\ q.state = state
  <1>1. q \in requests \/ q = inState(r, state)
    BY DEF moveRequest
  <1> QED BY <1>1 DEF inState, VoteRequest

(* Type correctness.  A dry run asks about the term after electionTerm, so  *)
(* that term must be within the bound.                                      *)

DryRunBelowMax == \A n \in Server : phase[n] = "dryRun" => electionTerm[n] < MaxTerm

TypeInv == TypeOK /\ DryRunBelowMax

(* What updateTerm may do, whoever calls it. *)
LEMMA UpdateTermType ==
    ASSUME TypeOK, NEW v \in Server, NEW t \in Term, updateTerm(v, t)
    PROVE  /\ term' \in [Server -> Term]
           /\ leaderMode' \in [Server -> {"NotLeader", "LeaderElect", "Master",
                                          "AttemptingStepDown", "SteppingDown"}]
           /\ pendingTerm' \in [Server -> Term]
           /\ hbStepDown' \in [Server -> BOOLEAN]
  <1>1. /\ term' \in [Server -> Term]
        /\ pendingTerm' \in [Server -> Term]
    BY BoundAssumption DEF TypeOK, updateTerm, Term, MaxOf
  <1>2. leaderMode' \in [Server -> {"NotLeader", "LeaderElect", "Master",
                                    "AttemptingStepDown", "SteppingDown"}]
    BY DEF TypeOK, updateTerm
  <1>3. hbStepDown' = hbStepDown
        \/ hbStepDown' = [hbStepDown EXCEPT ![v] = hbStepDown[v] \/ leaderMode[v] # "SteppingDown"]
    BY DEF updateTerm
  <1>4. (hbStepDown[v] \/ leaderMode[v] # "SteppingDown") \in BOOLEAN
    OBVIOUS
  <1>5. hbStepDown' \in [Server -> BOOLEAN]
    BY <1>3, <1>4 DEF TypeOK
  <1> QED BY <1>1, <1>2, <1>5

(* Counting a response touches the candidate's requester only. *)
LEMMA ProcessResponseType ==
    ASSUME TypeOK, NEW n \in Server, NEW ph, NEW t, NEW v \in Server, NEW granted \in BOOLEAN,
           NEW u, processResponse(n, ph, t, v, granted, u)
    PROVE  /\ responded' \in [Server -> SUBSET Server]
           /\ votes' \in [Server -> SUBSET Server]
           /\ staleTerm' \in [Server -> BOOLEAN]
  <1>1. CASE awaits(n, ph, t, v)
    <2>1. /\ responded' \in [Server -> SUBSET Server]
          /\ votes' \in [Server -> SUBSET Server]
      <3>1. /\ responded' = [responded EXCEPT ![n] = responded[n] \cup {v}]
            /\ votes' = [votes EXCEPT ![n] = IF granted THEN votes[n] \cup {v} ELSE votes[n]]
        BY <1>1 DEF processResponse
      <3>2. /\ responded[n] \cup {v} \in SUBSET Server
            /\ (IF granted THEN votes[n] \cup {v} ELSE votes[n]) \in SUBSET Server
        BY DEF TypeOK
      <3> QED BY <3>1, <3>2 DEF TypeOK
    <2>2. staleTerm' = [staleTerm EXCEPT ![n] = @ \/ u > t]
      BY <1>1 DEF processResponse
    <2>3. (staleTerm[n] \/ u > t) \in BOOLEAN
      OBVIOUS
    <2>4. staleTerm' \in [Server -> BOOLEAN]
      BY <2>2, <2>3 DEF TypeOK
    <2> QED BY <2>1, <2>4
  <1>2. CASE ~awaits(n, ph, t, v)
    BY <1>2 DEF TypeOK, processResponse
  <1> QED BY <1>1, <1>2

(* Starting and ending an election keeps the types of the election's state. *)
LEMMA RealElectionType ==
    ASSUME TypeOK, NEW n \in Server, NEW t \in Term, startRealElection(n, t)
    PROVE  /\ term' \in [Server -> Term]
           /\ lastVote' \in [Server -> Vote]
           /\ phase' \in [Server -> {"none", "dryRun", "storing", "stored", "requesting"}]
           /\ electionTerm' \in [Server -> Term]
           /\ votes' \in [Server -> SUBSET Server]
           /\ responded' \in [Server -> SUBSET Server]
           /\ staleTerm' \in [Server -> BOOLEAN]
  <1>1. LastVote(t, n) \in Vote
    BY DEF LastVote, Vote
  <1> QED BY <1>1 DEF TypeOK, startRealElection

(* _startVoteRequester_inlock keeps the types of the election's state. *)
LEMMA VoteRequesterType ==
    ASSUME TypeOK, NEW n \in Server, NEW t \in Term, NEW ph \in {"dryRun", "requesting"},
           startVoteRequester(n, ph, t)
    PROVE  /\ phase' \in [Server -> {"none", "dryRun", "storing", "stored", "requesting"}]
           /\ electionTerm' \in [Server -> Term]
           /\ votes' \in [Server -> SUBSET Server]
           /\ responded' \in [Server -> SUBSET Server]
           /\ staleTerm' \in [Server -> BOOLEAN]
  BY DEF TypeOK, startVoteRequester

(* LoseElectionGuardV1 keeps the types of the election's state. *)
LEMMA EndElectionType ==
    ASSUME TypeOK, NEW n \in Server, endElection(n)
    PROVE  /\ phase' \in [Server -> {"none", "dryRun", "storing", "stored", "requesting"}]
           /\ electionTerm' \in [Server -> Term]
           /\ votes' \in [Server -> SUBSET Server]
           /\ responded' \in [Server -> SUBSET Server]
           /\ staleTerm' \in [Server -> BOOLEAN]
           /\ DryRunBelowMax => DryRunBelowMax'
  BY BoundAssumption DEF TypeOK, endElection, DryRunBelowMax, Term

(* storeLocalLastVoteDocument stores votes only. *)
LEMMA StoreLastVoteType ==
    ASSUME TypeOK, NEW n \in Server, NEW vote \in Vote, storeLastVote(n, vote)
    PROVE  lastVoteDoc' \in [Server -> Vote]
  BY DEF TypeOK, storeLastVote

(* A fresh replica set is well typed. *)
LEMMA InitType == Init => TypeInv
  BY BoundAssumption, ServerAssumption
  DEF Init, TypeInv, TypeOK, DryRunBelowMax, Term, Vote, Request, LastVote

(* Every step keeps the types, and the terms within the bound. *)
LEMMA NextType == TypeInv /\ [Next]_vars => TypeInv'
  <1> SUFFICES ASSUME TypeInv, [Next]_vars PROVE TypeInv'
    OBVIOUS
  <1> USE BoundAssumption, ServerAssumption DEF TypeInv, Term
  <1>a. ASSUME NEW n \in Server, NEW m \in Server, LearnTerm(n, m) PROVE TypeInv'
    <2>1. PICK t \in (term[n] + 1)..term[m] : updateTerm(n, t)
      BY <1>a DEF LearnTerm
    <2>2. t \in Term
      BY DEF TypeOK
    <2> QED BY <1>a, <2>1, <2>2, UpdateTermType
      DEF TypeOK, DryRunBelowMax, LearnTerm, candVars, cmdVars, history
  <1>b. ASSUME NEW n \in Server, NEW m \in Server, SyncFrom(n, m) PROVE TypeInv'
    BY <1>b DEF TypeOK, DryRunBelowMax, SyncFrom, coordVars, candVars, stepDownVars,
                cmdVars, history
  <1>c. ASSUME NEW n \in Server, StartElection(n) PROVE TypeInv'
    <2>1. CASE startRealElection(n, term[n] + 1)
      <3>1. term[n] + 1 \in Term
        BY <1>c DEF StartElection, TypeOK
      <3> QED BY <1>c, <2>1, <3>1, RealElectionType
        DEF StartElection, TypeOK, DryRunBelowMax, startRealElection, stepDownVars, cmdVars, history
    <2>2. CASE startVoteRequester(n, "dryRun", term[n]) /\ UNCHANGED <<term, lastVote>>
      BY <1>c, <2>2, VoteRequesterType
      DEF StartElection, TypeOK, DryRunBelowMax, startVoteRequester, stepDownVars, cmdVars, history
    <2> QED BY <1>c, <2>1, <2>2 DEF StartElection
  <1>d. ASSUME NEW n \in Server, NEW v \in Server, DryRunResponse(n, v) PROVE TypeInv'
    <2>1. PICK granted \in BOOLEAN :
            processResponse(n, "dryRun", electionTerm[n], v, granted, term'[v])
      BY <1>d DEF DryRunResponse
    <2>2. electionTerm[n] \in Term
      BY DEF TypeOK
    <2>3. updateTerm(v, electionTerm[n])
      BY <1>d DEF DryRunResponse
    <2>4. /\ responded' \in [Server -> SUBSET Server]
          /\ votes' \in [Server -> SUBSET Server]
          /\ staleTerm' \in [Server -> BOOLEAN]
      BY <2>1, ProcessResponseType
    <2> QED BY <1>d, <2>2, <2>3, <2>4, UpdateTermType
      DEF TypeOK, DryRunBelowMax, DryRunResponse, cmdVars, history
  <1>e. ASSUME NEW n \in Server, ResponsesFail(n) PROVE TypeInv'
    BY <1>e DEF TypeOK, DryRunBelowMax, ResponsesFail, coordVars, stepDownVars, cmdVars, history
  <1>f. ASSUME NEW n \in Server, ProcessDryRunResult(n) PROVE TypeInv'
    <2>1. CASE startRealElection(n, electionTerm[n] + 1) /\ UNCHANGED role
      <3>1. electionTerm[n] + 1 \in Term
        BY <1>f DEF ProcessDryRunResult, TypeOK, DryRunBelowMax
      <3> QED BY <1>f, <2>1, <3>1, RealElectionType
        DEF ProcessDryRunResult, TypeOK, DryRunBelowMax, startRealElection, stepDownVars,
            cmdVars, history
    <2>2. CASE loseElection(n) /\ UNCHANGED <<term, lastVote>>
      BY <1>f, <2>2, EndElectionType
      DEF ProcessDryRunResult, loseElection, TypeOK, stepDownVars, cmdVars, history
    <2> QED BY <1>f, <2>1, <2>2 DEF ProcessDryRunResult
  <1>g. ASSUME NEW n \in Server, WriteLastVoteForMyElection(n) PROVE TypeInv'
    <2>1. LastVote(electionTerm[n], n) \in Vote
      BY DEF TypeOK, LastVote, Vote
    <2>2. lastVoteDoc' \in [Server -> Vote]
      BY <1>g, <2>1, StoreLastVoteType DEF WriteLastVoteForMyElection
    <2> QED BY <1>g, <2>2
      DEF TypeOK, DryRunBelowMax, WriteLastVoteForMyElection, coordVars, stepDownVars,
          cmdVars, history
  <1>h. ASSUME NEW n \in Server, StartVoteRequester(n) PROVE TypeInv'
    <2>1. CASE term[n] = electionTerm[n]
      <3>1. electionTerm[n] \in Term
        BY DEF TypeOK
      <3>2. requests' \subseteq Request
        BY <1>h, <2>1 DEF StartVoteRequester, VoteRequest, Request, TypeOK
      <3>3. castVotes' \subseteq Server \X Term \X Server
        BY <1>h, <2>1, <3>1 DEF StartVoteRequester, TypeOK
      <3>4. startVoteRequester(n, "requesting", electionTerm[n])
        BY <1>h, <2>1 DEF StartVoteRequester
      <3>5. DryRunBelowMax'
        BY <3>4 DEF TypeOK, DryRunBelowMax, startVoteRequester
      <3>6. UNCHANGED <<term, role, leaderMode, lastVote, lastVoteDoc, lastApplied, stepDownVars,
                        elected, restarts>>
        BY <1>h, <2>1 DEF StartVoteRequester
      <3>7. TypeOK'
        BY <3>1, <3>2, <3>3, <3>4, <3>6, VoteRequesterType DEF TypeOK, stepDownVars, cmdVars
      <3> QED BY <3>5, <3>7
    <2>2. CASE term[n] # electionTerm[n]
      BY <1>h, <2>2, EndElectionType
      DEF StartVoteRequester, loseElection, TypeOK, stepDownVars, cmdVars
    <2> QED BY <2>1, <2>2
  <1>i. ASSUME NEW n \in Server, OnVoteRequestComplete(n) PROVE TypeInv'
    <2>1. endElection(n)
      BY <1>i DEF OnVoteRequestComplete, loseElection
    <2>2. elected' \subseteq Server \X Term
      BY <1>i DEF OnVoteRequestComplete, TypeOK
    <2>3. /\ role' \in [Server -> {"Follower", "Candidate", "Leader"}]
          /\ leaderMode' \in [Server -> {"NotLeader", "LeaderElect", "Master",
                                         "AttemptingStepDown", "SteppingDown"}]
          /\ draining' \in [Server -> BOOLEAN]
      <3>1. /\ \E new \in {"Follower", "Leader"} : role' = [role EXCEPT ![n] = new]
            /\ leaderMode' = [leaderMode EXCEPT ![n] = "LeaderElect"] \/ UNCHANGED leaderMode
            /\ draining' = [draining EXCEPT ![n] = TRUE] \/ UNCHANGED draining
        BY <1>i DEF OnVoteRequestComplete, loseElection
      <3>2. role' \in [Server -> {"Follower", "Candidate", "Leader"}]
        BY <3>1 DEF TypeOK
      <3>3. leaderMode' \in [Server -> {"NotLeader", "LeaderElect", "Master",
                                       "AttemptingStepDown", "SteppingDown"}]
        BY <3>1 DEF TypeOK
      <3>4. draining' \in [Server -> BOOLEAN]
        BY <3>1 DEF TypeOK
      <3> QED BY <3>2, <3>3, <3>4
    <2> QED BY <1>i, <2>1, <2>2, <2>3, EndElectionType DEF TypeOK, OnVoteRequestComplete, cmdVars
  <1>j. ASSUME NEW n \in Server,
               DrainBegin(n) \/ DrainFinish(n) \/ HeartbeatStepDownBegin(n) \/ StepDownSelf(n)
        PROVE TypeInv'
    <2>1. CASE DrainBegin(n)
      BY <2>1 DEF TypeOK, DryRunBelowMax, DrainBegin, coordVars, candVars, cmdVars, history
    <2>2. CASE DrainFinish(n)
      BY <2>2 DEF TypeOK, DryRunBelowMax, DrainFinish, candVars, cmdVars, history
    <2>3. CASE HeartbeatStepDownBegin(n)
      BY <2>3 DEF TypeOK, DryRunBelowMax, HeartbeatStepDownBegin, coordVars, candVars,
                  cmdVars, history
    <2>4. CASE StepDownSelf(n)
      BY <2>4 DEF TypeOK, DryRunBelowMax, StepDownSelf, candVars, cmdVars, history
    <2> QED BY <1>j, <2>1, <2>2, <2>3, <2>4
  <1>k. ASSUME NEW c \in Command,
               \/ StepDownBegin(c) \/ TryStepDownSucceeds(c) \/ TryStepDownWaits(c)
               \/ StepDownReacquires(c) \/ StepDownAborts(c) \/ StepDownFinish(c)
        PROVE TypeInv'
    <2>0. MemberOf[c] \in Server
      BY CommandAssumption
    <2>1. CASE StepDownBegin(c)
      BY <2>0, <2>1 DEF TypeOK, DryRunBelowMax, StepDownBegin, candVars, history
    <2>2. CASE TryStepDownSucceeds(c)
      BY <2>0, <2>2 DEF TypeOK, DryRunBelowMax, TryStepDownSucceeds, candVars, history
    <2>3. CASE TryStepDownWaits(c)
      BY <2>0, <2>3 DEF TypeOK, DryRunBelowMax, TryStepDownWaits, coordVars, candVars, history
    <2>6. CASE StepDownReacquires(c)
      BY <2>0, <2>6 DEF TypeOK, DryRunBelowMax, StepDownReacquires, coordVars, candVars, history
    <2>4. CASE StepDownAborts(c)
      <3>1. /\ modeReset' \subseteq Command
            /\ leaderMode' = leaderMode
               \/ leaderMode' = [leaderMode EXCEPT ![MemberOf[c]] = previousLeaderMode[c]]
        BY <2>4 DEF TypeOK, StepDownAborts, abortFn
      <3> QED BY <2>0, <2>4, <3>1 DEF TypeOK, DryRunBelowMax, StepDownAborts, candVars, history
    <2>5. CASE StepDownFinish(c)
      BY <2>0, <2>5 DEF TypeOK, DryRunBelowMax, StepDownFinish, finishUnconditionalStepDown,
                        candVars, history
    <2> QED BY <1>k, <2>1, <2>2, <2>3, <2>4, <2>5, <2>6
  <1>l. ASSUME NEW n \in Server, HeartbeatStepDownFinish(n) PROVE TypeInv'
    <2>1. requests' \subseteq Request
      BY <1>l DEF TypeOK, HeartbeatStepDownFinish, signalStepDownFinished, inState,
                  VoteRequest, Request
    <2>2. term' \in [Server -> Term] /\ pendingTerm' \in [Server -> Term]
      BY <1>l DEF TypeOK, HeartbeatStepDownFinish, takePendingTerm, MaxOf
    <2> QED BY <1>l, <2>1, <2>2
      DEF TypeOK, DryRunBelowMax, HeartbeatStepDownFinish, finishUnconditionalStepDown,
          candVars, cmdVars, history
  <1>m. ASSUME NEW n \in Server, Restart(n) \/ (crash(n) /\ UNCHANGED restarts) PROVE TypeInv'
    <2>1. crash(n) /\ restarts' \in 0..MaxRestarts
      BY <1>m DEF Restart, TypeOK
    <2>2. /\ lastApplied' \in [Server -> Term] /\ term' \in [Server -> Term]
          /\ lastVote' \in [Server -> Vote] /\ requests' \subseteq Request
      BY <2>1 DEF TypeOK, crash, loadLastVote, MaxOf, Vote
    <2>3. /\ command' \in [Command -> {"none", "trying", "waiting", "finishing"}]
          /\ modeReset' \subseteq Command
      BY <2>1 DEF TypeOK, crash
    <2>4. endElection(n)
      BY <2>1 DEF crash, loseElection
    <2> QED BY <2>1, <2>2, <2>3, <2>4, EndElectionType DEF TypeOK, crash, loseElection
  <1>u. ASSUME NEW c \in Command, StepDownAssertionFails(c) PROVE TypeInv'
    BY <1>m, <1>u, CommandAssumption DEF StepDownAssertionFails
  <1>n. ASSUME NEW r \in requests, ReceiveVoteRequest(r) PROVE TypeInv'
    <2>1. r \in Request /\ r.voter \in Server /\ r.term \in Term
      BY DEF TypeOK, Request
    <2>2. updateTerm(r.voter, r.term)
      BY <1>n DEF ReceiveVoteRequest
    <2>3. requests' \subseteq Request
      BY <1>n, <2>1 DEF ReceiveVoteRequest, moveRequest, inState, VoteRequest, Request, TypeOK
    <2> QED BY <1>n, <2>1, <2>2, <2>3, UpdateTermType
      DEF TypeOK, DryRunBelowMax, ReceiveVoteRequest, candVars, cmdVars, history
  <1>o. ASSUME NEW r \in requests, GrantVote(r) PROVE TypeInv'
    BY <1>o DEF TypeOK, DryRunBelowMax, GrantVote, moveRequest, inState, VoteRequest, candVars, stepDownVars,
                cmdVars, history, Request, Vote, LastVote
  <1>p. ASSUME NEW r \in requests, RefuseVote(r) PROVE TypeInv'
    <2>1. r.voter \in Server /\ r.candidate \in Server
      BY DEF TypeOK, Request
    <2>2. processResponse(r.candidate, "requesting", r.term, r.voter, FALSE, term[r.voter])
      BY <1>p DEF RefuseVote
    <2> QED BY <1>p, <2>1, <2>2, ProcessResponseType
      DEF TypeOK, DryRunBelowMax, RefuseVote, coordVars, stepDownVars, cmdVars, history
  <1>q. ASSUME NEW r \in requests, StoreVote(r) PROVE TypeInv'
    <2>1. r.voter \in Server /\ r.candidate \in Server /\ r.term \in Term
      BY DEF TypeOK, Request
    <2>2. processResponse(r.candidate, "requesting", r.term, r.voter, TRUE, r.term)
      BY <1>q DEF StoreVote
    <2>3. LastVote(r.term, r.candidate) \in Vote
      BY <2>1 DEF LastVote, Vote
    <2>4. lastVoteDoc' \in [Server -> Vote]
      BY <1>q, <2>1, <2>3, StoreLastVoteType DEF StoreVote
    <2>5. /\ responded' \in [Server -> SUBSET Server]
          /\ votes' \in [Server -> SUBSET Server]
          /\ staleTerm' \in [Server -> BOOLEAN]
      BY <2>1, <2>2, ProcessResponseType
    <2> QED BY <1>q, <2>1, <2>4, <2>5
      DEF TypeOK, DryRunBelowMax, StoreVote, coordVars, stepDownVars, cmdVars
  <1>s. ASSUME NEW n \in Server, WriteLastVoteFails(n) PROVE TypeInv'
    BY <1>s, EndElectionType
    DEF WriteLastVoteFails, loseElection, TypeOK, stepDownVars, cmdVars, history
  <1>t. ASSUME NEW r \in requests, StoreVoteFails(r) PROVE TypeInv'
    BY <1>t DEF StoreVoteFails, TypeOK, DryRunBelowMax, coordVars, candVars, stepDownVars,
                cmdVars, history
  <1>r. CASE UNCHANGED vars
    BY <1>r DEF TypeOK, DryRunBelowMax, vars, coordVars, candVars, stepDownVars, cmdVars, history
  <1> QED
    BY <1>a, <1>b, <1>c, <1>d, <1>e, <1>f, <1>g, <1>h, <1>i, <1>j, <1>k, <1>l, <1>m, <1>n,
       <1>o, <1>p, <1>q, <1>r, <1>s, <1>t, <1>u DEF Next, ServerNext, CommandNext

(* Types, and the bound on terms: a dry run never starts at the last term, so the    *)
(* real election that follows it stays within the bound.                             *)
THEOREM TypeCorrect == Spec => []TypeOK
  <1>1. Spec => []TypeInv
    BY InitType, NextType, PTL DEF Spec
  <1> QED BY <1>1, PTL DEF TypeInv

-----------------------------------------------------------------------------
(* Votes.  A vote is first recorded in memory, then written to disk, and     *)
(* only then sent or counted; a member's vote for itself likewise.  Voted is *)
(* every trace that a vote of v may have left anywhere on this way.          *)

Voted(v, t, c) ==
    \/ <<v, t, c>> \in castVotes
    \/ lastVote[v] = LastVote(t, c)
    \/ lastVoteDoc[v] = LastVote(t, c)
    \/ \E r \in requests : r.state = "granted" /\ r.voter = v /\ r.term = t /\ r.candidate = c
    \/ phase[v] \in {"storing", "stored"} /\ electionTerm[v] = t /\ c = v

Candidate == Server \cup {None}

\* All traces of a vote in one term name the same candidate ...
VotesAgree ==
    \A v \in Server, t \in Term, c, d \in Candidate : Voted(v, t, c) /\ Voted(v, t, d) => c = d

\* ... and none is newer than the vote in memory, so a newer vote contradicts none.
VotesNotAhead ==
    \A v \in Server, t \in Term, c \in Candidate : Voted(v, t, c) => t <= lastVote[v].term

\* A member has reached the term of its last vote and of the requests it is voting on; the
\* requests that wait for its step-down are at most for the term it will then reach.
TermsReached ==
    /\ \A v \in Server : lastVote[v].term <= term[v]
    /\ \A r \in requests :
        /\ r.state \in {"voting", "granted"} => r.term <= term[r.voter]
        /\ r.state = "waiting" => r.term <= pendingTerm[r.voter]

\* lastVoteDoc[n] rules out another vote than c in term t.
Covers(n, t, c) == lastVoteDoc[n].term > t \/ lastVoteDoc[n] = LastVote(t, c)

OwnVoteStored == \A n \in Server : phase[n] = "stored" => Covers(n, electionTerm[n], n)

VoteInv ==
    TypeInv /\ VotesAgree /\ VotesNotAhead /\ TermsReached /\ OwnVoteStored /\ VoteIsDurable

-----------------------------------------------------------------------------
(* Elections.  Every vote a requester has counted was cast in its term, so   *)
(* an election is won by the cast votes of a majority.                       *)

VotersCast ==
    \A n \in Server : phase[n] = "requesting" =>
        \A v \in votes[n] : <<v, electionTerm[n], n>> \in castVotes

WonByMajority ==
    \A e \in elected : \E Q \in SUBSET Server :
        IsMajority(Q) /\ \A v \in Q : <<v, e[2], e[1]>> \in castVotes

\* Nobody is primary while an election of its own is under way.
CandidateNotLeader == \A n \in Server : phase[n] # "none" => role[n] # "Leader"

ElectionInv ==
    TypeInv /\ VotersCast /\ WonByMajority /\ CandidateNotLeader /\ PrimaryInElectedTerm

-----------------------------------------------------------------------------
(* Step-down.                                                                *)

\* leaderMode and role agree, and a heartbeat step-down that was scheduled is under way.
ModesAgree ==
    \A n \in Server :
        /\ leaderMode[n] # "NotLeader" <=> role[n] = "Leader"
        /\ rstl[n] = "heartbeat" => hbStepDown[n]
        /\ hbStepDown[n] => leaderMode[n] = "SteppingDown"

\* A command that tries or finishes holds the RSTL, and nothing disturbs one that finishes.
CommandsAgree ==
    \A c \in Command :
        /\ command[c] \in {"trying", "finishing"} => rstl[MemberOf[c]] = "command"
        /\ command[c] # "none" => previousLeaderMode[c] # "NotLeader"
        /\ command[c] = "finishing" =>
            leaderMode[MemberOf[c]] = "SteppingDown" /\ ~hbStepDown[MemberOf[c]]
        /\ c \in modeReset => command[c] # "none"

\* The RSTL is held by one command of a member.
OneHolder ==
    \A c, d \in Command :
        /\ command[c] \in {"trying", "finishing"}
        /\ command[d] \in {"trying", "finishing"}
        /\ MemberOf[c] = MemberOf[d]
        => c = d

\* A step-down attempt that is overtaken notices: its mode is lost with its term, or to the
\* abort of another command.
AttemptKeepsTerm ==
    \A c \in Command : command[c] \in {"trying", "waiting"} =>
        /\ termAtStart[c] <= term[MemberOf[c]]
        /\ phase[MemberOf[c]] \in {"storing", "stored", "requesting"}
            => electionTerm[MemberOf[c]] > termAtStart[c]
        /\ role[MemberOf[c]] = "Leader" /\ term[MemberOf[c]] = termAtStart[c] /\ c \notin modeReset
            => leaderMode[MemberOf[c]] \in {"AttemptingStepDown", "SteppingDown"}

\* c makes the attempt that the mode of its member stands for.
Attempts(c) ==
    /\ c \notin modeReset
    /\ command[c] \in {"trying", "waiting"}
    /\ termAtStart[c] = term[MemberOf[c]]

AttemptIsMade ==
    \A n \in Server : leaderMode[n] = "AttemptingStepDown" =>
        \E c \in Command : MemberOf[c] = n /\ Attempts(c)

StepDownInv ==
    /\ TypeInv /\ CandidateNotLeader /\ ModesAgree /\ CommandsAgree /\ OneHolder
    /\ AttemptKeepsTerm /\ AttemptIsMade

-----------------------------------------------------------------------------
(* The votes agree: steps that record no new vote, and steps that record one. *)

\* No trace of a vote appears and no last vote goes back.
LEMMA NoNewVote ==
    ASSUME VotesAgree, VotesNotAhead,
           \A v \in Server : lastVote[v].term <= lastVote'[v].term,
           lastVote \in [Server -> Vote], lastVote' \in [Server -> Vote],
           \A v \in Server, t \in Term, c \in Candidate : Voted(v, t, c)' => Voted(v, t, c)
    PROVE  VotesAgree' /\ VotesNotAhead'
  <1>1. VotesAgree'
    BY DEF VotesAgree
  <1>2. VotesNotAhead'
    <2> SUFFICES ASSUME NEW v \in Server, NEW t \in Term, NEW c \in Candidate, Voted(v, t, c)'
                 PROVE  t <= lastVote'[v].term
      BY DEF VotesNotAhead
    <2>1. t <= lastVote[v].term
      BY DEF VotesNotAhead
    <2> QED BY <2>1, BoundAssumption DEF Vote, Term
  <1> QED BY <1>1, <1>2

\* One vote is recorded, in a term later than that of the voter's last vote.
LEMMA NewVote ==
    ASSUME VotesAgree, VotesNotAhead,
           NEW n \in Server, NEW t \in Term, NEW c \in Candidate,
           t > lastVote[n].term,
           lastVote \in [Server -> Vote],
           lastVote' = [lastVote EXCEPT ![n] = LastVote(t, c)],
           \A v \in Server, u \in Term, d \in Candidate :
                Voted(v, u, d)' => Voted(v, u, d) \/ (v = n /\ u = t /\ d = c)
    PROVE  VotesAgree' /\ VotesNotAhead'
  <1>1. \A d \in Candidate : ~Voted(n, t, d)
    BY BoundAssumption DEF VotesNotAhead, Vote, Term
  <1>2. VotesAgree'
    BY <1>1 DEF VotesAgree
  <1>3. VotesNotAhead'
    <2> SUFFICES ASSUME NEW v \in Server, NEW u \in Term, NEW d \in Candidate, Voted(v, u, d)'
                 PROVE  u <= lastVote'[v].term
      BY DEF VotesNotAhead
    <2>1. lastVote'[v].term = IF v = n THEN t ELSE lastVote[v].term
      BY DEF LastVote
    <2>2. CASE Voted(v, u, d)
      BY <2>1, <2>2, BoundAssumption DEF VotesNotAhead, Vote, Term
    <2>3. CASE v = n /\ u = t
      BY <2>1, <2>3, BoundAssumption DEF Term
    <2> QED BY <2>2, <2>3
  <1> QED BY <1>2, <1>3

\* The state the votes depend on, except for the terms.
voteState == <<lastVote, lastVoteDoc, phase, electionTerm, castVotes>>

\* _updateTerm_inlock never lowers a term, and does not touch the term of a primary.
LEMMA UpdateTermRises ==
    ASSUME TypeOK, NEW v \in Server, NEW t \in Term, updateTerm(v, t)
    PROVE  /\ \A m \in Server : term[m] <= term'[m] /\ pendingTerm[m] <= pendingTerm'[m]
           /\ role[v] # "Leader" => t <= term'[v]
           /\ role[v] = "Leader" /\ t > term[v] => t <= pendingTerm'[v]
           /\ \A m \in Server : role[m] = "Leader" => term'[m] = term[m]
  BY BoundAssumption DEF TypeOK, updateTerm, Term, MaxOf

\* Steps that only raise terms keep the invariant of the votes.
LEMMA TermRises ==
    ASSUME VoteInv, TypeInv', UNCHANGED <<voteState, requests>>,
           \A m \in Server : term[m] <= term'[m] /\ pendingTerm[m] <= pendingTerm'[m]
    PROVE  VoteInv'
  <1> USE DEF voteState
  <1>1. VotesAgree' /\ VotesNotAhead'
    BY DEF VoteInv, VotesAgree, VotesNotAhead, Voted
  <1>2. TermsReached'
    <2>1. \A v \in Server : lastVote[v].term <= term'[v]
      BY BoundAssumption DEF VoteInv, TypeInv, TypeOK, TermsReached, Vote, Term
    <2>2. ASSUME NEW r \in requests
          PROVE  /\ r.state \in {"voting", "granted"} => r.term <= term'[r.voter]
                 /\ r.state = "waiting" => r.term <= pendingTerm'[r.voter]
      <3>1. r.term \in Term /\ r.voter \in Server
        BY DEF VoteInv, TypeInv, TypeOK, Request
      <3> QED BY <3>1, BoundAssumption DEF VoteInv, TypeInv, TypeOK, TermsReached, Term
    <2> QED BY <2>1, <2>2 DEF TermsReached
  <1>3. OwnVoteStored' /\ VoteIsDurable'
    BY DEF VoteInv, OwnVoteStored, VoteIsDurable, Covers
  <1> QED BY <1>1, <1>2, <1>3 DEF VoteInv

\* Writing a vote that left a trace: the document then covers it, and still covers what it did.
LEMMA StoreCovers ==
    ASSUME TypeOK, VotesAgree, NEW n \in Server, NEW t \in Term, NEW c \in Candidate,
           Voted(n, t, c), storeLastVote(n, LastVote(t, c))
    PROVE  /\ Covers(n, t, c)'
           /\ \A m \in Server, u \in Term, d \in Candidate : Covers(m, u, d) => Covers(m, u, d)'
           /\ \A m \in Server, u \in Term, d \in Candidate :
                lastVoteDoc'[m] = LastVote(u, d)
                    => lastVoteDoc[m] = LastVote(u, d) \/ (m = n /\ u = t /\ d = c)
  <1> DEFINE doc == lastVoteDoc[n]
  <1>1. doc \in Vote /\ doc.term \in Term /\ doc.candidate \in Candidate
        /\ doc = LastVote(doc.term, doc.candidate)
    BY DEF TypeOK, Vote, Candidate, LastVote
  <1>2. LastVote(t, c).term = t
    BY DEF LastVote
  <1>3. CASE t > doc.term
    <2>1. lastVoteDoc' = [lastVoteDoc EXCEPT ![n] = LastVote(t, c)]
      BY <1>2, <1>3 DEF storeLastVote
    <2>2. Covers(n, t, c)'
      BY <2>1 DEF Covers, TypeOK
    <2>3. ASSUME NEW m \in Server, NEW u \in Term, NEW d \in Candidate, Covers(m, u, d)
          PROVE  Covers(m, u, d)'
      <3>1. CASE m # n
        BY <2>1, <2>3, <3>1 DEF Covers, TypeOK
      <3>2. CASE m = n
        <4>1. doc.term >= u
          BY <1>1, <2>3, <3>2, BoundAssumption DEF Covers, LastVote, Term
        <4>2. lastVoteDoc'[m].term = t
          BY <1>2, <2>1, <3>2 DEF TypeOK
        <4> QED BY <1>1, <1>3, <4>1, <4>2, BoundAssumption DEF Covers, Term
      <3> QED BY <3>1, <3>2
    <2>4. \A m \in Server, u \in Term, d \in Candidate :
            lastVoteDoc'[m] = LastVote(u, d)
                => lastVoteDoc[m] = LastVote(u, d) \/ (m = n /\ u = t /\ d = c)
      BY <2>1 DEF TypeOK, LastVote
    <2> QED BY <2>2, <2>3, <2>4
  <1>4. CASE ~(t > doc.term)
    <2>1. lastVoteDoc' = lastVoteDoc
      BY <1>2, <1>4 DEF storeLastVote
    <2>2. CASE doc.term > t
      BY <2>1, <2>2 DEF Covers
    <2>3. CASE doc.term = t
      <3>1. Voted(n, t, doc.candidate)
        BY <1>1, <2>3 DEF Voted
      <3>2. doc.candidate = c
        BY <1>1, <3>1 DEF VotesAgree
      <3>3. doc = LastVote(t, c)
        BY <1>1, <2>3, <3>2
      <3> QED BY <2>1, <3>3 DEF Covers
    <2>4. doc.term > t \/ doc.term = t
      BY <1>1, <1>4, BoundAssumption DEF Term
    <2> QED BY <2>2, <2>3, <2>4
  <1> QED BY <1>3, <1>4

\* VoteIsDurable holds after a step if the document then covers every vote cast.
LEMMA DurableAfter ==
    ASSUME TypeOK',
           \A v \in Server, t \in Term, c \in Server :
                <<v, t, c>> \in castVotes' => Covers(v, t, c)'
    PROVE  VoteIsDurable'
  <1> SUFFICES ASSUME NEW c \in castVotes'
               PROVE  lastVoteDoc'[c[1]].term > c[2] \/ lastVoteDoc'[c[1]] = LastVote(c[2], c[3])
    BY DEF VoteIsDurable
  <1>1. c[1] \in Server /\ c[2] \in Term /\ c[3] \in Server /\ c = <<c[1], c[2], c[3]>>
    BY DEF TypeOK
  <1>2. Covers(c[1], c[2], c[3])'
    BY <1>1
  <1> QED BY <1>2 DEF Covers

\* _startRealElection_inlock: voteForMyselfV1 in a term above every vote of the member.
LEMMA RealElectionVote ==
    ASSUME VoteInv, TypeInv', NEW n \in Server, term[n] + 1 \in Term,
           startRealElection(n, term[n] + 1),
           UNCHANGED <<lastVoteDoc, requests, pendingTerm, castVotes>>
    PROVE  VoteInv'
  <1>1. TypeOK /\ term[n] \in Term /\ lastVote[n].term \in Term
    BY DEF VoteInv, TypeInv, TypeOK, Vote
  <1>t. PICK t \in Term : t = term[n] + 1
    OBVIOUS
  <1>2. t > lastVote[n].term
    BY <1>1, <1>t, BoundAssumption DEF VoteInv, TermsReached, Term
  <1>3. \A v \in Server, u \in Term, d \in Candidate :
            Voted(v, u, d)' => Voted(v, u, d) \/ (v = n /\ u = t /\ d = n)
    BY <1>1, <1>t DEF Voted, startRealElection, TypeOK, LastVote
  <1>4. VotesAgree' /\ VotesNotAhead'
    <2>1. n \in Candidate
      BY DEF Candidate
    <2>2. lastVote' = [lastVote EXCEPT ![n] = LastVote(t, n)] /\ lastVote \in [Server -> Vote]
      BY <1>1, <1>t DEF startRealElection, TypeOK
    <2>3. VotesAgree /\ VotesNotAhead
      BY DEF VoteInv
    <2> QED BY <1>2, <1>3, <2>1, <2>2, <2>3, NewVote, ZenonT(60)
  <1>5. TermsReached'
    <2>1. \A v \in Server : lastVote'[v].term <= term'[v]
      BY <1>1, BoundAssumption DEF VoteInv, TermsReached, startRealElection, TypeOK, LastVote, Term
    <2>2. \A v \in Server : term[v] <= term'[v]
      BY <1>1, BoundAssumption DEF startRealElection, TypeOK, Term
    <2>3. ASSUME NEW r \in requests
          PROVE  /\ r.state \in {"voting", "granted"} => r.term <= term'[r.voter]
                 /\ r.state = "waiting" => r.term <= pendingTerm'[r.voter]
      <3>1. r.term \in Term /\ r.voter \in Server
        BY <1>1 DEF TypeOK, Request
      <3> QED BY <1>1, <2>2, <3>1, BoundAssumption DEF VoteInv, TypeInv, TypeOK, TermsReached, Term
    <2> QED BY <2>1, <2>3 DEF TermsReached
  <1>6. OwnVoteStored' /\ VoteIsDurable'
    BY <1>1 DEF VoteInv, OwnVoteStored, VoteIsDurable, Covers, startRealElection, TypeOK
  <1> QED BY <1>4, <1>5, <1>6 DEF VoteInv

\* Ending an election records no vote.
LEMMA EndElectionVote ==
    ASSUME VoteInv, TypeInv', NEW n \in Server, endElection(n),
           UNCHANGED <<term, lastVote, lastVoteDoc, requests, pendingTerm, castVotes>>
    PROVE  VoteInv'
  <1>1. \A v \in Server, u \in Term, d \in Candidate : Voted(v, u, d)' => Voted(v, u, d)
    BY DEF Voted, endElection, VoteInv, TypeInv, TypeOK
  <1>2. VotesAgree' /\ VotesNotAhead'
    BY <1>1, NoNewVote, BoundAssumption DEF VoteInv, TypeInv, TypeOK, Vote, Term
  <1>3. TermsReached'
    BY DEF VoteInv, TermsReached
  <1>4. OwnVoteStored' /\ VoteIsDurable'
    BY DEF VoteInv, TypeInv, TypeOK, OwnVoteStored, VoteIsDurable, Covers, endElection
  <1> QED BY <1>2, <1>3, <1>4 DEF VoteInv

-----------------------------------------------------------------------------
\* A fresh replica set has no votes.
LEMMA InitVote == Init => VoteInv
  <1> SUFFICES ASSUME Init PROVE VoteInv
    OBVIOUS
  <1>1. TypeInv
    BY InitType
  <1>2. \A v \in Server, t \in Term, c \in Candidate :
            Voted(v, t, c) => t = 0 /\ c = None
    BY DEF Init, Voted, LastVote
  <1>3. VotesAgree /\ VotesNotAhead
    BY <1>2, BoundAssumption DEF VotesAgree, VotesNotAhead, Init, LastVote, Term
  <1>4. TermsReached /\ OwnVoteStored /\ VoteIsDurable
    BY DEF TermsReached, OwnVoteStored, VoteIsDurable, Init, LastVote
  <1> QED BY <1>1, <1>3, <1>4 DEF VoteInv

(* Every step keeps the invariant of the votes, unless a member votes while it is     *)
(* stepping down.                                                                     *)
LEMMA NextVote ==
    ASSUME VoteWhileSteppingDown = FALSE, VoteInv, [Next]_vars
    PROVE  VoteInv'
  <1>0. TypeInv' /\ TypeInv /\ TypeOK /\ TypeOK'
    BY NextType DEF VoteInv, TypeInv
  <1>a. ASSUME NEW n \in Server, NEW m \in Server, LearnTerm(n, m) PROVE VoteInv'
    <2>1. PICK t \in (term[n] + 1)..term[m] : updateTerm(n, t)
      BY <1>a DEF LearnTerm
    <2>2. t \in Term
      BY <1>0, BoundAssumption DEF TypeOK, Term
    <2> QED BY <1>0, <1>a, <2>1, <2>2, UpdateTermRises, TermRises
      DEF LearnTerm, candVars, history, voteState
  <1>b. ASSUME NEW n \in Server, NEW v \in Server, DryRunResponse(n, v) PROVE VoteInv'
    <2>1. electionTerm[n] \in Term
      BY <1>0 DEF TypeOK
    <2> QED BY <1>0, <1>b, <2>1, UpdateTermRises, TermRises DEF DryRunResponse, history, voteState
  <1>c. ASSUME UNCHANGED <<voteState, requests, term, pendingTerm>> PROVE VoteInv'
    BY <1>0, <1>c, TermRises, BoundAssumption DEF TypeOK, Term
  <1>d. ASSUME NEW n \in Server, StartElection(n) PROVE VoteInv'
    <2>1. CASE startRealElection(n, term[n] + 1)
      <3>1. term[n] + 1 \in Term
        BY <1>0, <1>d, BoundAssumption DEF StartElection, TypeOK, Term
      <3> QED BY <1>0, <1>d, <2>1, <3>1, RealElectionVote DEF StartElection, stepDownVars, history
    <2>2. CASE startVoteRequester(n, "dryRun", term[n]) /\ UNCHANGED <<term, lastVote>>
      <3>1. UNCHANGED <<term, lastVote, lastVoteDoc, requests, pendingTerm, castVotes>>
        BY <1>d, <2>2 DEF StartElection, stepDownVars, history
      <3>2. \A v \in Server, u \in Term, d \in Candidate : Voted(v, u, d)' => Voted(v, u, d)
        BY <1>0, <2>2, <3>1 DEF Voted, startVoteRequester, TypeOK
      <3>3. VotesAgree' /\ VotesNotAhead'
        BY <1>0, <3>1, <3>2, NoNewVote, BoundAssumption DEF VoteInv, TypeOK, Vote, Term
      <3>4. TermsReached' /\ VoteIsDurable'
        BY <3>1 DEF VoteInv, TermsReached, VoteIsDurable
      <3>5. OwnVoteStored'
        BY <1>0, <2>2, <3>1 DEF VoteInv, TypeOK, OwnVoteStored, Covers, startVoteRequester
      <3> QED BY <1>0, <3>3, <3>4, <3>5 DEF VoteInv
    <2> QED BY <1>d, <2>1, <2>2 DEF StartElection
  <1>e. ASSUME NEW n \in Server, ProcessDryRunResult(n) PROVE VoteInv'
    <2>1. CASE term[n] = electionTerm[n] /\ successfullyElected(n)
      <3>1. startRealElection(n, term[n] + 1)
        BY <1>e, <2>1 DEF ProcessDryRunResult
      <3>2. term[n] + 1 \in Term
        BY <1>0, <1>e, <2>1, BoundAssumption
        DEF ProcessDryRunResult, TypeInv, TypeOK, DryRunBelowMax, Term
      <3> QED BY <1>0, <1>e, <3>1, <3>2, RealElectionVote DEF ProcessDryRunResult, stepDownVars, history
    <2>2. CASE ~(term[n] = electionTerm[n] /\ successfullyElected(n))
      BY <1>0, <1>e, <2>2, EndElectionVote DEF ProcessDryRunResult, loseElection, stepDownVars, history
    <2> QED BY <2>1, <2>2
  <1>f. ASSUME NEW n \in Server, WriteLastVoteForMyElection(n) PROVE VoteInv'
    <2> DEFINE t == electionTerm[n]
    <2>1. /\ UNCHANGED <<term, lastVote, electionTerm, requests, pendingTerm, castVotes>>
          /\ phase[n] = "storing"
          /\ phase' = [phase EXCEPT ![n] = "stored"]
          /\ storeLastVote(n, LastVote(t, n))
      BY <1>f DEF WriteLastVoteForMyElection, coordVars, stepDownVars, history
    <2>2. t \in Term /\ n \in Candidate /\ Voted(n, t, n)
      BY <1>0, <2>1 DEF TypeOK, Candidate, Voted
    <2>3. /\ Covers(n, t, n)'
          /\ \A m \in Server, u \in Term, d \in Candidate : Covers(m, u, d) => Covers(m, u, d)'
          /\ \A m \in Server, u \in Term, d \in Candidate :
                lastVoteDoc'[m] = LastVote(u, d)
                    => lastVoteDoc[m] = LastVote(u, d) \/ (m = n /\ u = t /\ d = n)
      BY <1>0, <2>1, <2>2, StoreCovers DEF VoteInv
    <2>4. \A v \in Server, u \in Term, d \in Candidate : Voted(v, u, d)' => Voted(v, u, d)
      BY <1>0, <2>1, <2>2, <2>3 DEF Voted, TypeOK
    <2>5. VotesAgree' /\ VotesNotAhead'
      BY <1>0, <2>1, <2>4, NoNewVote, BoundAssumption DEF VoteInv, TypeOK, Vote, Term
    <2>6. OwnVoteStored'
      BY <1>0, <2>1, <2>2, <2>3 DEF VoteInv, OwnVoteStored, TypeOK, Candidate
    <2>7. VoteIsDurable'
      <3>1. ASSUME NEW v \in Server, NEW u \in Term, NEW c \in Server, <<v, u, c>> \in castVotes
            PROVE  Covers(v, u, c)
        BY <3>1 DEF VoteInv, VoteIsDurable, Covers
      <3> QED BY <1>0, <2>1, <2>3, <3>1, DurableAfter DEF Candidate
    <2>8. TermsReached'
      BY <2>1 DEF VoteInv, TermsReached
    <2> QED BY <1>0, <2>5, <2>6, <2>7, <2>8 DEF VoteInv
  <1>g. ASSUME NEW n \in Server, StartVoteRequester(n) PROVE VoteInv'
    <2> DEFINE t == electionTerm[n]
    <2>1. CASE term[n] = t
      <3>1. /\ UNCHANGED <<term, lastVote, lastVoteDoc, pendingTerm>>
            /\ phase[n] = "stored"
            /\ phase' = [phase EXCEPT ![n] = "requesting"]
            /\ electionTerm' = electionTerm
            /\ castVotes' = castVotes \cup {<<n, t, n>>}
        BY <1>0, <1>g, <2>1 DEF StartVoteRequester, startVoteRequester, stepDownVars, TypeOK
      <3>2. \A r \in requests' : r \in requests \/ r.state = "sent"
        BY <1>g, <2>1 DEF StartVoteRequester, VoteRequest
      <3>3. t \in Term /\ n \in Candidate /\ Voted(n, t, n) /\ Covers(n, t, n)
        BY <1>0, <3>1 DEF TypeOK, Candidate, Voted, VoteInv, OwnVoteStored
      <3>4. \A v \in Server, u \in Term, d \in Candidate : Voted(v, u, d)' => Voted(v, u, d)
        BY <1>0, <3>1, <3>2, <3>3 DEF Voted, TypeOK
      <3>5. VotesAgree' /\ VotesNotAhead'
        BY <1>0, <3>1, <3>4, NoNewVote, BoundAssumption DEF VoteInv, TypeOK, Vote, Term
      <3>6. OwnVoteStored'
        BY <1>0, <3>1 DEF VoteInv, OwnVoteStored, Covers, TypeOK
      <3>7. VoteIsDurable'
        BY <3>1, <3>3 DEF VoteInv, VoteIsDurable, Covers
      <3>8. TermsReached'
        BY <3>1, <3>2 DEF VoteInv, TermsReached
      <3> QED BY <1>0, <3>5, <3>6, <3>7, <3>8 DEF VoteInv
    <2>2. CASE term[n] # t
      BY <1>0, <1>g, <2>2, EndElectionVote DEF StartVoteRequester, loseElection, stepDownVars
    <2> QED BY <2>1, <2>2
  <1>h. ASSUME NEW n \in Server, OnVoteRequestComplete(n) PROVE VoteInv'
    BY <1>0, <1>h, EndElectionVote DEF OnVoteRequestComplete, loseElection
  <1>i. ASSUME NEW n \in Server, HeartbeatStepDownFinish(n) PROVE VoteInv'
    <2>1. /\ UNCHANGED voteState
          /\ term' = [term EXCEPT ![n] = MaxOf(term[n], pendingTerm[n])]
          /\ pendingTerm' = [pendingTerm EXCEPT ![n] = 0]
      BY <1>i DEF HeartbeatStepDownFinish, takePendingTerm, candVars, history, voteState
    <2>2. \A r \in requests' :
            \/ r \in requests /\ (r.voter = n => r.state # "waiting")
            \/ \E q \in requests : /\ q.voter = n /\ q.state = "waiting"
                                    /\ r.voter = n /\ r.state = "voting" /\ r.term = q.term
      BY <1>i DEF HeartbeatStepDownFinish, signalStepDownFinished, inState, VoteRequest
    <2>3. \A v \in Server, u \in Term, d \in Candidate : Voted(v, u, d)' => Voted(v, u, d)
      BY <2>1, <2>2 DEF Voted, voteState
    <2>4. VotesAgree' /\ VotesNotAhead'
      BY <1>0, <2>1, <2>3, NoNewVote, BoundAssumption DEF VoteInv, TypeOK, Vote, Term, voteState
    <2>5. OwnVoteStored' /\ VoteIsDurable'
      BY <2>1 DEF VoteInv, OwnVoteStored, VoteIsDurable, Covers, voteState
    <2>6. \A v \in Server : term[v] <= term'[v]
      BY <1>0, <2>1, BoundAssumption DEF TypeOK, MaxOf, Term
    <2>7. pendingTerm[n] <= term'[n]
      BY <1>0, <2>1, BoundAssumption DEF TypeOK, MaxOf, Term
    <2>8. \A v \in Server : lastVote'[v].term <= term'[v]
      BY <1>0, <2>1, <2>6, BoundAssumption DEF VoteInv, TermsReached, TypeOK, Vote, Term, voteState
    <2>9. ASSUME NEW r \in requests'
          PROVE  /\ r.state \in {"voting", "granted"} => r.term <= term'[r.voter]
                 /\ r.state = "waiting" => r.term <= pendingTerm'[r.voter]
      <3>1. CASE r \in requests /\ (r.voter = n => r.state # "waiting")
        <4>1. r.term \in Term /\ r.voter \in Server
          BY <1>0, <3>1 DEF TypeOK, Request
        <4> QED BY <1>0, <2>1, <2>6, <3>1, <4>1, BoundAssumption
          DEF VoteInv, TermsReached, TypeOK, Term
      <3>2. ASSUME NEW q \in requests, q.voter = n, q.state = "waiting",
                   r.voter = n, r.state = "voting", r.term = q.term
            PROVE  r.term <= term'[r.voter]
        <4>1. q.term \in Term /\ q.term <= pendingTerm[n]
          BY <1>0, <3>2 DEF VoteInv, TermsReached, TypeOK, Request
        <4> QED BY <1>0, <2>7, <3>2, <4>1, BoundAssumption DEF TypeOK, Term
      <3> QED BY <2>2, <2>9, <3>1, <3>2
    <2>10. TermsReached'
      BY <2>8, <2>9 DEF TermsReached
    <2> QED BY <1>0, <2>4, <2>5, <2>10 DEF VoteInv
  <1>j. ASSUME NEW n \in Server, crash(n) PROVE VoteInv'
    <2>1. /\ lastVote' = [lastVote EXCEPT ![n] = lastVoteDoc[n]]
          /\ phase' = [phase EXCEPT ![n] = "none"]
          /\ electionTerm' = [electionTerm EXCEPT ![n] = 0]
          /\ requests' = {r \in requests : r.voter = n => r.state = "sent"}
          /\ pendingTerm' = [pendingTerm EXCEPT ![n] = 0]
          /\ UNCHANGED <<lastVoteDoc, castVotes>>
      BY <1>j DEF crash, loadLastVote, loseElection, endElection
    <2>2. PICK applied \in 0..lastApplied[n] :
            term' = [term EXCEPT ![n] = MaxOf(applied, lastVoteDoc[n].term)]
      BY <1>j DEF crash
    <2>3. \A v \in Server, u \in Term, d \in Candidate : Voted(v, u, d)' => Voted(v, u, d)
      BY <1>0, <2>1 DEF Voted, TypeOK
    <2>4. VotesAgree'
      BY <2>3 DEF VoteInv, VotesAgree
    <2>5. VotesNotAhead'
      <3> SUFFICES ASSUME NEW v \in Server, NEW u \in Term, NEW d \in Candidate, Voted(v, u, d)'
                   PROVE  u <= lastVote'[v].term
        BY DEF VotesNotAhead
      <3>1. CASE v # n
        <4>1. u <= lastVote[v].term
          BY <2>3 DEF VoteInv, VotesNotAhead
        <4> QED BY <1>0, <2>1, <3>1, <4>1 DEF TypeOK
      <3>2. CASE v = n
        <4>1. lastVote'[v] = lastVoteDoc[n] /\ lastVoteDoc[n].term \in Term
          BY <1>0, <2>1, <3>2 DEF TypeOK, Vote
        <4>2. <<v, u, d>> \in castVotes \/ lastVoteDoc[n] = LastVote(u, d)
          BY <1>0, <2>1, <3>2 DEF Voted, TypeOK
        <4>3. lastVoteDoc[n].term > u \/ lastVoteDoc[n] = LastVote(u, d)
          BY <3>2, <4>2 DEF VoteInv, VoteIsDurable
        <4> QED BY <4>1, <4>3, BoundAssumption DEF LastVote, Term
      <3> QED BY <3>1, <3>2
    <2>6. OwnVoteStored' /\ VoteIsDurable'
      BY <1>0, <2>1 DEF VoteInv, OwnVoteStored, VoteIsDurable, Covers, TypeOK
    <2>7. \A v \in Server : lastVote'[v].term <= term'[v]
      BY <1>0, <2>1, <2>2, BoundAssumption DEF VoteInv, TermsReached, TypeOK, Vote, MaxOf, Term
    <2>8. ASSUME NEW r \in requests'
          PROVE  /\ r.state \in {"voting", "granted"} => r.term <= term'[r.voter]
                 /\ r.state = "waiting" => r.term <= pendingTerm'[r.voter]
      <3>1. r \in requests /\ r.voter \in Server /\ (r.voter = n => r.state = "sent")
        BY <1>0, <2>1 DEF TypeOK, Request
      <3> QED BY <1>0, <2>1, <2>2, <3>1 DEF VoteInv, TermsReached, TypeOK
    <2> QED BY <1>0, <2>4, <2>5, <2>6, <2>7, <2>8 DEF VoteInv, TermsReached
  <1>k. ASSUME NEW r \in requests, ReceiveVoteRequest(r) PROVE VoteInv'
    <2> DEFINE v == r.voter
               waits == r.term > term[v] /\ role[v] = "Leader"
                        /\ ~(leaderMode[v] = "SteppingDown")
    <2>1. /\ UNCHANGED voteState
          /\ updateTerm(v, r.term)
          /\ ~(r.term > term[v] /\ role[v] = "Leader" /\ leaderMode[v] = "SteppingDown")
          /\ requests' = moveRequest(r, IF waits THEN "waiting" ELSE "voting")
      BY <1>k DEF ReceiveVoteRequest, candVars, history, voteState
    <2>2. r.term \in Term /\ v \in Server
      BY <1>0 DEF TypeOK, Request
    <2>3. \A q \in requests' :
            \/ q \in requests
            \/ q.voter = v /\ q.term = r.term /\ q.state = IF waits THEN "waiting" ELSE "voting"
      BY <2>1, MoveRequest
    <2>4. \A m \in Server : term[m] <= term'[m] /\ pendingTerm[m] <= pendingTerm'[m]
      BY <1>0, <2>1, <2>2, UpdateTermRises
    <2>5. IF waits THEN r.term <= pendingTerm'[v] ELSE r.term <= term'[v]
      <3>1. CASE role[v] # "Leader"
        BY <1>0, <2>1, <2>2, <3>1, UpdateTermRises
      <3>2. CASE role[v] = "Leader" /\ r.term > term[v]
        BY <1>0, <2>1, <2>2, <3>2, UpdateTermRises
      <3>3. CASE role[v] = "Leader" /\ ~(r.term > term[v])
        BY <1>0, <2>2, <2>4, <3>3, BoundAssumption DEF TypeOK, Term
      <3> QED BY <3>1, <3>2, <3>3
    <2>6. \A m \in Server, u \in Term, d \in Candidate : Voted(m, u, d)' => Voted(m, u, d)
      BY <2>1, <2>3 DEF Voted, voteState
    <2>7. VotesAgree' /\ VotesNotAhead'
      BY <1>0, <2>1, <2>6, NoNewVote, BoundAssumption DEF VoteInv, TypeOK, Vote, Term, voteState
    <2>8. OwnVoteStored' /\ VoteIsDurable'
      BY <2>1 DEF VoteInv, OwnVoteStored, VoteIsDurable, Covers, voteState
    <2>9. \A m \in Server : lastVote'[m].term <= term'[m]
      BY <1>0, <2>1, <2>4, BoundAssumption DEF VoteInv, TermsReached, TypeOK, Vote, Term, voteState
    <2>10. ASSUME NEW q \in requests'
           PROVE  /\ q.state \in {"voting", "granted"} => q.term <= term'[q.voter]
                  /\ q.state = "waiting" => q.term <= pendingTerm'[q.voter]
      <3>1. CASE q \in requests
        <4>1. q.term \in Term /\ q.voter \in Server
          BY <1>0, <3>1 DEF TypeOK, Request
        <4> QED BY <1>0, <2>4, <3>1, <4>1, BoundAssumption DEF VoteInv, TermsReached, TypeOK, Term
      <3>2. CASE q.voter = v /\ q.term = r.term /\ q.state = IF waits THEN "waiting" ELSE "voting"
        BY <2>5, <3>2
      <3> QED BY <2>3, <3>1, <3>2
    <2> QED BY <1>0, <2>7, <2>8, <2>9, <2>10 DEF VoteInv, TermsReached
  <1>l. ASSUME NEW r \in requests, GrantVote(r) PROVE VoteInv'
    <2> DEFINE v == r.voter
    <2>1. /\ r.state = "voting"
          /\ canGrant(r)
          /\ lastVote' = [lastVote EXCEPT ![v] = LastVote(r.term, r.candidate)]
          /\ requests' = moveRequest(r, "granted")
          /\ UNCHANGED <<term, lastVoteDoc, phase, electionTerm, pendingTerm, castVotes>>
      BY <1>l DEF GrantVote, candVars, stepDownVars, history
    <2>2. r.term \in Term /\ v \in Server /\ r.candidate \in Candidate
      BY <1>0 DEF TypeOK, Request, Candidate
    <2>3. r.term > lastVote[v].term /\ r.term <= term[v]
      <3>1. /\ lastVote[v].term \in Term /\ term[v] \in Term
            /\ lastVote[v].term <= term[v] /\ r.term <= term[v]
            /\ r.term >= term[v] /\ lastVote[v].term # r.term
        BY <1>0, <2>1, <2>2 DEF VoteInv, TermsReached, canGrant, TypeOK, Vote
      <3> QED BY <2>2, <3>1, BoundAssumption DEF Term
    <2>4. \A q \in requests' :
            \/ q \in requests
            \/ q.voter = v /\ q.term = r.term /\ q.state = "granted" /\ q.candidate = r.candidate
      BY <2>1, MoveRequest
    <2>5. \A m \in Server, u \in Term, d \in Candidate :
            Voted(m, u, d)' => Voted(m, u, d) \/ (m = v /\ u = r.term /\ d = r.candidate)
      <3> SUFFICES ASSUME NEW m \in Server, NEW u \in Term, NEW d \in Candidate, Voted(m, u, d)',
                          ~Voted(m, u, d)
                   PROVE  m = v /\ u = r.term /\ d = r.candidate
        OBVIOUS
      <3>1. CASE lastVote'[m] = LastVote(u, d)
        <4>1. m = v /\ LastVote(r.term, r.candidate) = LastVote(u, d)
          BY <1>0, <2>1, <2>2, <3>1 DEF Voted, TypeOK
        <4> QED BY <4>1 DEF LastVote
      <3>2. CASE \E q \in requests' : /\ q.state = "granted" /\ q.voter = m
                                      /\ q.term = u /\ q.candidate = d
        BY <2>4, <3>2 DEF Voted
      <3> QED BY <2>1, <3>1, <3>2 DEF Voted
    <2>6. VotesAgree' /\ VotesNotAhead'
      <3>1. VotesAgree /\ VotesNotAhead /\ lastVote \in [Server -> Vote]
        BY <1>0 DEF VoteInv, TypeOK
      <3> HIDE DEF v
      <3> QED BY <2>1, <2>2, <2>3, <2>5, <3>1, NewVote
    <2>7. OwnVoteStored' /\ VoteIsDurable'
      BY <2>1 DEF VoteInv, OwnVoteStored, VoteIsDurable, Covers
    <2>8. \A m \in Server : lastVote'[m].term <= term'[m]
      BY <1>0, <2>1, <2>2, <2>3 DEF VoteInv, TermsReached, TypeOK, LastVote
    <2>9. \A q \in requests' :
            /\ q.state \in {"voting", "granted"} => q.term <= term'[q.voter]
            /\ q.state = "waiting" => q.term <= pendingTerm'[q.voter]
      BY <2>1, <2>3, <2>4 DEF VoteInv, TermsReached
    <2> QED BY <1>0, <2>6, <2>7, <2>8, <2>9 DEF VoteInv, TermsReached
  <1>m. ASSUME NEW r \in requests, RefuseVote(r) \/ StoreVoteFails(r) PROVE VoteInv'
    <2>1. /\ UNCHANGED <<voteState, term, pendingTerm>>
          /\ requests' \subseteq requests
      BY <1>m DEF RefuseVote, StoreVoteFails, coordVars, candVars, stepDownVars, history, voteState
    <2>2. \A m \in Server, u \in Term, d \in Candidate : Voted(m, u, d)' => Voted(m, u, d)
      BY <2>1 DEF Voted, voteState
    <2>3. VotesAgree' /\ VotesNotAhead'
      BY <1>0, <2>1, <2>2, NoNewVote, BoundAssumption DEF VoteInv, TypeOK, Vote, Term, voteState
    <2>4. OwnVoteStored' /\ VoteIsDurable' /\ TermsReached'
      BY <2>1 DEF VoteInv, OwnVoteStored, VoteIsDurable, Covers, TermsReached, voteState
    <2> QED BY <1>0, <2>3, <2>4 DEF VoteInv
  <1>n. ASSUME NEW r \in requests, StoreVote(r) PROVE VoteInv'
    <2> DEFINE v == r.voter
    <2>1. /\ r.state = "granted"
          /\ storeLastVote(v, LastVote(r.term, r.candidate))
          /\ requests' \subseteq requests
          /\ castVotes' = castVotes \cup {<<v, r.term, r.candidate>>}
          /\ UNCHANGED <<term, lastVote, phase, electionTerm, pendingTerm>>
      BY <1>n DEF StoreVote, coordVars, stepDownVars
    <2>2. /\ r.term \in Term /\ v \in Server /\ r.candidate \in Candidate
          /\ Voted(v, r.term, r.candidate)
      BY <1>0, <2>1 DEF TypeOK, Request, Candidate, Voted
    <2>3. /\ Covers(v, r.term, r.candidate)'
          /\ \A m \in Server, u \in Term, d \in Candidate : Covers(m, u, d) => Covers(m, u, d)'
          /\ \A m \in Server, u \in Term, d \in Candidate :
                lastVoteDoc'[m] = LastVote(u, d)
                    => lastVoteDoc[m] = LastVote(u, d)
                       \/ (m = v /\ u = r.term /\ d = r.candidate)
      BY <1>0, <2>1, <2>2, StoreCovers DEF VoteInv
    <2>4. \A m \in Server, u \in Term, d \in Candidate : Voted(m, u, d)' => Voted(m, u, d)
      <3> SUFFICES ASSUME NEW m \in Server, NEW u \in Term, NEW d \in Candidate, Voted(m, u, d)',
                          ~Voted(m, u, d)
                   PROVE  FALSE
        OBVIOUS
      <3>1. CASE <<m, u, d>> \in castVotes'
        <4>1. <<m, u, d>> = <<v, r.term, r.candidate>>
          BY <2>1, <3>1 DEF Voted
        <4>2. m = v /\ u = r.term /\ d = r.candidate
          BY <4>1
        <4> QED BY <2>2, <4>2
      <3>2. CASE lastVoteDoc'[m] = LastVote(u, d)
        <4>1. m = v /\ u = r.term /\ d = r.candidate
          BY <2>3, <3>2 DEF Voted
        <4> QED BY <2>2, <4>1
      <3> QED BY <2>1, <3>1, <3>2 DEF Voted
    <2>5. VotesAgree' /\ VotesNotAhead'
      BY <1>0, <2>1, <2>4, NoNewVote, BoundAssumption DEF VoteInv, TypeOK, Vote, Term
    <2>6. OwnVoteStored'
      BY <1>0, <2>1, <2>3 DEF VoteInv, OwnVoteStored, TypeOK, Candidate
    <2>7. VoteIsDurable'
      <3>1. ASSUME NEW m \in Server, NEW u \in Term, NEW c \in Server, <<m, u, c>> \in castVotes'
            PROVE  Covers(m, u, c)'
        <4>1. CASE <<m, u, c>> \in castVotes
          <5>1. Covers(m, u, c)
            BY <4>1 DEF VoteInv, VoteIsDurable, Covers
          <5> QED BY <2>3, <5>1 DEF Candidate
        <4>2. CASE <<m, u, c>> = <<v, r.term, r.candidate>>
          BY <2>3, <4>2
        <4> QED BY <2>1, <3>1, <4>1, <4>2
      <3> QED BY <1>0, <3>1, DurableAfter
    <2>8. TermsReached'
      BY <2>1 DEF VoteInv, TermsReached
    <2> QED BY <1>0, <2>5, <2>6, <2>7, <2>8 DEF VoteInv
  <1>o. ASSUME NEW n \in Server,
               \/ \E m \in Server : SyncFrom(n, m)
               \/ ResponsesFail(n)
               \/ DrainBegin(n) \/ DrainFinish(n)
               \/ StepDownSelf(n) \/ HeartbeatStepDownBegin(n)
        PROVE  UNCHANGED <<voteState, requests, term, pendingTerm>>
    BY <1>o DEF SyncFrom, ResponsesFail, DrainBegin, DrainFinish, StepDownSelf,
                HeartbeatStepDownBegin, voteState, coordVars, candVars, stepDownVars, history
  <1>r. ASSUME NEW c \in Command,
               \/ StepDownBegin(c) \/ TryStepDownSucceeds(c) \/ TryStepDownWaits(c)
               \/ StepDownReacquires(c) \/ StepDownAborts(c) \/ StepDownFinish(c)
        PROVE  UNCHANGED <<voteState, requests, term, pendingTerm>>
    BY <1>r DEF StepDownBegin, TryStepDownSucceeds, TryStepDownWaits, StepDownReacquires,
                StepDownAborts, StepDownFinish, voteState, coordVars, candVars, history
  <1>s. ASSUME NEW c \in Command, StepDownAssertionFails(c) PROVE VoteInv'
    BY <1>j, <1>s, CommandAssumption DEF StepDownAssertionFails
  <1>q. ASSUME NEW n \in Server, WriteLastVoteFails(n) PROVE VoteInv'
    BY <1>0, <1>q, EndElectionVote DEF WriteLastVoteFails, loseElection, stepDownVars, history
  <1>p. CASE UNCHANGED vars
    BY <1>c, <1>p DEF vars, coordVars, candVars, stepDownVars, history, voteState
  <1> QED
    BY <1>a, <1>b, <1>c, <1>d, <1>e, <1>f, <1>g, <1>h, <1>i, <1>j, <1>k, <1>l, <1>m, <1>n,
       <1>o, <1>p, <1>q, <1>r, <1>s DEF Next, ServerNext, CommandNext, Restart

(* Whatever restarts, races and step-downs happen, the document on disk covers every *)
(* vote that left a member (storeLocalLastVoteDocument runs outside the mutex).      *)
THEOREM VotesDurable ==
    ASSUME VoteWhileSteppingDown = FALSE
    PROVE  Spec => []VoteIsDurable
  <1>1. VoteInv /\ [Next]_vars => VoteInv'
    BY NextVote
  <1>2. VoteInv => VoteIsDurable
    BY DEF VoteInv
  <1> QED BY <1>1, <1>2, InitVote, PTL DEF Spec

\* Two votes of one member in one term agree.
LEMMA VoteInvOneVote == VoteInv => OneVotePerTerm
  <1> SUFFICES ASSUME VoteInv, NEW a \in castVotes, NEW b \in castVotes,
                      a[1] = b[1], a[2] = b[2]
               PROVE  a[3] = b[3]
    BY DEF OneVotePerTerm
  <1>1. /\ a[1] \in Server /\ a[2] \in Term /\ a[3] \in Server /\ a = <<a[1], a[2], a[3]>>
        /\ b[3] \in Server /\ b = <<a[1], a[2], b[3]>>
    BY DEF VoteInv, TypeInv, TypeOK
  <1>2. Voted(a[1], a[2], a[3]) /\ Voted(a[1], a[2], b[3])
    BY <1>1 DEF Voted
  <1> QED BY <1>1, <1>2 DEF VoteInv, VotesAgree, Candidate

(* A member votes for one candidate in a term: the check of lastVote in               *)
(* processReplSetRequestVotes and the term raised before voteForMyselfV1 suffice,     *)
(* also across restarts.                                                              *)
THEOREM VotesOnce ==
    ASSUME VoteWhileSteppingDown = FALSE
    PROVE  Spec => []OneVotePerTerm
  <1>1. VoteInv /\ [Next]_vars => VoteInv'
    BY NextVote
  <1> QED BY <1>1, VoteInvOneVote, InitVote, PTL DEF Spec

-----------------------------------------------------------------------------
\* A fresh replica set has no candidates and no primary.
LEMMA InitElection == Init => ElectionInv
  BY InitType DEF Init, ElectionInv, VotersCast, WonByMajority, CandidateNotLeader,
                  PrimaryInElectedTerm

\* Steps that leave the elections under way alone and change no primary's term.
LEMMA ElectionsKept ==
    ASSUME ElectionInv, TypeInv', UNCHANGED <<phase, electionTerm, elected>>,
           castVotes \subseteq castVotes',
           \A n \in Server : phase[n] = "requesting" => votes'[n] = votes[n],
           \A n \in Server : role'[n] = role[n] \/ role'[n] # "Leader",
           \A n \in Server : role[n] = "Leader" /\ role'[n] = "Leader" => term'[n] = term[n]
    PROVE  ElectionInv'
  <1>1. VotersCast' /\ WonByMajority'
    BY DEF ElectionInv, VotersCast, WonByMajority
  <1>2. CandidateNotLeader' /\ PrimaryInElectedTerm'
    BY DEF ElectionInv, CandidateNotLeader, PrimaryInElectedTerm
  <1> QED BY <1>1, <1>2 DEF ElectionInv

\* An election of n starts, moves on to its next phase or ends; n is not primary.
LEMMA ElectionMoves ==
    ASSUME ElectionInv, TypeInv', NEW n \in Server, UNCHANGED <<elected, castVotes>>,
           phase'[n] # "requesting",
           role'[n] # "Leader",
           \A m \in Server \ {n} :
              /\ phase'[m] = phase[m] /\ electionTerm'[m] = electionTerm[m]
              /\ votes'[m] = votes[m] /\ role'[m] = role[m] /\ term'[m] = term[m]
    PROVE  ElectionInv'
  <1>1. VotersCast' /\ WonByMajority'
    BY DEF ElectionInv, VotersCast, WonByMajority
  <1>2. CandidateNotLeader' /\ PrimaryInElectedTerm'
    BY DEF ElectionInv, CandidateNotLeader, PrimaryInElectedTerm
  <1> QED BY <1>1, <1>2 DEF ElectionInv

\* Every step keeps the invariant of the elections.
LEMMA NextElection == ElectionInv /\ [Next]_vars => ElectionInv'
  <1> SUFFICES ASSUME ElectionInv, [Next]_vars PROVE ElectionInv'
    OBVIOUS
  <1>0. TypeInv' /\ TypeInv /\ TypeOK /\ TypeOK'
    BY NextType DEF ElectionInv, TypeInv
  <1>a. ASSUME NEW n \in Server, NEW m \in Server, LearnTerm(n, m) PROVE ElectionInv'
    <2>1. PICK t \in (term[n] + 1)..term[m] : updateTerm(n, t)
      BY <1>a DEF LearnTerm
    <2>2. t \in Term
      BY <1>0, BoundAssumption DEF TypeOK, Term
    <2> QED BY <1>0, <1>a, <2>1, <2>2, UpdateTermRises, ElectionsKept
      DEF LearnTerm, candVars, history
  <1>b. ASSUME NEW n \in Server, NEW v \in Server, DryRunResponse(n, v) PROVE ElectionInv'
    <2>1. electionTerm[n] \in Term
      BY <1>0 DEF TypeOK
    <2>2. \A m \in Server : phase[m] = "requesting" => votes'[m] = votes[m]
      BY <1>0, <1>b DEF DryRunResponse, processResponse, TypeOK
    <2> QED BY <1>0, <1>b, <2>1, <2>2, UpdateTermRises, ElectionsKept DEF DryRunResponse, history
  <1>c. ASSUME NEW r \in requests, ReceiveVoteRequest(r) PROVE ElectionInv'
    <2>1. r.term \in Term /\ r.voter \in Server
      BY <1>0 DEF TypeOK, Request
    <2> QED BY <1>0, <1>c, <2>1, UpdateTermRises, ElectionsKept
      DEF ReceiveVoteRequest, candVars, history
  <1>d. ASSUME NEW n \in Server, StartElection(n) PROVE ElectionInv'
    <2>1. UNCHANGED <<elected, castVotes>> /\ role' = [role EXCEPT ![n] = "Candidate"]
      BY <1>d DEF StartElection, history
    <2>2. CASE startRealElection(n, term[n] + 1)
      BY <1>0, <2>1, <2>2, ElectionMoves DEF startRealElection, TypeOK
    <2>3. CASE startVoteRequester(n, "dryRun", term[n]) /\ UNCHANGED <<term, lastVote>>
      BY <1>0, <2>1, <2>3, ElectionMoves DEF startVoteRequester, TypeOK
    <2> QED BY <1>d, <2>2, <2>3 DEF StartElection
  <1>e. ASSUME NEW n \in Server, ProcessDryRunResult(n) PROVE ElectionInv'
    <2>1. UNCHANGED <<elected, castVotes>> /\ role[n] # "Leader"
      BY <1>e DEF ProcessDryRunResult, history, ElectionInv, CandidateNotLeader
    <2>2. CASE startRealElection(n, electionTerm[n] + 1) /\ UNCHANGED role
      BY <1>0, <2>1, <2>2, ElectionMoves DEF startRealElection, TypeOK
    <2>3. CASE loseElection(n) /\ UNCHANGED <<term, lastVote>>
      BY <1>0, <2>1, <2>3, ElectionMoves DEF loseElection, endElection, TypeOK
    <2> QED BY <1>e, <2>2, <2>3 DEF ProcessDryRunResult
  <1>f. ASSUME NEW n \in Server, WriteLastVoteForMyElection(n) PROVE ElectionInv'
    <2>1. role[n] # "Leader"
      BY <1>f DEF WriteLastVoteForMyElection, ElectionInv, CandidateNotLeader
    <2> QED BY <1>0, <1>f, <2>1, ElectionMoves
      DEF WriteLastVoteForMyElection, TypeOK, coordVars, history
  <1>g. ASSUME NEW n \in Server, StartVoteRequester(n) PROVE ElectionInv'
    <2>1. role[n] # "Leader"
      BY <1>g DEF StartVoteRequester, ElectionInv, CandidateNotLeader
    <2>2. CASE term[n] = electionTerm[n]
      <3>1. /\ phase' = [phase EXCEPT ![n] = "requesting"]
            /\ electionTerm' = electionTerm
            /\ votes' = [votes EXCEPT ![n] = {n}]
            /\ castVotes' = castVotes \cup {<<n, electionTerm[n], n>>}
            /\ UNCHANGED <<role, term, elected>>
        BY <1>0, <1>g, <2>2 DEF StartVoteRequester, startVoteRequester, TypeOK
      <3>2. VotersCast'
        BY <1>0, <3>1 DEF ElectionInv, VotersCast, TypeOK
      <3>3. WonByMajority'
        BY <3>1 DEF ElectionInv, WonByMajority
      <3>4. CandidateNotLeader' /\ PrimaryInElectedTerm'
        BY <1>0, <2>1, <3>1 DEF ElectionInv, CandidateNotLeader, PrimaryInElectedTerm, TypeOK
      <3> QED BY <1>0, <3>2, <3>3, <3>4 DEF ElectionInv
    <2>3. CASE term[n] # electionTerm[n]
      <3>1. loseElection(n) /\ UNCHANGED <<term, elected, castVotes>>
        BY <1>g, <2>3 DEF StartVoteRequester
      <3> QED BY <1>0, <3>1, ElectionMoves DEF loseElection, endElection, TypeOK
    <2> QED BY <2>2, <2>3
  <1>h. ASSUME NEW n \in Server, OnVoteRequestComplete(n) PROVE ElectionInv'
    <2>1. CASE term[n] = electionTerm[n] /\ successfullyElected(n)
      <3>1. /\ role' = [role EXCEPT ![n] = "Leader"]
            /\ elected' = elected \cup {<<n, term[n]>>}
            /\ phase' = [phase EXCEPT ![n] = "none"]
            /\ \A m \in Server \ {n} : electionTerm'[m] = electionTerm[m] /\ votes'[m] = votes[m]
            /\ UNCHANGED <<term, castVotes>>
        BY <1>0, <1>h, <2>1 DEF OnVoteRequestComplete, endElection, TypeOK
      <3>2. IsMajority(votes[n]) /\ phase[n] = "requesting"
        BY <1>h, <2>1 DEF OnVoteRequestComplete, successfullyElected
      <3>3. votes[n] \in SUBSET Server /\ \A v \in votes[n] : <<v, term[n], n>> \in castVotes
        BY <1>0, <2>1, <3>2 DEF ElectionInv, VotersCast, TypeOK
      <3>4. WonByMajority'
        <4> SUFFICES ASSUME NEW e \in elected'
                     PROVE  \E Q \in SUBSET Server :
                                IsMajority(Q) /\ \A v \in Q : <<v, e[2], e[1]>> \in castVotes
          BY <3>1 DEF WonByMajority
        <4>1. CASE e \in elected
          BY <4>1 DEF ElectionInv, WonByMajority
        <4>2. CASE e = <<n, term[n]>>
          BY <3>2, <3>3, <4>2
        <4> QED BY <3>1, <4>1, <4>2
      <3>5. VotersCast'
        BY <1>0, <3>1 DEF ElectionInv, VotersCast, TypeOK
      <3>6. CandidateNotLeader' /\ PrimaryInElectedTerm'
        BY <1>0, <3>1 DEF ElectionInv, CandidateNotLeader, PrimaryInElectedTerm, TypeOK
      <3> QED BY <1>0, <3>4, <3>5, <3>6 DEF ElectionInv
    <2>2. CASE ~(term[n] = electionTerm[n] /\ successfullyElected(n))
      <3>1. loseElection(n) /\ UNCHANGED <<term, elected, castVotes>>
        BY <1>h, <2>2 DEF OnVoteRequestComplete
      <3> QED BY <1>0, <3>1, ElectionMoves DEF loseElection, endElection, TypeOK
    <2> QED BY <2>1, <2>2
  <1>i. ASSUME NEW n \in Server, HeartbeatStepDownFinish(n) PROVE ElectionInv'
    BY <1>0, <1>i, ElectionsKept
    DEF HeartbeatStepDownFinish, finishUnconditionalStepDown, takePendingTerm, candVars,
        history, TypeOK
  <1>j. ASSUME NEW c \in Command, StepDownFinish(c) PROVE ElectionInv'
    BY <1>0, <1>j, CommandAssumption, ElectionsKept
    DEF StepDownFinish, finishUnconditionalStepDown, candVars, history, TypeOK
  <1>k. ASSUME NEW n \in Server, crash(n) PROVE ElectionInv'
    <2>1. \A m \in Server \ {n} : term'[m] = term[m]
      BY <1>0, <1>k DEF crash, TypeOK
    <2> QED BY <1>0, <1>k, <2>1, ElectionMoves DEF crash, loseElection, endElection, TypeOK
  <1>t. ASSUME NEW c \in Command, StepDownAssertionFails(c) PROVE ElectionInv'
    BY <1>k, <1>t, CommandAssumption DEF StepDownAssertionFails
  <1>l. ASSUME NEW r \in requests, GrantVote(r) PROVE ElectionInv'
    BY <1>0, <1>l, ElectionsKept DEF GrantVote, candVars, history
  <1>r. ASSUME NEW n \in Server, WriteLastVoteFails(n) PROVE ElectionInv'
    BY <1>0, <1>r, ElectionMoves DEF WriteLastVoteFails, loseElection, endElection, history, TypeOK
  <1>s. ASSUME NEW r \in requests, StoreVoteFails(r) PROVE ElectionInv'
    BY <1>0, <1>s, ElectionsKept DEF StoreVoteFails, coordVars, candVars, history
  <1>m. ASSUME NEW r \in requests, RefuseVote(r) PROVE ElectionInv'
    <2>1. votes' = votes
      BY <1>0, <1>m DEF RefuseVote, processResponse, TypeOK
    <2> QED BY <1>0, <1>m, <2>1, ElectionsKept DEF RefuseVote, coordVars, history
  <1>n. ASSUME NEW r \in requests, StoreVote(r) PROVE ElectionInv'
    <2>1. /\ UNCHANGED <<term, role, phase, electionTerm, elected>>
          /\ castVotes' = castVotes \cup {<<r.voter, r.term, r.candidate>>}
          /\ processResponse(r.candidate, "requesting", r.term, r.voter, TRUE, r.term)
      BY <1>n DEF StoreVote, coordVars
    <2>2. CASE ~awaits(r.candidate, "requesting", r.term, r.voter)
      BY <1>0, <2>1, <2>2, ElectionsKept DEF processResponse
    <2>3. CASE awaits(r.candidate, "requesting", r.term, r.voter)
      <3>1. /\ votes' = [votes EXCEPT ![r.candidate] = @ \cup {r.voter}]
            /\ electionTerm[r.candidate] = r.term
            /\ r.candidate \in Server
        BY <1>0, <2>1, <2>3 DEF processResponse, awaits, TypeOK, Request
      <3>2. VotersCast'
        BY <1>0, <2>1, <3>1 DEF ElectionInv, VotersCast, TypeOK
      <3>3. WonByMajority'
        BY <2>1 DEF ElectionInv, WonByMajority
      <3>4. CandidateNotLeader' /\ PrimaryInElectedTerm'
        BY <2>1 DEF ElectionInv, CandidateNotLeader, PrimaryInElectedTerm
      <3> QED BY <1>0, <3>2, <3>3, <3>4 DEF ElectionInv
    <2> QED BY <2>2, <2>3
  <1>o. ASSUME UNCHANGED <<phase, electionTerm, votes, castVotes, elected, role, term>>
        PROVE  ElectionInv'
    BY <1>0, <1>o, ElectionsKept
  <1>p. ASSUME NEW n \in Server,
               \/ \E m \in Server : SyncFrom(n, m)
               \/ ResponsesFail(n)
               \/ DrainBegin(n) \/ DrainFinish(n)
               \/ StepDownSelf(n) \/ HeartbeatStepDownBegin(n)
        PROVE  UNCHANGED <<phase, electionTerm, votes, castVotes, elected, role, term>>
    BY <1>p DEF SyncFrom, ResponsesFail, DrainBegin, DrainFinish, StepDownSelf,
                HeartbeatStepDownBegin, coordVars, candVars, stepDownVars, history
  <1>u. ASSUME NEW c \in Command,
               \/ StepDownBegin(c) \/ TryStepDownSucceeds(c) \/ TryStepDownWaits(c)
               \/ StepDownReacquires(c) \/ StepDownAborts(c)
        PROVE  UNCHANGED <<phase, electionTerm, votes, castVotes, elected, role, term>>
    BY <1>u DEF StepDownBegin, TryStepDownSucceeds, TryStepDownWaits, StepDownReacquires,
                StepDownAborts, coordVars, candVars, history
  <1>q. CASE UNCHANGED vars
    BY <1>o, <1>q DEF vars, coordVars, candVars, history
  <1> QED
    BY <1>a, <1>b, <1>c, <1>d, <1>e, <1>f, <1>g, <1>h, <1>i, <1>j, <1>k, <1>l, <1>m, <1>n,
       <1>o, <1>p, <1>q, <1>r, <1>s, <1>t, <1>u DEF Next, ServerNext, CommandNext, Restart

(* A primary is only ever primary in the term it was elected for: _updateTerm_inlock *)
(* puts a newer term off until the member has stepped down.                          *)
THEOREM PrimaryKeepsTerm == Spec => []PrimaryInElectedTerm
  <1>1. ElectionInv => PrimaryInElectedTerm
    BY DEF ElectionInv
  <1> QED BY <1>1, InitElection, NextElection, PTL DEF Spec

\* Two majorities share a member, which has one vote.
LEMMA OneWinner == VoteInv /\ ElectionInv => OnePrimaryPerTerm
  <1> SUFFICES ASSUME VoteInv, ElectionInv, NEW a \in elected, NEW b \in elected, a[2] = b[2]
               PROVE  a = b
    BY DEF OnePrimaryPerTerm
  <1>1. PICK P \in SUBSET Server : IsMajority(P) /\ \A v \in P : <<v, a[2], a[1]>> \in castVotes
    BY DEF ElectionInv, WonByMajority
  <1>2. PICK Q \in SUBSET Server : IsMajority(Q) /\ \A v \in Q : <<v, b[2], b[1]>> \in castVotes
    BY DEF ElectionInv, WonByMajority
  <1>3. /\ Cardinality(P) \in Nat /\ Cardinality(Q) \in Nat /\ Cardinality(Server) \in Nat
        /\ IsFiniteSet(Server)
    BY ServerAssumption, FS_Subset, FS_CardinalityType
  <1>4. Cardinality(P) + Cardinality(Q) > Cardinality(Server)
    BY <1>1, <1>2, <1>3 DEF IsMajority
  <1>5. P \cap Q # {}
    BY <1>3, <1>4, FS_MajoritiesIntersect
  <1>6. PICK v \in Server : <<v, a[2], a[1]>> \in castVotes /\ <<v, a[2], b[1]>> \in castVotes
    BY <1>1, <1>2, <1>5
  <1>7. a[1] = b[1]
    BY <1>6, VoteInvOneVote DEF OneVotePerTerm
  <1>8. a = <<a[1], a[2]>> /\ b = <<b[1], b[2]>>
    BY DEF VoteInv, TypeInv, TypeOK
  <1> QED BY <1>7, <1>8

(* Election safety: at most one member ever wins the election of a term, for any      *)
(* number of members, terms and restarts.                                             *)
THEOREM ElectionSafety ==
    ASSUME VoteWhileSteppingDown = FALSE
    PROVE  Spec => []OnePrimaryPerTerm
  <1>1. VoteInv /\ [Next]_vars => VoteInv'
    BY NextVote
  <1> QED BY <1>1, InitVote, InitElection, NextElection, OneWinner, PTL DEF Spec

-----------------------------------------------------------------------------
\* Nobody steps down in a fresh replica set.
LEMMA InitStepDown == Init => StepDownInv
  BY InitType, CommandAssumption
  DEF Init, StepDownInv, CandidateNotLeader, ModesAgree, CommandsAgree, OneHolder,
      AttemptKeepsTerm, AttemptIsMade

\* Steps that no command takes: whoever holds the RSTL for a command keeps it, a step-down
\* that a command finishes is left alone, and a primary that is not stepping down is one
\* that was so before or has won an election in a newer term than any command has seen.
LEMMA CommandsKept ==
    ASSUME StepDownInv, TypeInv', UNCHANGED cmdVars,
           \A n \in Server : rstl[n] = "command" => rstl'[n] = "command",
           \A n \in Server : term[n] <= term'[n],
           \A n \in Server : rstl[n] = "command" /\ leaderMode[n] = "SteppingDown" /\ ~hbStepDown[n]
                => leaderMode'[n] = "SteppingDown" /\ ~hbStepDown'[n],
           \A n \in Server : leaderMode'[n] = "AttemptingStepDown"
                => leaderMode[n] = "AttemptingStepDown" /\ term'[n] = term[n],
           \A n \in Server : phase'[n] \in {"storing", "stored", "requesting"} =>
                \/ /\ phase[n] \in {"storing", "stored", "requesting"}
                   /\ electionTerm'[n] = electionTerm[n]
                \/ electionTerm'[n] > term[n],
           \A n \in Server :
                role'[n] = "Leader" /\ leaderMode'[n] \notin {"AttemptingStepDown", "SteppingDown"} =>
                \/ /\ role[n] = "Leader" /\ term'[n] = term[n]
                   /\ leaderMode[n] \notin {"AttemptingStepDown", "SteppingDown"}
                \/ phase[n] = "requesting" /\ term'[n] = electionTerm[n]
    PROVE  CommandsAgree' /\ OneHolder' /\ AttemptKeepsTerm' /\ AttemptIsMade'
  <1>1. TypeOK /\ TypeOK' /\ \A c \in Command : MemberOf[c] \in Server
    BY CommandAssumption DEF StepDownInv, TypeInv
  <1>2. CommandsAgree'
    BY <1>1 DEF StepDownInv, CommandsAgree, cmdVars
  <1>3. OneHolder'
    BY DEF StepDownInv, OneHolder, cmdVars
  <1>4. AttemptKeepsTerm'
    <2> SUFFICES ASSUME NEW c \in Command, NEW n \in Server, n = MemberOf[c],
                        command[c] \in {"trying", "waiting"}
                 PROVE  /\ termAtStart[c] <= term'[n]
                        /\ phase'[n] \in {"storing", "stored", "requesting"}
                            => electionTerm'[n] > termAtStart[c]
                        /\ role'[n] = "Leader" /\ term'[n] = termAtStart[c] /\ c \notin modeReset
                            => leaderMode'[n] \in {"AttemptingStepDown", "SteppingDown"}
      BY <1>1 DEF AttemptKeepsTerm, cmdVars
    <2>1. /\ termAtStart[c] <= term[n]
          /\ phase[n] \in {"storing", "stored", "requesting"} => electionTerm[n] > termAtStart[c]
          /\ role[n] = "Leader" /\ term[n] = termAtStart[c] /\ c \notin modeReset
                => leaderMode[n] \in {"AttemptingStepDown", "SteppingDown"}
      BY DEF StepDownInv, AttemptKeepsTerm
    <2>2. /\ termAtStart[c] \in Int /\ term[n] \in Int /\ term'[n] \in Int
          /\ electionTerm[n] \in Int /\ electionTerm'[n] \in Int
      BY <1>1, BoundAssumption DEF TypeOK, Term
    <2>3. termAtStart[c] <= term'[n]
      BY <2>1, <2>2
    <2>4. phase'[n] \in {"storing", "stored", "requesting"} => electionTerm'[n] > termAtStart[c]
      BY <2>1, <2>2
    <2>5. role'[n] = "Leader" /\ term'[n] = termAtStart[c] /\ c \notin modeReset
            => leaderMode'[n] \in {"AttemptingStepDown", "SteppingDown"}
      BY <2>1, <2>2
    <2> QED BY <2>3, <2>4, <2>5
  <1>5. AttemptIsMade'
    <2> SUFFICES ASSUME NEW n \in Server, leaderMode'[n] = "AttemptingStepDown"
                 PROVE  \E c \in Command : MemberOf[c] = n /\ Attempts(c)'
      BY DEF AttemptIsMade
    <2>1. PICK c \in Command : MemberOf[c] = n /\ Attempts(c)
      BY DEF StepDownInv, AttemptIsMade
    <2> QED BY <2>1 DEF Attempts, cmdVars
  <1> QED BY <1>2, <1>3, <1>4, <1>5

\* updateTerm starts a step-down or leaves one alone; the term of a primary stays.
LEMMA UpdateTermStepDown ==
    ASSUME StepDownInv, TypeInv', NEW v \in Server, NEW t \in Term, updateTerm(v, t),
           UNCHANGED <<role, phase, electionTerm, cmdVars, rstl>>
    PROVE  StepDownInv'
  <1>1. TypeOK /\ TypeOK'
    BY DEF StepDownInv, TypeInv
  <1>2. CandidateNotLeader'
    BY DEF StepDownInv, CandidateNotLeader
  <1>3. ModesAgree'
    BY <1>1 DEF StepDownInv, ModesAgree, updateTerm, TypeOK
  <1>4. \A m \in Server : term[m] <= term'[m] /\ (role[m] = "Leader" => term'[m] = term[m])
    BY <1>1, UpdateTermRises
  <1>5. \A m \in Server : leaderMode'[m] = leaderMode[m] \/ leaderMode'[m] = "SteppingDown"
    BY <1>1 DEF updateTerm, TypeOK
  <1>6. \A m \in Server : leaderMode[m] = "SteppingDown" /\ ~hbStepDown[m]
            => leaderMode'[m] = "SteppingDown" /\ ~hbStepDown'[m]
    BY <1>1 DEF updateTerm, TypeOK
  <1>7. \A m \in Server : leaderMode[m] = "AttemptingStepDown" => role[m] = "Leader"
    BY DEF StepDownInv, ModesAgree
  <1>8. CommandsAgree' /\ OneHolder' /\ AttemptKeepsTerm' /\ AttemptIsMade'
    BY <1>4, <1>5, <1>6, <1>7, CommandsKept
  <1> QED BY <1>2, <1>3, <1>8 DEF StepDownInv

\* A real election of n starts in a new term.
LEMMA RealElectionStepDown ==
    ASSUME StepDownInv, TypeInv', NEW n \in Server, startRealElection(n, term[n] + 1),
           role[n] # "Leader", role' = [role EXCEPT ![n] = "Candidate"] \/ UNCHANGED role,
           UNCHANGED <<leaderMode, stepDownVars>>
    PROVE  StepDownInv'
  <1>1. TypeOK /\ TypeOK'
    BY DEF StepDownInv, TypeInv
  <1>2. CandidateNotLeader'
    BY <1>1 DEF StepDownInv, CandidateNotLeader, startRealElection, TypeOK
  <1>3. ModesAgree'
    BY <1>1 DEF StepDownInv, ModesAgree, stepDownVars, TypeOK
  <1>4. /\ \A m \in Server : term[m] <= term'[m] /\ (m # n => term'[m] = term[m])
        /\ \A m \in Server : m # n =>
                phase'[m] = phase[m] /\ electionTerm'[m] = electionTerm[m] /\ role'[m] = role[m]
        /\ electionTerm'[n] > term[n] /\ role'[n] # "Leader"
        /\ leaderMode[n] = "NotLeader"
    BY <1>1, BoundAssumption DEF StepDownInv, ModesAgree, startRealElection, TypeOK, Term
  <1>5. CommandsAgree' /\ OneHolder' /\ AttemptKeepsTerm' /\ AttemptIsMade'
    BY <1>4, CommandsKept DEF stepDownVars
  <1> QED BY <1>2, <1>3, <1>5 DEF StepDownInv

\* The phase of an election changes, no term and no mode.
LEMMA PhaseStepDown ==
    ASSUME StepDownInv, TypeInv', NEW n \in Server, role[n] # "Leader", role'[n] # "Leader",
           \A m \in Server : m # n =>
                phase'[m] = phase[m] /\ electionTerm'[m] = electionTerm[m] /\ role'[m] = role[m],
           phase'[n] \in {"storing", "stored", "requesting"} =>
                /\ phase[n] \in {"storing", "stored", "requesting"}
                /\ electionTerm'[n] = electionTerm[n],
           UNCHANGED <<term, leaderMode, hbStepDown, cmdVars, rstl>>
    PROVE  StepDownInv'
  <1>1. TypeOK /\ TypeOK'
    BY DEF StepDownInv, TypeInv
  <1>2. CandidateNotLeader' /\ ModesAgree'
    BY DEF StepDownInv, CandidateNotLeader, ModesAgree
  <1>3. \A m \in Server : term[m] <= term'[m]
    BY <1>1, BoundAssumption DEF TypeOK, Term
  <1>4. CommandsAgree' /\ OneHolder' /\ AttemptKeepsTerm' /\ AttemptIsMade'
    BY <1>3, CommandsKept
  <1> QED BY <1>2, <1>4 DEF StepDownInv

\* An election of n is lost.
LEMMA LoseElectionStepDown ==
    ASSUME StepDownInv, TypeInv', NEW n \in Server, loseElection(n), role[n] # "Leader",
           UNCHANGED <<term, leaderMode, hbStepDown, cmdVars, rstl>>
    PROVE  StepDownInv'
  <1>1. TypeOK
    BY DEF StepDownInv, TypeInv
  <1> QED BY <1>1, PhaseStepDown DEF loseElection, endElection, TypeOK

\* A crash ends every step-down of the member.
LEMMA CrashStepDown ==
    ASSUME StepDownInv, TypeInv', NEW n \in Server, crash(n)
    PROVE  StepDownInv'
  <1>1. TypeOK /\ TypeOK' /\ \A c \in Command : MemberOf[c] \in Server
    BY CommandAssumption DEF StepDownInv, TypeInv
  <1>2. /\ \A m \in Server : m # n =>
            /\ term'[m] = term[m] /\ role'[m] = role[m] /\ leaderMode'[m] = leaderMode[m]
            /\ phase'[m] = phase[m] /\ electionTerm'[m] = electionTerm[m]
            /\ hbStepDown'[m] = hbStepDown[m] /\ rstl'[m] = rstl[m]
        /\ role'[n] = "Follower" /\ leaderMode'[n] = "NotLeader" /\ phase'[n] = "none"
        /\ ~hbStepDown'[n] /\ rstl'[n] = "free"
    BY <1>1 DEF crash, loseElection, endElection, TypeOK
  <1>3. /\ \A c \in Command : MemberOf[c] # n =>
            command'[c] = command[c] /\ (c \in modeReset' <=> c \in modeReset)
        /\ \A c \in Command : MemberOf[c] = n => command'[c] = "none" /\ c \notin modeReset'
        /\ UNCHANGED <<previousLeaderMode, termAtStart>>
    BY DEF crash
  <1>4. CandidateNotLeader' /\ ModesAgree'
    BY <1>2 DEF StepDownInv, CandidateNotLeader, ModesAgree
  <1>5. CommandsAgree'
    BY <1>1, <1>2, <1>3 DEF StepDownInv, CommandsAgree
  <1>6. OneHolder'
    BY <1>3 DEF StepDownInv, OneHolder
  <1>7. AttemptKeepsTerm'
    BY <1>1, <1>2, <1>3 DEF StepDownInv, AttemptKeepsTerm
  <1>8. AttemptIsMade'
    BY <1>2, <1>3 DEF StepDownInv, AttemptIsMade, Attempts
  <1> QED BY <1>4, <1>5, <1>6, <1>7, <1>8 DEF StepDownInv

-----------------------------------------------------------------------------
(* The steps of a command c.  What a step does to other commands of the same member is *)
(* limited by the RSTL: at most one of them holds it.                                  *)

\* A command begins: the RSTL was free, so no other command holds it.
LEMMA BeginStepDown ==
    ASSUME StepDownInv, TypeInv', NEW c \in Command, StepDownBegin(c)
    PROVE  StepDownInv'
  <1> DEFINE n == MemberOf[c]
  <1>1. TypeOK /\ TypeOK' /\ n \in Server /\ \A d \in Command : MemberOf[d] \in Server
    BY CommandAssumption DEF StepDownInv, TypeInv
  <1>2. /\ command[c] = "none" /\ rstl[n] = "free" /\ leaderMode[n] \in {"LeaderElect", "Master"}
        /\ command' = [command EXCEPT ![c] = "trying"]
        /\ previousLeaderMode' = [previousLeaderMode EXCEPT ![c] = leaderMode[n]]
        /\ termAtStart' = [termAtStart EXCEPT ![c] = term[n]]
        /\ leaderMode' = [leaderMode EXCEPT ![n] = "AttemptingStepDown"]
        /\ rstl' = [rstl EXCEPT ![n] = "command"]
        /\ UNCHANGED <<term, role, phase, electionTerm, hbStepDown, modeReset>>
    BY DEF StepDownBegin, candVars
  <1>3. role[n] = "Leader" /\ ~hbStepDown[n] /\ phase[n] = "none" /\ c \notin modeReset
    BY <1>1, <1>2 DEF StepDownInv, ModesAgree, CandidateNotLeader, CommandsAgree
  <1>4. CandidateNotLeader' /\ ModesAgree'
    BY <1>1, <1>2, <1>3 DEF StepDownInv, CandidateNotLeader, ModesAgree, TypeOK
  <1>5. \A d \in Command : MemberOf[d] = n => command[d] \notin {"trying", "finishing"}
    BY <1>2 DEF StepDownInv, CommandsAgree
  <1>6. CommandsAgree'
    BY <1>1, <1>2, <1>3, <1>5 DEF StepDownInv, CommandsAgree, TypeOK
  <1>7. OneHolder'
    BY <1>1, <1>2, <1>5 DEF StepDownInv, OneHolder, TypeOK
  <1>8. AttemptKeepsTerm'
    BY <1>1, <1>2, <1>3, BoundAssumption DEF StepDownInv, AttemptKeepsTerm, TypeOK, Term
  <1>9. AttemptIsMade'
    <2> SUFFICES ASSUME NEW m \in Server, leaderMode'[m] = "AttemptingStepDown"
                 PROVE  \E d \in Command : MemberOf[d] = m /\ Attempts(d)'
      BY DEF AttemptIsMade
    <2>1. CASE m = n
      BY <1>1, <1>2, <1>3, <2>1 DEF Attempts, TypeOK
    <2>2. CASE m # n
      <3>1. PICK d \in Command : MemberOf[d] = m /\ Attempts(d)
        BY <1>1, <1>2, <2>2 DEF StepDownInv, AttemptIsMade, TypeOK
      <3> QED BY <1>1, <1>2, <2>2, <3>1 DEF Attempts, TypeOK
    <2> QED BY <2>1, <2>2
  <1> QED BY <1>4, <1>6, <1>7, <1>8, <1>9 DEF StepDownInv

\* A command's attempt succeeds, or it lets go of the RSTL for a while.
LEMMA TryStepDown ==
    ASSUME StepDownInv, TypeInv', NEW c \in Command,
           TryStepDownSucceeds(c) \/ TryStepDownWaits(c) \/ StepDownReacquires(c)
    PROVE  StepDownInv'
  <1> DEFINE n == MemberOf[c]
  <1>1. TypeOK /\ TypeOK' /\ n \in Server /\ \A d \in Command : MemberOf[d] \in Server
    BY CommandAssumption DEF StepDownInv, TypeInv
  <1>2. CASE TryStepDownSucceeds(c)
    <2>1. /\ command[c] = "trying" /\ leaderMode[n] = "AttemptingStepDown" /\ role[n] = "Leader"
          /\ command' = [command EXCEPT ![c] = "finishing"]
          /\ leaderMode' = [leaderMode EXCEPT ![n] = "SteppingDown"]
          /\ UNCHANGED <<term, role, phase, electionTerm, hbStepDown, previousLeaderMode,
                         termAtStart, modeReset, rstl>>
      BY <1>2 DEF TryStepDownSucceeds, mayStartStepDown, candVars
    <2>2. ~hbStepDown[n] /\ rstl[n] = "command"
      BY <1>1, <2>1 DEF StepDownInv, ModesAgree, CommandsAgree
    <2>3. CandidateNotLeader' /\ ModesAgree'
      BY <1>1, <2>1, <2>2 DEF StepDownInv, CandidateNotLeader, ModesAgree, TypeOK
    <2>4. CommandsAgree'
      BY <1>1, <2>1, <2>2 DEF StepDownInv, CommandsAgree, TypeOK
    <2>5. OneHolder'
      BY <1>1, <2>1 DEF StepDownInv, OneHolder, TypeOK
    <2>6. AttemptKeepsTerm'
      BY <1>1, <2>1 DEF StepDownInv, AttemptKeepsTerm, TypeOK
    <2>7. AttemptIsMade'
      <3> SUFFICES ASSUME NEW m \in Server, leaderMode'[m] = "AttemptingStepDown"
                   PROVE  \E d \in Command : MemberOf[d] = m /\ Attempts(d)'
        BY DEF AttemptIsMade
      <3>1. m # n /\ leaderMode[m] = "AttemptingStepDown"
        BY <1>1, <2>1 DEF TypeOK
      <3>2. PICK d \in Command : MemberOf[d] = m /\ Attempts(d)
        BY <3>1 DEF StepDownInv, AttemptIsMade
      <3>3. d # c /\ command'[d] = command[d]
        BY <1>1, <2>1, <3>1, <3>2 DEF TypeOK
      <3> QED BY <2>1, <3>2, <3>3 DEF Attempts
    <2> QED BY <2>3, <2>4, <2>5, <2>6, <2>7 DEF StepDownInv
  <1>3. CASE TryStepDownWaits(c) \/ StepDownReacquires(c)
    <2>1. PICK new \in {"trying", "waiting"} :
            /\ command[c] \in {"trying", "waiting"}
            /\ new = "trying" => rstl[n] = "free"
            /\ new = "waiting" => command[c] = "trying"
            /\ command' = [command EXCEPT ![c] = new]
            /\ rstl' = [rstl EXCEPT ![n] = IF new = "trying" THEN "command" ELSE "free"]
            /\ UNCHANGED <<term, role, leaderMode, phase, electionTerm, hbStepDown,
                           previousLeaderMode, termAtStart, modeReset>>
      BY <1>3 DEF TryStepDownWaits, StepDownReacquires, coordVars, candVars
    <2>2. CandidateNotLeader' /\ ModesAgree'
      BY <1>1, <2>1 DEF StepDownInv, CandidateNotLeader, ModesAgree, TypeOK
    <2>3. \A d \in Command : MemberOf[d] = n /\ command[d] \in {"trying", "finishing"} => d = c
      BY <2>1 DEF StepDownInv, CommandsAgree, OneHolder
    <2>4. CommandsAgree'
      BY <1>1, <2>1, <2>3 DEF StepDownInv, CommandsAgree, TypeOK
    <2>5. OneHolder'
      BY <1>1, <2>1, <2>3 DEF StepDownInv, OneHolder, TypeOK
    <2>6. AttemptKeepsTerm'
      BY <1>1, <2>1 DEF StepDownInv, AttemptKeepsTerm, TypeOK
    <2>7. AttemptIsMade'
      <3>1. \A d \in Command : Attempts(d) => Attempts(d)'
        BY <1>1, <2>1 DEF Attempts, TypeOK
      <3> QED BY <2>1, <3>1 DEF StepDownInv, AttemptIsMade
    <2> QED BY <2>2, <2>4, <2>5, <2>6, <2>7 DEF StepDownInv
  <1> QED BY <1>2, <1>3

\* A command ends without a step-down.  If it sets the mode back, the commands that wait
\* have lost the attempt.
LEMMA AbortStepDown ==
    ASSUME StepDownInv, TypeInv', NEW c \in Command, StepDownAborts(c)
    PROVE  StepDownInv'
  <1> DEFINE n == MemberOf[c]
  <1>1. TypeOK /\ TypeOK' /\ n \in Server /\ \A d \in Command : MemberOf[d] \in Server
    BY CommandAssumption DEF StepDownInv, TypeInv
  <1>2. /\ command[c] = "trying"
        /\ command' = [command EXCEPT ![c] = "none"]
        /\ rstl' = [rstl EXCEPT ![n] = "free"]
        /\ UNCHANGED <<term, role, phase, electionTerm, hbStepDown, previousLeaderMode, termAtStart>>
    BY DEF StepDownAborts, candVars
  <1>3. \A d \in Command : MemberOf[d] = n /\ command[d] \in {"trying", "finishing"} => d = c
    BY <1>2 DEF StepDownInv, OneHolder
  <1>4. previousLeaderMode[c] \in {"LeaderElect", "Master"}
    BY <1>1, <1>2 DEF StepDownInv, CommandsAgree, TypeOK
  <1>5. /\ \A m \in Server : m # n => leaderMode'[m] = leaderMode[m]
        /\ leaderMode[n] = "AttemptingStepDown" =>
            /\ leaderMode' = [leaderMode EXCEPT ![n] = previousLeaderMode[c]]
            /\ leaderMode'[n] \in {"LeaderElect", "Master"}
            /\ \A d \in Command : d \in modeReset' <=>
                    d # c /\ (d \in modeReset \/ (MemberOf[d] = n /\ command[d] = "waiting"))
        /\ leaderMode[n] # "AttemptingStepDown" =>
            leaderMode' = leaderMode /\ modeReset' = modeReset \ {c}
    BY <1>1, <1>4 DEF StepDownAborts, abortFn, TypeOK
  <1>6. CandidateNotLeader' /\ ModesAgree'
    BY <1>1, <1>2, <1>4, <1>5 DEF StepDownInv, CandidateNotLeader, ModesAgree, TypeOK
  <1>7. CommandsAgree'
    <2> SUFFICES ASSUME NEW d \in Command
                 PROVE  /\ command'[d] \in {"trying", "finishing"} => rstl'[MemberOf[d]] = "command"
                        /\ command'[d] # "none" => previousLeaderMode'[d] # "NotLeader"
                        /\ command'[d] = "finishing" =>
                            leaderMode'[MemberOf[d]] = "SteppingDown" /\ ~hbStepDown'[MemberOf[d]]
                        /\ d \in modeReset' => command'[d] # "none"
      BY DEF CommandsAgree
    <2>1. CASE d = c
      BY <1>1, <1>2, <1>5, <2>1 DEF TypeOK
    <2>2. CASE d # c
      BY <1>1, <1>2, <1>3, <1>5, <2>2 DEF StepDownInv, CommandsAgree, TypeOK
    <2> QED BY <2>1, <2>2
  <1>8. OneHolder'
    BY <1>1, <1>2 DEF StepDownInv, OneHolder, TypeOK
  <1>9. AttemptKeepsTerm'
    <2> SUFFICES ASSUME NEW d \in Command, command'[d] \in {"trying", "waiting"}
                 PROVE  /\ termAtStart[d] <= term[MemberOf[d]]
                        /\ phase[MemberOf[d]] \in {"storing", "stored", "requesting"}
                            => electionTerm[MemberOf[d]] > termAtStart[d]
                        /\ /\ role[MemberOf[d]] = "Leader"
                           /\ term[MemberOf[d]] = termAtStart[d]
                           /\ d \notin modeReset'
                           => leaderMode'[MemberOf[d]] \in {"AttemptingStepDown", "SteppingDown"}
      BY <1>2 DEF AttemptKeepsTerm
    <2>1. d # c /\ command[d] \in {"trying", "waiting"}
      BY <1>1, <1>2 DEF TypeOK
    <2>2. MemberOf[d] = n => command[d] = "waiting"
      BY <1>3, <2>1
    <2>3. d \notin modeReset' => d \notin modeReset
      BY <1>5, <2>1
    <2>4. /\ termAtStart[d] <= term[MemberOf[d]]
          /\ phase[MemberOf[d]] \in {"storing", "stored", "requesting"}
                => electionTerm[MemberOf[d]] > termAtStart[d]
          /\ role[MemberOf[d]] = "Leader" /\ term[MemberOf[d]] = termAtStart[d] /\ d \notin modeReset
                => leaderMode[MemberOf[d]] \in {"AttemptingStepDown", "SteppingDown"}
      BY <2>1 DEF StepDownInv, AttemptKeepsTerm
    <2> QED BY <1>1, <1>5, <2>1, <2>2, <2>3, <2>4
  <1>10. AttemptIsMade'
    <2> SUFFICES ASSUME NEW m \in Server, leaderMode'[m] = "AttemptingStepDown"
                 PROVE  \E d \in Command : MemberOf[d] = m /\ Attempts(d)'
      BY DEF AttemptIsMade
    <2>1. m # n /\ leaderMode[m] = "AttemptingStepDown"
      BY <1>5
    <2>2. PICK d \in Command : MemberOf[d] = m /\ Attempts(d)
      BY <2>1 DEF StepDownInv, AttemptIsMade
    <2>3. d # c /\ command'[d] = command[d]
      BY <1>1, <1>2, <2>1, <2>2 DEF TypeOK
    <2> QED BY <1>2, <1>5, <2>1, <2>2, <2>3 DEF Attempts
  <1> QED BY <1>6, <1>7, <1>8, <1>9, <1>10 DEF StepDownInv

\* A command completes its step-down.
LEMMA FinishStepDown ==
    ASSUME StepDownInv, TypeInv', NEW c \in Command, StepDownFinish(c)
    PROVE  StepDownInv'
  <1> DEFINE n == MemberOf[c]
  <1>1. TypeOK /\ TypeOK' /\ n \in Server /\ \A d \in Command : MemberOf[d] \in Server
    BY CommandAssumption DEF StepDownInv, TypeInv
  <1>2. /\ command[c] = "finishing"
        /\ command' = [command EXCEPT ![c] = "none"]
        /\ role' = [role EXCEPT ![n] = "Follower"]
        /\ leaderMode' = [leaderMode EXCEPT ![n] = "NotLeader"]
        /\ rstl' = [rstl EXCEPT ![n] = "free"]
        /\ modeReset' = modeReset \ {c}
        /\ UNCHANGED <<term, phase, electionTerm, hbStepDown, previousLeaderMode, termAtStart>>
    BY DEF StepDownFinish, finishUnconditionalStepDown, candVars
  <1>3. \A d \in Command : MemberOf[d] = n /\ command[d] \in {"trying", "finishing"} => d = c
    BY <1>2 DEF StepDownInv, OneHolder
  <1>4. ~hbStepDown[n]
    BY <1>2 DEF StepDownInv, CommandsAgree
  <1>5. CandidateNotLeader' /\ ModesAgree'
    BY <1>1, <1>2, <1>4 DEF StepDownInv, CandidateNotLeader, ModesAgree, TypeOK
  <1>6. CommandsAgree'
    BY <1>1, <1>2, <1>3 DEF StepDownInv, CommandsAgree, TypeOK
  <1>7. OneHolder'
    BY <1>1, <1>2 DEF StepDownInv, OneHolder, TypeOK
  <1>8. AttemptKeepsTerm'
    BY <1>1, <1>2 DEF StepDownInv, AttemptKeepsTerm, TypeOK
  <1>9. AttemptIsMade'
    <2> SUFFICES ASSUME NEW m \in Server, leaderMode'[m] = "AttemptingStepDown"
                 PROVE  \E d \in Command : MemberOf[d] = m /\ Attempts(d)'
      BY DEF AttemptIsMade
    <2>1. m # n /\ leaderMode[m] = "AttemptingStepDown"
      BY <1>1, <1>2 DEF TypeOK
    <2>2. PICK d \in Command : MemberOf[d] = m /\ Attempts(d)
      BY <2>1 DEF StepDownInv, AttemptIsMade
    <2>3. d # c /\ command'[d] = command[d]
      BY <1>1, <1>2, <2>1, <2>2 DEF TypeOK
    <2> QED BY <1>2, <2>2, <2>3 DEF Attempts
  <1> QED BY <1>5, <1>6, <1>7, <1>8, <1>9 DEF StepDownInv

-----------------------------------------------------------------------------
\* Every step keeps the invariant of the step-downs.
LEMMA NextStepDown == StepDownInv /\ [Next]_vars => StepDownInv'
  <1> SUFFICES ASSUME StepDownInv, [Next]_vars PROVE StepDownInv'
    OBVIOUS
  <1>0. TypeInv' /\ TypeInv /\ TypeOK /\ TypeOK'
    BY NextType DEF StepDownInv, TypeInv
  <1>a. ASSUME NEW n \in Server, NEW m \in Server, LearnTerm(n, m) PROVE StepDownInv'
    <2>1. PICK t \in (term[n] + 1)..term[m] : updateTerm(n, t)
      BY <1>a DEF LearnTerm
    <2>2. t \in Term
      BY <1>0, BoundAssumption DEF TypeOK, Term
    <2> QED BY <1>0, <1>a, <2>1, <2>2, UpdateTermStepDown DEF LearnTerm, candVars
  <1>b. ASSUME NEW n \in Server, NEW v \in Server, DryRunResponse(n, v) PROVE StepDownInv'
    <2>1. electionTerm[n] \in Term
      BY <1>0 DEF TypeOK
    <2> QED BY <1>0, <1>b, <2>1, UpdateTermStepDown DEF DryRunResponse
  <1>c. ASSUME NEW r \in requests, ReceiveVoteRequest(r) PROVE StepDownInv'
    <2>1. r.term \in Term /\ r.voter \in Server
      BY <1>0 DEF TypeOK, Request
    <2> QED BY <1>0, <1>c, <2>1, UpdateTermStepDown DEF ReceiveVoteRequest, candVars
  <1>d. ASSUME NEW n \in Server, StartElection(n) PROVE StepDownInv'
    <2>1. /\ UNCHANGED <<leaderMode, stepDownVars>> /\ role[n] # "Leader"
          /\ role' = [role EXCEPT ![n] = "Candidate"]
      BY <1>d DEF StartElection
    <2>2. CASE startRealElection(n, term[n] + 1)
      BY <1>0, <2>1, <2>2, RealElectionStepDown
    <2>3. CASE startVoteRequester(n, "dryRun", term[n]) /\ UNCHANGED <<term, lastVote>>
      BY <1>0, <2>1, <2>3, PhaseStepDown DEF startVoteRequester, stepDownVars, TypeOK
    <2> QED BY <1>d, <2>2, <2>3 DEF StartElection
  <1>e. ASSUME NEW n \in Server, ProcessDryRunResult(n) PROVE StepDownInv'
    <2>1. UNCHANGED <<leaderMode, stepDownVars>> /\ role[n] # "Leader"
      BY <1>e DEF ProcessDryRunResult, StepDownInv, CandidateNotLeader
    <2>2. CASE term[n] = electionTerm[n] /\ successfullyElected(n)
      BY <1>0, <1>e, <2>1, <2>2, RealElectionStepDown DEF ProcessDryRunResult
    <2>3. CASE ~(term[n] = electionTerm[n] /\ successfullyElected(n))
      BY <1>0, <1>e, <2>1, <2>3, LoseElectionStepDown DEF ProcessDryRunResult, stepDownVars
    <2> QED BY <2>2, <2>3
  <1>f. ASSUME NEW n \in Server, WriteLastVoteForMyElection(n) PROVE StepDownInv'
    <2>1. role[n] # "Leader"
      BY <1>f DEF WriteLastVoteForMyElection, StepDownInv, CandidateNotLeader
    <2> QED BY <1>0, <1>f, <2>1, PhaseStepDown
      DEF WriteLastVoteForMyElection, coordVars, stepDownVars, TypeOK
  <1>g. ASSUME NEW n \in Server, StartVoteRequester(n) PROVE StepDownInv'
    <2>1. UNCHANGED <<term, leaderMode, stepDownVars>> /\ role[n] # "Leader" /\ phase[n] = "stored"
      BY <1>g DEF StartVoteRequester, StepDownInv, CandidateNotLeader
    <2>2. CASE term[n] = electionTerm[n]
      <3>1. /\ phase' = [phase EXCEPT ![n] = "requesting"]
            /\ electionTerm' = electionTerm /\ role' = role
        BY <1>0, <1>g, <2>2 DEF StartVoteRequester, startVoteRequester, TypeOK
      <3> QED BY <1>0, <2>1, <3>1, PhaseStepDown DEF stepDownVars, TypeOK
    <2>3. CASE term[n] # electionTerm[n]
      BY <1>0, <1>g, <2>1, <2>3, LoseElectionStepDown DEF StartVoteRequester, stepDownVars
    <2> QED BY <2>2, <2>3
  <1>h. ASSUME NEW n \in Server, OnVoteRequestComplete(n) PROVE StepDownInv'
    <2>1. UNCHANGED <<term, hbStepDown, cmdVars, rstl>> /\ role[n] # "Leader"
          /\ phase[n] = "requesting"
      BY <1>h DEF OnVoteRequestComplete, StepDownInv, CandidateNotLeader
    <2>2. CASE term[n] = electionTerm[n] /\ successfullyElected(n)
      <3>1. /\ role' = [role EXCEPT ![n] = "Leader"]
            /\ leaderMode' = [leaderMode EXCEPT ![n] = "LeaderElect"]
            /\ phase' = [phase EXCEPT ![n] = "none"]
            /\ \A m \in Server \ {n} : electionTerm'[m] = electionTerm[m]
        BY <1>0, <1>h, <2>2 DEF OnVoteRequestComplete, endElection, TypeOK
      <3>2. CandidateNotLeader'
        BY <1>0, <3>1 DEF StepDownInv, CandidateNotLeader, TypeOK
      <3>3. ModesAgree'
        <4>1. rstl[n] # "heartbeat" /\ ~hbStepDown[n]
          BY <2>1 DEF StepDownInv, ModesAgree
        <4> QED BY <1>0, <2>1, <3>1, <4>1 DEF StepDownInv, ModesAgree, TypeOK
      <3>4. /\ \A m \in Server : term[m] <= term'[m]
            /\ \A m \in Server : m # n => phase'[m] = phase[m] /\ role'[m] = role[m]
                                         /\ leaderMode'[m] = leaderMode[m]
            /\ leaderMode[n] # "SteppingDown" /\ leaderMode'[n] = "LeaderElect" /\ phase'[n] = "none"
        BY <1>0, <2>1, <3>1, BoundAssumption DEF StepDownInv, ModesAgree, TypeOK, Term
      <3>5. CommandsAgree' /\ OneHolder' /\ AttemptKeepsTerm' /\ AttemptIsMade'
        BY <1>0, <2>1, <2>2, <3>1, <3>4, CommandsKept
      <3> QED BY <1>0, <3>2, <3>3, <3>5 DEF StepDownInv
    <2>3. CASE ~(term[n] = electionTerm[n] /\ successfullyElected(n))
      BY <1>0, <1>h, <2>1, <2>3, LoseElectionStepDown DEF OnVoteRequestComplete
    <2> QED BY <2>2, <2>3
  <1>i. ASSUME NEW n \in Server, HeartbeatStepDownFinish(n) PROVE StepDownInv'
    <2>1. CandidateNotLeader' /\ ModesAgree'
      BY <1>0, <1>i DEF StepDownInv, CandidateNotLeader, ModesAgree, HeartbeatStepDownFinish,
                        finishUnconditionalStepDown, candVars, TypeOK
    <2>2. \A m \in Server : term[m] <= term'[m] /\ (m # n => term'[m] = term[m])
      BY <1>0, <1>i, BoundAssumption DEF HeartbeatStepDownFinish, takePendingTerm, MaxOf, TypeOK, Term
    <2>3. /\ rstl[n] = "heartbeat" /\ role'[n] = "Follower" /\ leaderMode'[n] = "NotLeader"
          /\ \A m \in Server : m # n =>
                /\ rstl'[m] = rstl[m] /\ role'[m] = role[m] /\ leaderMode'[m] = leaderMode[m]
                /\ hbStepDown'[m] = hbStepDown[m]
          /\ UNCHANGED <<phase, electionTerm, cmdVars>>
      BY <1>0, <1>i DEF HeartbeatStepDownFinish, finishUnconditionalStepDown, candVars, TypeOK
    <2>4. CommandsAgree' /\ OneHolder' /\ AttemptKeepsTerm' /\ AttemptIsMade'
      BY <1>0, <2>2, <2>3, CommandsKept
    <2> QED BY <1>0, <2>1, <2>4 DEF StepDownInv
  <1>l. ASSUME NEW n \in Server,
               DrainBegin(n) \/ DrainFinish(n) \/ HeartbeatStepDownBegin(n) \/ StepDownSelf(n)
        PROVE  StepDownInv'
    <2>1. /\ UNCHANGED <<term, role, phase, electionTerm, cmdVars>>
          /\ \A m \in Server : term[m] <= term'[m]
      BY <1>0, <1>l, BoundAssumption
      DEF DrainBegin, DrainFinish, HeartbeatStepDownBegin, StepDownSelf, coordVars, candVars, TypeOK, Term
    <2>2. /\ \A m \in Server : rstl[m] = "command" => rstl'[m] = "command"
          /\ \A m \in Server : leaderMode[m] = "SteppingDown"
                => leaderMode'[m] = "SteppingDown" /\ hbStepDown'[m] = hbStepDown[m]
          /\ \A m \in Server : leaderMode'[m] = "AttemptingStepDown"
                => leaderMode[m] = "AttemptingStepDown"
          /\ \A m \in Server : leaderMode'[m] \notin {"AttemptingStepDown", "SteppingDown"}
                => leaderMode[m] \notin {"AttemptingStepDown", "SteppingDown"}
      <3>1. CASE DrainBegin(n) \/ HeartbeatStepDownBegin(n)
        BY <1>0, <3>1 DEF DrainBegin, HeartbeatStepDownBegin, coordVars, TypeOK
      <3>2. CASE DrainFinish(n)
        BY <1>0, <3>2 DEF DrainFinish, TypeOK
      <3>3. CASE StepDownSelf(n)
        <4>1. \A m \in Server : leaderMode[m] = "SteppingDown" => m # n
          BY <3>3 DEF StepDownSelf
        <4>2. \A m \in Server : m # n =>
                leaderMode'[m] = leaderMode[m] /\ hbStepDown'[m] = hbStepDown[m]
          BY <1>0, <3>3 DEF StepDownSelf, TypeOK
        <4>3. leaderMode'[n] = "SteppingDown" /\ UNCHANGED rstl
          BY <1>0, <3>3 DEF StepDownSelf, TypeOK
        <4> QED BY <4>1, <4>2, <4>3
      <3> QED BY <1>l, <3>1, <3>2, <3>3
    <2>3. CandidateNotLeader'
      BY <2>1 DEF StepDownInv, CandidateNotLeader
    <2>4. ModesAgree'
      <3>1. CASE DrainBegin(n) \/ HeartbeatStepDownBegin(n)
        BY <1>0, <3>1 DEF StepDownInv, ModesAgree, DrainBegin, HeartbeatStepDownBegin, coordVars, TypeOK
      <3>2. CASE DrainFinish(n)
        BY <1>0, <3>2 DEF StepDownInv, ModesAgree, DrainFinish, TypeOK
      <3>3. CASE StepDownSelf(n)
        BY <1>0, <3>3 DEF StepDownInv, ModesAgree, StepDownSelf, TypeOK
      <3> QED BY <1>l, <3>1, <3>2, <3>3
    <2>5. CommandsAgree' /\ OneHolder' /\ AttemptKeepsTerm' /\ AttemptIsMade'
      BY <1>0, <2>1, <2>2, CommandsKept
    <2> QED BY <1>0, <2>3, <2>4, <2>5 DEF StepDownInv
  <1>j. ASSUME NEW c \in Command,
               \/ StepDownBegin(c) \/ TryStepDownSucceeds(c) \/ TryStepDownWaits(c)
               \/ StepDownReacquires(c) \/ StepDownAborts(c) \/ StepDownFinish(c)
        PROVE  StepDownInv'
    BY <1>0, <1>j, BeginStepDown, TryStepDown, AbortStepDown, FinishStepDown
  <1>m. ASSUME NEW n \in Server, crash(n) PROVE StepDownInv'
    BY <1>0, <1>m, CrashStepDown
  <1>k. ASSUME NEW c \in Command, StepDownAssertionFails(c) PROVE StepDownInv'
    BY <1>k, <1>m, CommandAssumption DEF StepDownAssertionFails
  <1>n. ASSUME UNCHANGED <<term, role, leaderMode, phase, electionTerm, hbStepDown, cmdVars, rstl>>
        PROVE  StepDownInv'
    <2>1. CandidateNotLeader' /\ ModesAgree'
      BY <1>n DEF StepDownInv, CandidateNotLeader, ModesAgree
    <2>2. \A m \in Server : term[m] <= term'[m]
      BY <1>0, <1>n, BoundAssumption DEF TypeOK, Term
    <2>3. CommandsAgree' /\ OneHolder' /\ AttemptKeepsTerm' /\ AttemptIsMade'
      BY <1>0, <1>n, <2>2, CommandsKept
    <2> QED BY <1>0, <2>1, <2>3 DEF StepDownInv
  <1>o. ASSUME NEW n \in Server, (\E m \in Server : SyncFrom(n, m)) \/ ResponsesFail(n)
        PROVE  StepDownInv'
    BY <1>n, <1>o DEF SyncFrom, ResponsesFail, coordVars, candVars, stepDownVars
  <1>r. ASSUME NEW n \in Server, WriteLastVoteFails(n) PROVE StepDownInv'
    <2>1. role[n] # "Leader"
      BY <1>r DEF WriteLastVoteFails, StepDownInv, CandidateNotLeader
    <2> QED BY <1>0, <1>r, <2>1, LoseElectionStepDown DEF WriteLastVoteFails, stepDownVars
  <1>p. ASSUME NEW r \in requests,
               GrantVote(r) \/ RefuseVote(r) \/ StoreVote(r) \/ StoreVoteFails(r)
        PROVE  StepDownInv'
    BY <1>n, <1>p DEF GrantVote, RefuseVote, StoreVote, StoreVoteFails, coordVars, candVars, stepDownVars
  <1>q. CASE UNCHANGED vars
    BY <1>n, <1>q DEF vars, coordVars, candVars, stepDownVars
  <1> QED
    BY <1>a, <1>b, <1>c, <1>d, <1>e, <1>f, <1>g, <1>h, <1>i, <1>j, <1>k, <1>l, <1>m, <1>o,
       <1>p, <1>q, <1>r DEF Next, ServerNext, CommandNext, Restart

(* No step-down is preempted: what stepDown() and _stepDownFinish() assert when they *)
(* go on after they released the mutex or the RSTL, for any number of overlapping    *)
(* replSetStepDown commands; the one assertion that can fail, in tryToStartStepDown,  *)
(* fails only after the abort of another command.                                    *)
THEOREM StepDownSafety == Spec => []StepDownNotPreempted
  <1>1. ASSUME StepDownInv PROVE StepDownNotPreempted
    <2>1. \A n \in Server : rstl[n] = "heartbeat" => leaderMode[n] = "SteppingDown"
      BY <1>1 DEF StepDownInv, ModesAgree
    <2>2. \A c \in Command : command[c] = "finishing" =>
            /\ leaderMode[MemberOf[c]] = "SteppingDown"
            /\ rstl[MemberOf[c]] = "command" /\ ~hbStepDown[MemberOf[c]]
      BY <1>1 DEF StepDownInv, CommandsAgree
    <2>3. \A c \in Command : command[c] = "trying" /\ mayStartStepDown(c) /\ c \notin modeReset
            => leaderMode[MemberOf[c]] = "AttemptingStepDown"
      BY <1>1 DEF StepDownInv, AttemptKeepsTerm, mayStartStepDown
    <2>4. \A n \in Server : leaderMode[n] = "AttemptingStepDown" =>
            \E c \in Command \ modeReset :
                MemberOf[c] = n /\ command[c] \in {"trying", "waiting"} /\ termAtStart[c] = term[n]
      BY <1>1 DEF StepDownInv, AttemptIsMade, Attempts
    <2> QED BY <2>1, <2>2, <2>3, <2>4 DEF StepDownNotPreempted
  <1> QED BY <1>1, InitStepDown, NextStepDown, PTL DEF Spec
=============================================================================
