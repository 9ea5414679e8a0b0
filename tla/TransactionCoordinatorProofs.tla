-------------------- MODULE TransactionCoordinatorProofs --------------------
(***************************************************************************)
(* Theorems about TransactionCoordinator, for any set of participants, any *)
(* number of failovers of their replica sets and any timestamps.           *)
(* First the invariants, then the refinement of AtomicCommit.              *)
(***************************************************************************)
EXTENDS TransactionCoordinator, FiniteSetTheorems, SequenceTheorems,
        WellFoundedInduction, NaturalsInduction, TLAPS

-----------------------------------------------------------------------------
(* The inductive invariant. *)

Entries == [term : Nat, doc : Docs, part : Records]

Log(s, t) == node[s][t].log
Ci(s, t) == node[s][t].ci
Terms(s) == 1..top[s]

\* What is majority committed on shard s.
DLog(s) == node[s][top[s]].log
DCi(s) == node[s][top[s]].ci
DurableDocs == {DLog(Coord)[i].doc : i \in 1..DCi(Coord)}

\* The types of the variables other than TypeOK's of the nodes, and those of the nodes.
NodeTypes ==
    /\ node = [s \in Shards |-> [t \in 1..MaxTerm[s] |-> node[s][t]]]
    /\ \A s \in Shards : \A t \in 1..MaxTerm[s] :
        node[s][t] \in Nodes /\ node[s][t].ci \in 1..Len(node[s][t].log)
TopTypes == top \in [Shards -> Nat] /\ \A s \in Shards : top[s] \in 1..MaxTerm[s]
OtherTypes ==
    /\ co \in [1..MaxTerm[Coord] -> Coordinators]
    /\ net \subseteq {PrepareCommand} \cup Decisions
    /\ answers \subseteq {"commit", "abort"}
    /\ attempts \in 0..MaxAttempts
TypeInv == NodeTypes /\ TopTypes /\ OtherTypes

\* Entry e does not contradict an earlier entry d of an oplog.  The participant's state: nothing
\* is forgotten, an outcome is final, a prepare timestamp stays, and an entry of a later primary
\* without the transaction excludes it for good.
PartFollows(d, e) ==
    /\ d.part.kind # "none" => e.part.kind # "none"
    /\ d.part.kind \in {"committed", "aborted"} => e.part = d.part
    /\ d.part.kind = "prepared" /\ e.part.kind = "prepared" => e.part = d.part
    /\ d.part.kind = "none" /\ d.term >= 2 => e.part.kind = "none"

\* The coordinator's document: one decision, never followed by a bare participant list.
DocFollows(d, e) ==
    /\ e.doc = ListDoc => d.doc \notin Decisions
    /\ d.doc \in Decisions /\ e.doc \in Decisions => d.doc = e.doc

Follows(d, e) == PartFollows(d, e) /\ DocFollows(d, e)

\* Every oplog of shard s is in order.
OrderInv(s) ==
    \A t \in Terms(s) : \A i, j \in 1..Len(Log(s, t)) :
        i < j => Follows(Log(s, t)[i], Log(s, t)[j])

\* The entries of the primary of term t, and the transaction open in its memory.
TermInv(s) ==
    \A t \in Terms(s) :
        /\ Last(s, t).term = t
        /\ \A i \in 1..Len(Log(s, t)) : Log(s, t)[i].term <= t
        /\ node[s][t].open => t = 1 /\ Last(s, t).part.kind = "none"
        /\ \A i \in 1..Len(Log(s, t)) :
            Log(s, t)[i].part.kind # "none" => Last(s, 1).part.kind # "none"

\* What was majority committed stays so: later primaries have it.
PrefixInv(s) ==
    \A u, v \in Terms(s) :
        u <= v => /\ Ci(s, u) <= Ci(s, v)
                  /\ \A i \in 1..Ci(s, u) : Log(s, v)[i] = Log(s, u)[i]

LogInv == \A s \in Shards : OrderInv(s) /\ TermInv(s) /\ PrefixInv(s)

\* The transaction will never be prepared on shard s.
Dropped(s) == ~node[s][1].open /\ Last(s, 1).part.kind = "none"
Excluded(s) == \E i \in 1..DCi(s) : DLog(s)[i].term >= 2 /\ DLog(s)[i].part.kind = "none"
Frozen(s) == Dropped(s) \/ Excluded(s)

\* Shard s needs the decision no more.
Resolved(s) == Durable(s).part.kind \in {"committed", "aborted"} \/ Frozen(s)

\* Shard s has prepared, at timestamp ts if it still is.
PreparedAt(s, ts) ==
    /\ Durable(s).part.kind # "none"
    /\ Durable(s).part.kind = "prepared" => Durable(s).part.ts = ts

\* A commit at ts is possible.
AllPrepared(ts) ==
    \A s \in Shards :
        /\ Durable(s).part.kind # "none"
        /\ Durable(s).part.kind = "prepared" => Durable(s).part.ts <= ts

ListIsDurable == \E d \in DurableDocs : d # NoDoc
CommitIsSent == \E d \in net : d.kind = "commit"

\* Coordinator c of term t has decided nothing yet.
CoDocs(c, t) ==
    c.step \in {"inactive", "writingParticipants"} =>
        \A i \in 1..Len(Log(Coord, t)) : Log(Coord, t)[i].doc \notin Decisions

\* It waits for what it has written.
CoWaits(c, t) ==
    /\ c.step = "waitingParticipants" =>
        c.waitFor \in 1..Len(Log(Coord, t)) /\ Log(Coord, t)[c.waitFor].doc # NoDoc
    /\ c.step = "waitingDecision" =>
        c.waitFor \in 1..Len(Log(Coord, t)) /\ Log(Coord, t)[c.waitFor].doc = c.decision

\* What it knows is majority committed.
CoKnows(c, t) ==
    /\ c.step = "votes" => ListIsDurable
    /\ c.step \in {"writingDecision", "waitingDecision", "acks", "deleting"} =>
        c.decision \in Decisions
    /\ c.step = "deleting" => c.acks = Shards
    /\ c.decision.kind = "commit" => AllPrepared(c.decision.ts)
    /\ \A s \in Shards : c.votes[s].kind = "commit" => PreparedAt(s, c.votes[s].ts)
    /\ \A s \in c.acks : Resolved(s)
    /\ t >= 2 /\ c.step \notin {"recovering", "failed"} =>
        \E i \in 1..Ci(Coord, t) : Log(Coord, t)[i].term = t
    /\ c.result \in {"commit", "abort"} => \E d \in DurableDocs : d.kind = c.result

CoSent(c) == c.step \in {"acks", "deleting"} => c.decision \in net

CoordinatorInv ==
    \A t \in Terms(Coord) :
        CoDocs(co[t], t) /\ CoWaits(co[t], t) /\ CoKnows(co[t], t) /\ CoSent(co[t])

\* The coordinator's document, in any oplog: a commit is decided when all have prepared, and the
\* document is deleted when all have learnt the decision.
DocumentInv ==
    \A t \in Terms(Coord) : \A i \in 1..Len(Log(Coord, t)) :
        /\ Log(Coord, t)[i].doc.kind = "commit" => AllPrepared(Log(Coord, t)[i].doc.ts)
        /\ \A j \in 1..Len(Log(Coord, t)) :
            i < j /\ Log(Coord, t)[i].doc # NoDoc /\ Log(Coord, t)[j].doc = NoDoc
                => \A s \in Shards : Resolved(s)

\* Commands are sent after what they follow from is majority committed.
NetInv ==
    /\ \A d \in net \cap Decisions : d \in DurableDocs
    /\ PrepareCommand \in net => ListIsDurable

\* Participants do what they were told.
ParticipantInv ==
    \A s \in Shards : \A t \in Terms(s) : \A i \in 1..Len(Log(s, t)) :
        /\ Log(s, t)[i].part.kind = "committed" => CommitIsSent
        /\ Log(s, t)[i].part.kind = "aborted" => AbortDecision \in net
        /\ Log(s, t)[i].part.kind = "prepared" => ListIsDurable

\* What was answered from the participant.
AnswerInv ==
    /\ "commit" \in answers => CommitIsSent
    /\ "abort" \in answers => AbortDecision \in DurableDocs \/ Frozen(Coord)

Inv ==
    /\ TypeInv
    /\ LogInv
    /\ CoordinatorInv
    /\ DocumentInv
    /\ NetInv
    /\ ParticipantInv
    /\ AnswerInv

-----------------------------------------------------------------------------
(* Constants and data. *)

(* Documents and decisions are told apart by their kinds. *)
LEMMA DocFacts ==
    /\ NoDoc \in Docs /\ ListDoc \in Docs /\ Decisions \subseteq Docs
    /\ NoDoc \notin Decisions /\ ListDoc \notin Decisions /\ NoDoc # ListDoc
    /\ NoDoc.kind = "none" /\ ListDoc.kind = "list"
    /\ AbortDecision \in Decisions /\ AbortDecision.kind = "abort"
    /\ PrepareCommand \notin Decisions /\ PrepareCommand.kind = "prepare"
    /\ \A d \in Decisions :
        /\ d.kind \in {"commit", "abort"}
        /\ d.kind = "abort" => d = AbortDecision
        /\ d.kind = "commit" => d.ts \in Timestamps /\ d = CommitDecision(d.ts)
    /\ \A d \in Docs : \/ d = NoDoc \/ d = ListDoc \/ d \in Decisions
    /\ \A d \in Docs : d.kind \in {"commit", "abort"} => d \in Decisions
    /\ \A ts \in Timestamps : CommitDecision(ts) \in Decisions /\ CommitDecision(ts).kind = "commit"
                              /\ CommitDecision(ts).ts = ts
  <1> USE DEF NoDoc, ListDoc, Docs, Decisions, NoDecision, AbortDecision, CommitDecision,
              PrepareCommand
  <1>1. /\ NoDoc \in Docs /\ ListDoc \in Docs /\ Decisions \subseteq Docs
        /\ NoDoc \notin Decisions /\ ListDoc \notin Decisions /\ NoDoc # ListDoc
        /\ NoDoc.kind = "none" /\ ListDoc.kind = "list"
    OBVIOUS
  <1>2. /\ AbortDecision \in Decisions /\ AbortDecision.kind = "abort"
        /\ PrepareCommand \notin Decisions /\ PrepareCommand.kind = "prepare"
    OBVIOUS
  <1>3. \A d \in Decisions :
          /\ d.kind \in {"commit", "abort"}
          /\ d.kind = "abort" => d = AbortDecision
          /\ d.kind = "commit" => d.ts \in Timestamps /\ d = CommitDecision(d.ts)
    OBVIOUS
  <1>4. \A d \in Docs : \/ d = NoDoc \/ d = ListDoc \/ d \in Decisions
    OBVIOUS
  <1>5. \A d \in Docs : d.kind \in {"commit", "abort"} => d \in Decisions
    OBVIOUS
  <1>6. \A ts \in Timestamps : CommitDecision(ts) \in Decisions
          /\ CommitDecision(ts).kind = "commit" /\ CommitDecision(ts).ts = ts
    OBVIOUS
  <1> HIDE DEF NoDoc, ListDoc, Docs, Decisions, NoDecision, AbortDecision, CommitDecision,
               PrepareCommand
  <1> QED BY <1>1, <1>2, <1>3, <1>4, <1>5, <1>6

(* The states of a participant are told apart by their kinds. *)
LEMMA RecordFacts ==
    \A p \in Records : /\ p.kind \in {"none", "prepared", "committed", "aborted"}
                       /\ p.kind = "prepared" => p.ts \in Timestamps
  BY DEF NoRecord, Records, Record

LEMMA NoRecordFacts == NoRecord \in Records /\ NoRecord.kind = "none"
  BY DEF NoRecord, Records, Record

LEMMA AbortedRecord ==
    Record("aborted", 0) \in Records /\ Record("aborted", 0).kind = "aborted"
  BY DEF NoRecord, Records, Record

(* What a participant records with a timestamp. *)
LEMMA RecordAt ==
    ASSUME NEW ts \in Timestamps
    PROVE  /\ Record("prepared", ts) \in Records /\ Record("prepared", ts).kind = "prepared"
           /\ Record("prepared", ts).ts = ts
           /\ Record("committed", ts) \in Records /\ Record("committed", ts).kind = "committed"
  BY DEF NoRecord, Records, Record

(* A finite set of natural numbers that is not empty has a largest one. *)
LEMMA MaxExists ==
    ASSUME NEW S \in SUBSET Nat, IsFiniteSet(S), S # {}
    PROVE  Max(S) \in S /\ \A y \in S : y <= Max(S)
  <1> DEFINE HasMax(T) == \E x \in T : \A y \in T : x >= y
             Bad == {n \in Nat : \E T \in SUBSET S : T # {} /\ Cardinality(T) = n /\ ~HasMax(T)}
  <1>1. Bad = {}
    <2> SUFFICES ASSUME Bad # {} PROVE FALSE
      OBVIOUS
    <2>1. PICK n \in Bad : \A m \in Bad : ~(m < n)
      <3>1. Bad \subseteq Nat
        OBVIOUS
      <3> HIDE DEF Bad
      <3>2. \E n \in Bad : \A m \in Bad : ~(<<m, n>> \in OpToRel(<, Nat))
        BY <3>1, NatLessThanWellFounded, WFMin, Zenon
      <3> QED BY <3>1, <3>2, Zenon DEF OpToRel
    <2>2. PICK T \in SUBSET S : T # {} /\ Cardinality(T) = n /\ ~HasMax(T)
      BY <2>1
    <2>3. PICK x \in T : TRUE
      BY <2>2
    <2>4. IsFiniteSet(T) /\ Cardinality(T) \in Nat
      BY FS_Subset, FS_CardinalityType
    <2>5. Cardinality(T \ {x}) = n - 1 /\ IsFiniteSet(T \ {x})
      BY <2>2, <2>4, FS_RemoveElement
    <2>6. n - 1 \in Nat
      BY <2>5, FS_CardinalityType
    <2>7. CASE T \ {x} = {}
      <3>1. T = {x} /\ x \in Nat
        BY <2>7
      <3>2. HasMax(T)
        BY <3>1
      <3> QED BY <3>2, <2>2
    <2>8. CASE T \ {x} # {}
      <3>1. HasMax(T \ {x})
        <4>1. n - 1 \notin Bad
          BY <2>1, <2>6
        <4> QED BY <4>1, <2>5, <2>6, <2>8
      <3>2. PICK z \in T \ {x} : \A y \in T \ {x} : z >= y
        BY <3>1
      <3>3. x \in Nat /\ z \in Nat /\ T \subseteq Nat
        OBVIOUS
      <3>4. HasMax(T)
        <4>1. CASE x >= z
          BY <4>1, <3>2, <3>3
        <4>2. CASE ~(x >= z)
          BY <4>2, <3>2, <3>3
        <4> QED BY <4>1, <4>2
      <3> QED BY <3>4, <2>2
    <2> QED BY <2>7, <2>8
  <1>2. HasMax(S)
    <2>1. Cardinality(S) \in Nat
      BY FS_CardinalityType
    <2> QED BY <1>1, <2>1
  <1>3. PICK x \in S : \A y \in S : x >= y
    BY <1>2
  <1>4. Max(S) \in S /\ \A y \in S : Max(S) >= y
    BY <1>3 DEF Max
  <1> QED BY <1>4

-----------------------------------------------------------------------------
(* Nodes and their oplogs. *)

(* What the type invariant says of one node. *)
LEMMA NodeFacts ==
    ASSUME NodeTypes, NEW s \in Shards, NEW t \in 1..MaxTerm[s]
    PROVE  /\ node[s][t] \in Nodes
           /\ Log(s, t) \in Seq(Entries) /\ Len(Log(s, t)) \in Nat
           /\ Ci(s, t) \in 1..Len(Log(s, t)) /\ Ci(s, t) \in Nat
           /\ \A i \in 1..Len(Log(s, t)) : Log(s, t)[i] \in Entries
           /\ Len(Log(s, t)) \in 1..Len(Log(s, t))
           /\ Last(s, t) \in Entries /\ Last(s, t) = Log(s, t)[Len(Log(s, t))]
           /\ Majority(s, t) \in Entries /\ Majority(s, t) = Log(s, t)[Ci(s, t)]
  <1>1. node[s][t] \in Nodes /\ Ci(s, t) \in 1..Len(Log(s, t))
    BY DEF NodeTypes, Ci, Log
  <1>2. Log(s, t) \in Seq(Entries) /\ Ci(s, t) \in Nat
    BY <1>1 DEF Nodes, Entries, Log, Ci
  <1>3. Len(Log(s, t)) \in Nat /\ \A i \in 1..Len(Log(s, t)) : Log(s, t)[i] \in Entries
    BY <1>2, LenProperties, ElementOfSeq
  <1>4. Len(Log(s, t)) \in 1..Len(Log(s, t))
    BY <1>1, <1>2, <1>3
  <1>5. Last(s, t) = Log(s, t)[Len(Log(s, t))] /\ Majority(s, t) = Log(s, t)[Ci(s, t)]
    BY DEF Last, Majority, Log, Ci
  <1> QED BY <1>1, <1>2, <1>3, <1>4, <1>5

(* A prefix of an oplog. *)
LEMMA PrefixOf ==
    ASSUME NEW S, NEW q \in Seq(S), NEW n \in 0..Len(q)
    PROVE  /\ SubSeq(q, 1, n) \in Seq(S)
           /\ Len(SubSeq(q, 1, n)) = n
           /\ \A i \in 1..n : SubSeq(q, 1, n)[i] = q[i]
  OBVIOUS

(* What an entry is made of. *)
LEMMA EntryFacts ==
    ASSUME NEW t \in Nat, NEW doc \in Docs, NEW part \in Records
    PROVE  /\ Entry(t, doc, part) \in Entries
           /\ Entry(t, doc, part).term = t
           /\ Entry(t, doc, part).doc = doc
           /\ Entry(t, doc, part).part = part
  BY DEF Entry, Entries

(* The current terms of a shard are among those it may have. *)
LEMMA TermFacts ==
    ASSUME TopTypes, NEW s \in Shards
    PROVE  /\ Terms(s) \subseteq 1..MaxTerm[s] /\ top[s] \in Terms(s)
           /\ top[s] \in 1..MaxTerm[s] /\ 1 \in Terms(s) /\ MaxTerm[s] \in Nat
           /\ top[s] \in Nat /\ Terms(s) \subseteq Nat
  BY TermAssumption DEF TopTypes, Terms

(* A step that sets one node leaves all others. *)
LEMMA SetNodeFacts ==
    ASSUME NodeTypes, NEW s \in Shards, NEW t \in 1..MaxTerm[s], NEW n \in Nodes,
           n.ci \in 1..Len(n.log), SetNode(s, t, n)
    PROVE  /\ NodeTypes'
           /\ node'[s][t] = n
           /\ \A r \in Shards : \A u \in 1..MaxTerm[r] :
                r # s \/ u # t => node'[r][u] = node[r][u]
  <1>1. \A r \in Shards : node[r] = [u \in 1..MaxTerm[r] |-> node[r][u]]
    BY DEF NodeTypes
  <1>2. node' = [r \in Shards |-> IF r = s THEN [node[s] EXCEPT ![t] = n] ELSE node[r]]
    BY DEF NodeTypes, SetNode
  <1>3. node'[s][t] = n /\ \A u \in 1..MaxTerm[s] : u # t => node'[s][u] = node[s][u]
    BY <1>1, <1>2
  <1>4. \A r \in Shards : r # s => node'[r] = node[r]
    BY <1>2
  <1>5. \A r \in Shards : \A u \in 1..MaxTerm[r] :
          r # s \/ u # t => node'[r][u] = node[r][u]
    BY <1>3, <1>4
  <1>6. \A r \in Shards : node'[r] = [u \in 1..MaxTerm[r] |-> node'[r][u]]
    BY <1>1, <1>2, <1>4
  <1>7. node' = [r \in Shards |-> [u \in 1..MaxTerm[r] |-> node'[r][u]]]
    BY <1>2, <1>6
  <1>8. \A r \in Shards : \A u \in 1..MaxTerm[r] :
          node'[r][u] \in Nodes /\ node'[r][u].ci \in 1..Len(node'[r][u].log)
    <2> SUFFICES ASSUME NEW r \in Shards, NEW u \in 1..MaxTerm[r]
                 PROVE  node'[r][u] \in Nodes /\ node'[r][u].ci \in 1..Len(node'[r][u].log)
      OBVIOUS
    <2>1. CASE r = s /\ u = t
      BY <2>1, <1>3
    <2>2. CASE ~(r = s /\ u = t)
      BY <2>2, <1>5 DEF NodeTypes
    <2> QED BY <2>1, <2>2
  <1> QED BY <1>3, <1>5, <1>7, <1>8 DEF NodeTypes

(* A write appends one entry of the node's term, or changes nothing. *)
LEMMA WroteFacts ==
    ASSUME NodeTypes, NEW s \in Shards, NEW t \in 1..MaxTerm[s], MaxTerm[s] \in Nat,
           NEW doc \in Docs, NEW part \in Records
    PROVE  /\ Wrote(s, t, doc, part) \in Nodes
           /\ Wrote(s, t, doc, part).ci = Ci(s, t)
           /\ Wrote(s, t, doc, part).ci \in 1..Len(Wrote(s, t, doc, part).log)
           /\ Wrote(s, t, doc, part).open = node[s][t].open
           /\ \/ /\ Wrote(s, t, doc, part).log = Log(s, t)
                 /\ doc = Last(s, t).doc /\ part = Last(s, t).part
              \/ Wrote(s, t, doc, part).log = Append(Log(s, t), Entry(t, doc, part))
  <1> DEFINE n == Wrote(s, t, doc, part)
  <1>1. /\ node[s][t] \in Nodes /\ Log(s, t) \in Seq(Entries) /\ Len(Log(s, t)) \in Nat
        /\ Ci(s, t) \in 1..Len(Log(s, t)) /\ Ci(s, t) \in Nat
    BY NodeFacts
  <1>2. CASE doc = Last(s, t).doc /\ part = Last(s, t).part
    <2>1. n = node[s][t]
      BY <1>2 DEF Wrote
    <2> QED BY <1>1, <1>2, <2>1 DEF Log, Ci
  <1>3. CASE ~(doc = Last(s, t).doc /\ part = Last(s, t).part)
    <2>1. n = [node[s][t] EXCEPT !.log = Append(Log(s, t), Entry(t, doc, part))]
      BY <1>3 DEF Wrote, Log
    <2>2. Entry(t, doc, part) \in Entries
      BY EntryFacts
    <2>3. /\ Append(Log(s, t), Entry(t, doc, part)) \in Seq(Entries)
          /\ Len(Append(Log(s, t), Entry(t, doc, part))) = Len(Log(s, t)) + 1
      BY <1>1, <2>2, AppendProperties
    <2>4. /\ n \in Nodes /\ n.ci = Ci(s, t) /\ n.open = node[s][t].open
          /\ n.log = Append(Log(s, t), Entry(t, doc, part))
      BY <1>1, <2>1, <2>3 DEF Nodes, Entries, Ci
    <2> QED BY <1>1, <2>3, <2>4
  <1> QED BY <1>2, <1>3

-----------------------------------------------------------------------------
(* What a step does to the nodes. *)

Kept(s, t) ==
    /\ node'[s][t].log = node[s][t].log
    /\ node'[s][t].ci = node[s][t].ci
    /\ node'[s][t].open => node[s][t].open

Keeps == top' = top /\ \A s \in Shards : \A t \in 1..MaxTerm[s] : Kept(s, t)

\* Node (s, t) may write e: only the participant's own commands change its state, and only a
\* coordinator's chain its document.
PartLegal(s, t, e) ==
    \/ e.part = Last(s, t).part
    \/ /\ node[s][t].open /\ ~node'[s][t].open
       /\ e.part.kind = "prepared" /\ ListIsDurable
    \/ Last(s, t).part.kind = "prepared" /\ e.part.kind = "committed" /\ CommitIsSent
    \/ Last(s, t).part.kind = "prepared" /\ e.part.kind = "aborted" /\ AbortDecision \in net
DocLegal(s, t, e) ==
    \/ e.doc = Last(s, t).doc
    \/ /\ e.doc = ListDoc /\ \A i \in 1..Len(Log(s, t)) : Log(s, t)[i].doc \notin Decisions
    \/ /\ e.doc \in Decisions /\ Last(s, t).doc = ListDoc
       /\ e.doc.kind = "commit" => AllPrepared(e.doc.ts)
    \/ e.doc = NoDoc /\ \A r \in Shards : Resolved(r)

Writes(s, t, e) ==
    /\ top' = top
    /\ e \in Entries /\ e.term = t
    /\ PartLegal(s, t, e) /\ DocLegal(s, t, e)
    /\ node'[s][t].log = Append(node[s][t].log, e)
    /\ node'[s][t].ci = node[s][t].ci
    /\ node'[s][t].open => node[s][t].open
    /\ \A r \in Shards : \A u \in 1..MaxTerm[r] : r # s \/ u # t => Kept(r, u)

Moves(s, t) ==
    /\ top' = top
    /\ t = top[s]
    /\ node'[s][t].log = node[s][t].log
    /\ node'[s][t].ci \in (node[s][t].ci + 1)..Len(node[s][t].log)
    /\ node'[s][t].open = node[s][t].open
    /\ \A r \in Shards : \A u \in 1..MaxTerm[r] : r # s \/ u # t => Kept(r, u)

Rises(s, t, u, k) ==
    /\ t = top[s] + 1 /\ t \in 1..MaxTerm[s]
    /\ top' = [top EXCEPT ![s] = t]
    /\ k \in DCi(s)..Len(Log(s, u))
    /\ \A i \in 1..DCi(s) : Log(s, u)[i] = DLog(s)[i]
    /\ node'[s][t].log = Append(SubSeq(Log(s, u), 1, k),
                                Entry(t, Log(s, u)[k].doc, Log(s, u)[k].part))
    /\ node'[s][t].ci = DCi(s)
    /\ ~node'[s][t].open
    /\ \A r \in Shards : \A v \in 1..MaxTerm[r] : r # s \/ v # t => Kept(r, v)

NodeStep ==
    \/ Keeps
    \/ \E s \in Shards : \E t \in Terms(s) : \E e \in Entries : Writes(s, t, e)
    \/ \E s \in Shards : Moves(s, top[s])
    \/ \E s \in Shards : \E u \in Terms(s) : \E k \in Nat : Rises(s, top[s] + 1, u, k)

(* An entry that may be written contradicts none before it. *)
LEMMA WriteFollows ==
    ASSUME NodeTypes, TopTypes, LogInv, NEW s \in Shards, NEW t \in Terms(s),
           NEW e \in Entries, e.term = t, PartLegal(s, t, e), DocLegal(s, t, e),
           NEW i \in 1..Len(Log(s, t))
    PROVE  Follows(Log(s, t)[i], e)
  <1>1. t \in 1..MaxTerm[s] /\ t \in Nat
    BY TermFacts
  <1>2. /\ Len(Log(s, t)) \in Nat /\ Log(s, t)[i] \in Entries
        /\ Len(Log(s, t)) \in 1..Len(Log(s, t))
        /\ Last(s, t) \in Entries /\ Last(s, t) = Log(s, t)[Len(Log(s, t))]
    BY <1>1, NodeFacts
  <1>3. i # Len(Log(s, t)) => Follows(Log(s, t)[i], Last(s, t))
    BY <1>1, <1>2 DEF LogInv, OrderInv
  <1>4. /\ Last(s, t).term = t /\ Log(s, t)[i].term <= t
        /\ node[s][t].open => t = 1 /\ Last(s, t).part.kind = "none"
    BY DEF LogInv, TermInv
  <1> DEFINE d == Log(s, t)[i]
             m == Last(s, t)
  <1>5. /\ d.part \in Records /\ e.part \in Records /\ m.part \in Records
        /\ d.term \in Nat /\ d.doc \in Docs /\ m.doc \in Docs /\ e.doc \in Docs
    BY <1>2 DEF Entries
  <1>6. PartFollows(d, m)
    BY <1>2, <1>3 DEF Follows, PartFollows
  <1>7. d = m \/ DocFollows(d, m)
    BY <1>2, <1>3 DEF Follows
  <1> HIDE DEF d, m
  <1>8. PartFollows(d, e)
    <2>0. /\ d.part.kind \in {"none", "prepared", "committed", "aborted"}
          /\ m.part.kind \in {"none", "prepared", "committed", "aborted"}
      BY <1>5, RecordFacts
    <2>1. CASE e.part = m.part
      BY <2>1, <1>6 DEF PartFollows
    <2>2. CASE node[s][t].open /\ e.part.kind = "prepared"
      BY <2>2, <1>4, <1>5, <1>6, <2>0 DEF PartFollows, d, m
    <2>3. CASE m.part.kind = "prepared" /\ e.part.kind \in {"committed", "aborted"}
      BY <2>3, <1>6, <2>0 DEF PartFollows
    <2> QED BY <2>1, <2>2, <2>3 DEF PartLegal, m
  <1>9. DocFollows(d, e)
    <2>1. CASE e.doc = m.doc
      BY <2>1, <1>7, DocFacts DEF DocFollows
    <2>2. CASE e.doc = ListDoc /\ d.doc \notin Decisions
      BY <2>2, DocFacts DEF DocFollows
    <2>3. CASE e.doc \in Decisions /\ m.doc = ListDoc
      BY <2>3, <1>7, DocFacts DEF DocFollows
    <2>4. CASE e.doc = NoDoc
      BY <2>4, DocFacts DEF DocFollows
    <2> QED BY <2>1, <2>2, <2>3, <2>4 DEF DocLegal, m, d
  <1> QED BY <1>8, <1>9 DEF Follows, d

(* A node that is kept keeps its part of the invariant. *)
LEMMA KeptFacts ==
    ASSUME NEW s, NEW t, Kept(s, t)
    PROVE  /\ Log(s, t)' = Log(s, t) /\ Ci(s, t)' = Ci(s, t) /\ Last(s, t)' = Last(s, t)
           /\ node'[s][t].open => node[s][t].open
  BY DEF Kept, Log, Ci, Last

(* The oplogs of shards that a step leaves alone. *)
LEMMA LogInvKept ==
    ASSUME NodeTypes, TopTypes, NEW s \in Shards, OrderInv(s) /\ TermInv(s) /\ PrefixInv(s),
           top'[s] = top[s], \A t \in 1..MaxTerm[s] : Kept(s, t)
    PROVE  (OrderInv(s) /\ TermInv(s) /\ PrefixInv(s))'
  <1>1. Terms(s)' = Terms(s)
    BY DEF Terms
  <1>2. \A t \in Terms(s) : /\ Log(s, t)' = Log(s, t) /\ Ci(s, t)' = Ci(s, t)
                            /\ Last(s, t)' = Last(s, t)
                            /\ node'[s][t].open => node[s][t].open
    BY TermFacts, KeptFacts
  <1>3. Last(s, 1)' = Last(s, 1)
    BY <1>2, TermFacts
  <1>4. OrderInv(s)'
    BY <1>1, <1>2 DEF OrderInv
  <1>5. TermInv(s)'
    <2> SUFFICES ASSUME NEW t \in Terms(s)
                 PROVE  (/\ Last(s, t).term = t
                         /\ \A i \in 1..Len(Log(s, t)) : Log(s, t)[i].term <= t
                         /\ node[s][t].open => t = 1 /\ Last(s, t).part.kind = "none"
                         /\ \A i \in 1..Len(Log(s, t)) :
                             Log(s, t)[i].part.kind # "none" => Last(s, 1).part.kind # "none")'
      BY <1>1 DEF TermInv
    <2> QED BY <1>2, <1>3 DEF TermInv
  <1>6. PrefixInv(s)'
    BY <1>1, <1>2 DEF PrefixInv
  <1> QED BY <1>4, <1>5, <1>6

(* A write keeps the oplogs of its shard in order. *)
LEMMA LogInvWrites ==
    ASSUME NodeTypes, TopTypes, LogInv, NEW s \in Shards, NEW t \in Terms(s),
           NEW e \in Entries, Writes(s, t, e)
    PROVE  (OrderInv(s) /\ TermInv(s) /\ PrefixInv(s))'
  <1> DEFINE n == Len(Log(s, t))
  <1>0. /\ Terms(s) \subseteq 1..MaxTerm[s] /\ Terms(s) \subseteq Nat /\ 1 \in Terms(s)
        /\ Terms(s)' = Terms(s)
    BY TermFacts DEF Terms, Writes
  <1>1. /\ Log(s, t) \in Seq(Entries) /\ n \in Nat /\ n \in 1..n
        /\ \A i \in 1..n : Log(s, t)[i] \in Entries
        /\ Last(s, t) = Log(s, t)[n] /\ Last(s, t) \in Entries
        /\ Ci(s, t) \in 1..n
    BY <1>0, NodeFacts
  <1>2. Log(s, t)' = Append(Log(s, t), e) /\ Ci(s, t)' = Ci(s, t)
    BY DEF Writes, Log, Ci
  <1>3. /\ Len(Log(s, t)') = n + 1
        /\ \A i \in 1..n : Log(s, t)'[i] = Log(s, t)[i]
        /\ Log(s, t)'[n + 1] = e
    BY <1>1, <1>2, AppendProperties
  <1>4. Last(s, t)' = e
    BY <1>3 DEF Last, Log
  <1>5. \A u \in Terms(s) : u # t => /\ Log(s, u)' = Log(s, u) /\ Ci(s, u)' = Ci(s, u)
                                     /\ Last(s, u)' = Last(s, u)
                                     /\ node'[s][u].open => node[s][u].open
    BY <1>0, KeptFacts DEF Writes
  <1>6. \A i \in 1..n : Follows(Log(s, t)[i], e)
    BY WriteFollows DEF Writes
  <1>7. e.term = t /\ (node'[s][t].open => node[s][t].open) /\ PartLegal(s, t, e)
    BY DEF Writes
  <1>8. OrderInv(s)'
    <2> SUFFICES ASSUME NEW u \in Terms(s), NEW i \in 1..Len(Log(s, u)'),
                        NEW j \in 1..Len(Log(s, u)'), i < j
                 PROVE  Follows(Log(s, u)'[i], Log(s, u)'[j])
      BY <1>0 DEF OrderInv
    <2>1. CASE u # t
      BY <2>1, <1>5 DEF LogInv, OrderInv
    <2>2. CASE u = t /\ j = n + 1
      BY <2>2, <1>1, <1>3, <1>6
    <2>3. CASE u = t /\ j # n + 1
      <3>1. i \in 1..n /\ j \in 1..n
        BY <2>3, <1>1, <1>3
      <3> QED BY <3>1, <2>3, <1>3 DEF LogInv, OrderInv
    <2> QED BY <2>1, <2>2, <2>3
  <1>9. Last(s, 1).part.kind # "none" => Last(s, 1)'.part.kind # "none"
    <2>1. CASE t # 1
      BY <2>1, <1>0, <1>5
    <2>2. CASE t = 1
      BY <2>2, <1>1, <1>4, <1>6 DEF Follows, PartFollows
    <2> QED BY <2>1, <2>2
  <1>10. TermInv(s)'
    <2>0. ASSUME NEW u \in Terms(s)
          PROVE  /\ Last(s, u).term = u
                 /\ \A i \in 1..Len(Log(s, u)) : Log(s, u)[i].term <= u
                 /\ node[s][u].open => u = 1 /\ Last(s, u).part.kind = "none"
                 /\ \A i \in 1..Len(Log(s, u)) :
                     Log(s, u)[i].part.kind # "none" => Last(s, 1).part.kind # "none"
      BY DEF LogInv, TermInv
    <2>1. ASSUME NEW u \in Terms(s), u # t
          PROVE  (/\ Last(s, u).term = u
                  /\ \A i \in 1..Len(Log(s, u)) : Log(s, u)[i].term <= u
                  /\ node[s][u].open => u = 1 /\ Last(s, u).part.kind = "none"
                  /\ \A i \in 1..Len(Log(s, u)) :
                      Log(s, u)[i].part.kind # "none" => Last(s, 1).part.kind # "none")'
      BY <2>0, <2>1, <1>5, <1>9
    <2>2. Last(s, t)'.term = t
      BY <1>4, <1>7
    <2>3. \A i \in 1..Len(Log(s, t)') : Log(s, t)'[i].term <= t
      BY <2>0, <1>0, <1>1, <1>3, <1>7
    <2>4. node'[s][t].open => t = 1 /\ Last(s, t)'.part.kind = "none"
      BY <2>0, <1>4, <1>7 DEF PartLegal
    <2>5. e.part.kind # "none" => Last(s, 1)'.part.kind # "none"
      <3>1. CASE t = 1
        BY <3>1, <1>4
      <3>2. CASE t # 1
        <4>1. Last(s, t).part.kind # "none" \/ e.part = Last(s, t).part
          BY <3>2, <1>7, <2>0 DEF PartLegal
        <4>2. Last(s, t).part.kind # "none" => Last(s, 1).part.kind # "none"
          BY <2>0, <1>1
        <4> QED BY <4>1, <4>2, <1>9
      <3> QED BY <3>1, <3>2
    <2>6. \A i \in 1..Len(Log(s, t)') :
            Log(s, t)'[i].part.kind # "none" => Last(s, 1)'.part.kind # "none"
      <3> SUFFICES ASSUME NEW i \in 1..(n + 1), Log(s, t)'[i].part.kind # "none"
                   PROVE  Last(s, 1)'.part.kind # "none"
        BY <1>3
      <3>1. CASE i = n + 1
        BY <3>1, <2>5, <1>3
      <3>2. CASE i # n + 1
        <4>1. i \in 1..n
          BY <3>2, <1>1
        <4> QED BY <4>1, <2>0, <1>3, <1>9
      <3> QED BY <3>1, <3>2
    <2> QED BY <1>0, <2>1, <2>2, <2>3, <2>4, <2>6 DEF TermInv
  <1>11. PrefixInv(s)'
    <2> SUFFICES ASSUME NEW u \in Terms(s), NEW v \in Terms(s), u <= v
                 PROVE  /\ Ci(s, u)' <= Ci(s, v)'
                        /\ \A i \in 1..Ci(s, u)' : Log(s, v)'[i] = Log(s, u)'[i]
      BY <1>0 DEF PrefixInv
    <2>1. /\ Ci(s, u) <= Ci(s, v)
          /\ \A i \in 1..Ci(s, u) : Log(s, v)[i] = Log(s, u)[i]
      BY DEF LogInv, PrefixInv
    <2>2. \A w \in Terms(s) : Ci(s, w)' = Ci(s, w)
      BY <1>2, <1>5
    <2>3. \A w \in Terms(s) : Ci(s, w) \in 1..Len(Log(s, w)) /\ Len(Log(s, w)) \in Nat
      BY <1>0, NodeFacts
    <2>4. \A w \in Terms(s) : \A i \in 1..Ci(s, w) : Log(s, w)'[i] = Log(s, w)[i]
      BY <1>3, <1>5, <2>3
    <2>5. 1..Ci(s, u) \subseteq 1..Ci(s, v)
      BY <2>1, <2>3
    <2> QED BY <2>1, <2>2, <2>4, <2>5
  <1> QED BY <1>8, <1>10, <1>11

(* A commit point that moves up. *)
LEMMA LogInvMoves ==
    ASSUME NodeTypes, TopTypes, LogInv, NEW s \in Shards, Moves(s, top[s])
    PROVE  (OrderInv(s) /\ TermInv(s) /\ PrefixInv(s))'
  <1> DEFINE t == top[s]
  <1>0. /\ Terms(s) \subseteq 1..MaxTerm[s] /\ Terms(s) \subseteq Nat /\ 1 \in Terms(s)
        /\ t \in Terms(s) /\ Terms(s)' = Terms(s) /\ \A u \in Terms(s) : u <= t
    BY TermFacts DEF Terms, Moves
  <1>1. \A u \in Terms(s) : u # t => /\ Log(s, u)' = Log(s, u) /\ Ci(s, u)' = Ci(s, u)
                                     /\ Last(s, u)' = Last(s, u)
                                     /\ node'[s][u].open => node[s][u].open
    BY <1>0, KeptFacts DEF Moves
  <1>2. PICK tt \in Terms(s) : tt = t
    BY <1>0
  <1>3. /\ Log(s, tt)' = Log(s, tt) /\ Last(s, tt)' = Last(s, tt)
        /\ node'[s][tt].open = node[s][tt].open
        /\ Ci(s, tt)' \in (Ci(s, tt) + 1)..Len(Log(s, tt))
    BY <1>2 DEF Moves, Log, Last, Ci
  <1>4. \A u \in Terms(s) : /\ Log(s, u)' = Log(s, u) /\ Last(s, u)' = Last(s, u)
                            /\ node'[s][u].open => node[s][u].open
    BY <1>1, <1>2, <1>3
  <1>5. \A u \in Terms(s) : Ci(s, u) \in Nat /\ Len(Log(s, u)) \in Nat
    BY <1>0, NodeFacts
  <1>6. OrderInv(s)'
    BY <1>0, <1>4 DEF OrderInv, LogInv
  <1>7. TermInv(s)'
    <2> SUFFICES ASSUME NEW u \in Terms(s)
                 PROVE  (/\ Last(s, u).term = u
                         /\ \A i \in 1..Len(Log(s, u)) : Log(s, u)[i].term <= u
                         /\ node[s][u].open => u = 1 /\ Last(s, u).part.kind = "none"
                         /\ \A i \in 1..Len(Log(s, u)) :
                             Log(s, u)[i].part.kind # "none" => Last(s, 1).part.kind # "none")'
      BY <1>0 DEF TermInv
    <2> QED BY <1>0, <1>4 DEF TermInv, LogInv
  <1>8. PrefixInv(s)'
    <2> SUFFICES ASSUME NEW u \in Terms(s), NEW v \in Terms(s), u <= v
                 PROVE  /\ Ci(s, u)' <= Ci(s, v)'
                        /\ \A i \in 1..Ci(s, u)' : Log(s, v)'[i] = Log(s, u)'[i]
      BY <1>0 DEF PrefixInv
    <2>1. /\ Ci(s, u) <= Ci(s, v)
          /\ \A i \in 1..Ci(s, u) : Log(s, v)[i] = Log(s, u)[i]
      BY DEF LogInv, PrefixInv
    <2>2. CASE u = tt
      <3>1. v = tt
        BY <2>2, <1>0, <1>2
      <3> QED BY <3>1, <2>2, <1>3, <1>5
    <2>3. CASE u # tt
      <3>1. Ci(s, u)' = Ci(s, u)
        BY <2>3, <1>1, <1>2
      <3>2. Ci(s, v) <= Ci(s, v)'
        BY <1>1, <1>2, <1>3, <1>5
      <3>3. Ci(s, v)' \in Nat
        BY <1>1, <1>2, <1>3, <1>5
      <3> QED BY <2>1, <3>1, <3>2, <3>3, <1>4, <1>5
    <2> QED BY <2>2, <2>3
  <1> QED BY <1>6, <1>7, <1>8

(* The copied entry of a new primary's no-op follows what its original followed. *)
LEMMA CopyFollows ==
    ASSUME NEW d \in Entries, NEW x \in Entries, NEW t \in Nat
    PROVE  /\ Follows(x, Entry(t, x.doc, x.part))
           /\ Follows(d, x) => Follows(d, Entry(t, x.doc, x.part))
  <1>1. x.doc \in Docs /\ x.part \in Records
    BY DEF Entries
  <1> DEFINE e == Entry(t, x.doc, x.part)
  <1>2. e.doc = x.doc /\ e.part = x.part
    BY <1>1, EntryFacts
  <1> HIDE DEF e
  <1>3. Follows(x, e)
    BY <1>1, <1>2, DocFacts DEF Follows, PartFollows, DocFollows
  <1>4. Follows(d, x) => Follows(d, e)
    BY <1>2 DEF Follows, PartFollows, DocFollows
  <1> QED BY <1>3, <1>4 DEF e

(* What a new primary has. *)
LEMMA RisesFacts ==
    ASSUME NodeTypes, TopTypes, NEW s \in Shards, NEW t, t = top[s] + 1,
           NEW u \in Terms(s), NEW k \in Nat, Rises(s, t, u, k)
    PROVE  /\ k \in 1..Len(Log(s, u)) /\ DCi(s) <= k
           /\ t \in Nat /\ t >= 2 /\ t \in 1..MaxTerm[s]
           /\ Terms(s)' = Terms(s) \cup {t} /\ t \notin Terms(s) /\ \A v \in Terms(s) : v < t
           /\ Len(Log(s, t)') = k + 1
           /\ \A i \in 1..k : Log(s, t)'[i] = Log(s, u)[i]
           /\ Log(s, t)'[k + 1] = Entry(t, Log(s, u)[k].doc, Log(s, u)[k].part)
           /\ Last(s, t)' = Log(s, t)'[k + 1]
           /\ Log(s, u)[k] \in Entries
           /\ Entry(t, Log(s, u)[k].doc, Log(s, u)[k].part) \in Entries
           /\ Ci(s, t)' = DCi(s)
           /\ ~node'[s][t].open
           /\ \A v \in Terms(s) : Kept(s, v)
           /\ DCi(s) \in 1..Len(DLog(s)) /\ DCi(s) \in Nat /\ Len(DLog(s)) \in Nat
  <1>1. /\ Terms(s) \subseteq 1..MaxTerm[s] /\ Terms(s) \subseteq Nat
        /\ top[s] \in Nat /\ top[s] \in Terms(s) /\ top[s] \in 1..MaxTerm[s] /\ MaxTerm[s] \in Nat
    BY TermFacts
  <1>2. t \in Nat /\ t >= 2 /\ t \in 1..MaxTerm[s]
    BY <1>1 DEF Rises, Terms
  <1>3. Terms(s)' = Terms(s) \cup {t} /\ t \notin Terms(s) /\ \A v \in Terms(s) : v < t
    <2>1. top'[s] = t
      BY DEF Rises, TopTypes
    <2> QED BY <1>1, <2>1 DEF Terms
  <1>4. /\ Log(s, u) \in Seq(Entries) /\ Len(Log(s, u)) \in Nat
        /\ \A i \in 1..Len(Log(s, u)) : Log(s, u)[i] \in Entries
    BY <1>1, NodeFacts
  <1>5. DCi(s) \in 1..Len(DLog(s)) /\ DCi(s) \in Nat /\ Len(DLog(s)) \in Nat
    BY <1>1, NodeFacts DEF DCi, DLog, Ci, Log
  <1>6. k \in 1..Len(Log(s, u)) /\ DCi(s) <= k /\ k \in 0..Len(Log(s, u))
    BY <1>4, <1>5 DEF Rises
  <1> DEFINE p == SubSeq(Log(s, u), 1, k)
             e == Entry(t, Log(s, u)[k].doc, Log(s, u)[k].part)
  <1>7. p \in Seq(Entries) /\ Len(p) = k /\ \A i \in 1..k : p[i] = Log(s, u)[i]
    BY <1>4, <1>6, PrefixOf
  <1>8. Log(s, u)[k] \in Entries /\ e \in Entries
    <2>1. Log(s, u)[k] \in Entries
      BY <1>4, <1>6
    <2>2. Log(s, u)[k].doc \in Docs /\ Log(s, u)[k].part \in Records
      BY <2>1 DEF Entries
    <2> QED BY <2>1, <2>2, <1>2, EntryFacts
  <1>9. Log(s, t)' = Append(p, e)
    BY DEF Rises, Log
  <1> HIDE DEF p, e
  <1>10. /\ Len(Append(p, e)) = k + 1 /\ \A i \in 1..k : Append(p, e)[i] = p[i]
         /\ Append(p, e)[k + 1] = e
    BY <1>7, <1>8, AppendProperties
  <1>11. /\ Len(Log(s, t)') = k + 1 /\ \A i \in 1..k : Log(s, t)'[i] = Log(s, u)[i]
         /\ Log(s, t)'[k + 1] = e
    BY <1>7, <1>9, <1>10
  <1>12. Last(s, t)' = Log(s, t)'[k + 1]
    BY <1>11 DEF Last, Log
  <1>13. Ci(s, t)' = DCi(s) /\ ~node'[s][t].open
    BY DEF Rises, Ci
  <1>14. \A v \in Terms(s) : Kept(s, v)
    BY <1>1, <1>3 DEF Rises
  <1> QED BY <1>2, <1>3, <1>5, <1>6, <1>8, <1>11, <1>12, <1>13, <1>14 DEF e

(* A new primary has what is majority committed, and its oplog is in order. *)
LEMMA LogInvRises ==
    ASSUME NodeTypes, TopTypes, LogInv, NEW s \in Shards, NEW t, t = top[s] + 1,
           NEW u \in Terms(s), NEW k \in Nat, Rises(s, t, u, k)
    PROVE  (OrderInv(s) /\ TermInv(s) /\ PrefixInv(s))'
  <1> DEFINE e == Entry(t, Log(s, u)[k].doc, Log(s, u)[k].part)
  <1>0. /\ k \in 1..Len(Log(s, u)) /\ DCi(s) <= k
        /\ t \in Nat /\ t >= 2
        /\ Terms(s)' = Terms(s) \cup {t} /\ t \notin Terms(s) /\ \A v \in Terms(s) : v < t
        /\ Len(Log(s, t)') = k + 1
        /\ \A i \in 1..k : Log(s, t)'[i] = Log(s, u)[i]
        /\ Log(s, t)'[k + 1] = e
        /\ Last(s, t)' = e
        /\ Log(s, u)[k] \in Entries
        /\ e \in Entries
        /\ Ci(s, t)' = DCi(s)
        /\ ~node'[s][t].open
        /\ DCi(s) \in 1..Len(DLog(s)) /\ DCi(s) \in Nat
    BY RisesFacts
  <1>1. \A v \in Terms(s) : /\ Log(s, v)' = Log(s, v) /\ Ci(s, v)' = Ci(s, v)
                            /\ Last(s, v)' = Last(s, v)
                            /\ node'[s][v].open => node[s][v].open
    <2>1. \A v \in Terms(s) : Kept(s, v)
      BY RisesFacts
    <2> QED BY <2>1, KeptFacts
  <1>2. /\ Terms(s) \subseteq 1..MaxTerm[s] /\ Terms(s) \subseteq Nat /\ 1 \in Terms(s)
        /\ top[s] \in Terms(s) /\ \A v \in Terms(s) : v <= top[s]
    BY TermFacts DEF Terms
  <1>3. /\ e.term = t /\ e.doc = Log(s, u)[k].doc /\ e.part = Log(s, u)[k].part
    BY <1>0, EntryFacts DEF Entries
  <1> HIDE DEF e
  <1>4. /\ Len(Log(s, u)) \in Nat /\ \A i \in 1..Len(Log(s, u)) : Log(s, u)[i] \in Entries
    BY <1>2, NodeFacts
  <1>5. OrderInv(s)'
    <2> SUFFICES ASSUME NEW v \in Terms(s) \cup {t}, NEW i \in 1..Len(Log(s, v)'),
                        NEW j \in 1..Len(Log(s, v)'), i < j
                 PROVE  Follows(Log(s, v)'[i], Log(s, v)'[j])
      BY <1>0 DEF OrderInv
    <2>1. CASE v # t
      BY <2>1, <1>1 DEF LogInv, OrderInv
    <2>2. CASE v = t /\ j # k + 1
      <3>1. i \in 1..k /\ j \in 1..k /\ i \in 1..Len(Log(s, u)) /\ j \in 1..Len(Log(s, u))
        BY <2>2, <1>0, <1>4
      <3>2. Follows(Log(s, u)[i], Log(s, u)[j])
        BY <3>1 DEF LogInv, OrderInv
      <3> QED BY <2>2, <3>1, <3>2, <1>0
    <2>3. CASE v = t /\ j = k + 1
      <3>1. i \in 1..k /\ i \in 1..Len(Log(s, u)) /\ Log(s, u)[i] \in Entries
        BY <2>3, <1>0, <1>4
      <3>2. i = k \/ Follows(Log(s, u)[i], Log(s, u)[k])
        BY <3>1, <1>0 DEF LogInv, OrderInv
      <3>3. Follows(Log(s, u)[i], e)
        BY <3>1, <3>2, <1>0, CopyFollows DEF e
      <3> QED BY <2>3, <3>1, <3>3, <1>0
    <2> QED BY <2>1, <2>2, <2>3
  <1>6. TermInv(s)'
    <2>0. ASSUME NEW v \in Terms(s)
          PROVE  /\ Last(s, v).term = v
                 /\ \A i \in 1..Len(Log(s, v)) : Log(s, v)[i].term <= v
                 /\ node[s][v].open => v = 1 /\ Last(s, v).part.kind = "none"
                 /\ \A i \in 1..Len(Log(s, v)) :
                     Log(s, v)[i].part.kind # "none" => Last(s, 1).part.kind # "none"
      BY DEF LogInv, TermInv
    <2>1. Last(s, 1)' = Last(s, 1)
      BY <1>1, <1>2
    <2>2. ASSUME NEW v \in Terms(s)
          PROVE  (/\ Last(s, v).term = v
                  /\ \A i \in 1..Len(Log(s, v)) : Log(s, v)[i].term <= v
                  /\ node[s][v].open => v = 1 /\ Last(s, v).part.kind = "none"
                  /\ \A i \in 1..Len(Log(s, v)) :
                      Log(s, v)[i].part.kind # "none" => Last(s, 1).part.kind # "none")'
      BY <2>0, <2>1, <1>1
    <2>3. \A i \in 1..Len(Log(s, u)) : Log(s, u)[i].term <= t
      <3>1. \A i \in 1..Len(Log(s, u)) : Log(s, u)[i].term <= u /\ Log(s, u)[i].term \in Nat
        BY <2>0, <1>4 DEF Entries
      <3> QED BY <3>1, <1>0, <1>2
    <2>4. /\ \A i \in 1..Len(Log(s, t)') : Log(s, t)'[i].term <= t
          /\ \A i \in 1..Len(Log(s, t)') :
              Log(s, t)'[i].part.kind # "none" => Last(s, 1)'.part.kind # "none"
      <3> SUFFICES ASSUME NEW i \in 1..(k + 1)
                   PROVE  /\ Log(s, t)'[i].term <= t
                          /\ Log(s, t)'[i].part.kind # "none" => Last(s, 1)'.part.kind # "none"
        BY <1>0
      <3>1. CASE i = k + 1
        BY <3>1, <1>0, <1>3, <2>0, <2>1
      <3>2. CASE i # k + 1
        <4>1. i \in 1..k /\ i \in 1..Len(Log(s, u))
          BY <3>2, <1>0, <1>4
        <4> QED BY <4>1, <1>0, <2>0, <2>1, <2>3
      <3> QED BY <3>1, <3>2
    <2> QED BY <2>2, <2>4, <1>0, <1>3 DEF TermInv
  <1>7. PrefixInv(s)'
    <2> SUFFICES ASSUME NEW v \in Terms(s) \cup {t}, NEW w \in Terms(s) \cup {t}, v <= w
                 PROVE  /\ Ci(s, v)' <= Ci(s, w)'
                        /\ \A i \in 1..Ci(s, v)' : Log(s, w)'[i] = Log(s, v)'[i]
      BY <1>0 DEF PrefixInv
    <2>1. CASE v # t /\ w # t
      BY <2>1, <1>1 DEF LogInv, PrefixInv
    <2>2. CASE v = t
      <3>1. w = t
        BY <2>2, <1>0, <1>2
      <3> QED BY <2>2, <3>1, <1>0
    <2>3. CASE v # t /\ w = t
      <3>1. /\ Ci(s, v) <= DCi(s)
            /\ \A i \in 1..Ci(s, v) : DLog(s)[i] = Log(s, v)[i]
        BY <2>3, <1>2 DEF LogInv, PrefixInv, DCi, DLog, Ci, Log
      <3>2. Ci(s, v) \in Nat
        BY <2>3, <1>2, NodeFacts
      <3>3. \A i \in 1..DCi(s) : Log(s, u)[i] = DLog(s)[i]
        BY DEF Rises
      <3>4. \A i \in 1..Ci(s, v) : i \in 1..k /\ i \in 1..DCi(s)
        BY <3>1, <3>2, <1>0
      <3>5. Ci(s, v)' = Ci(s, v) /\ Log(s, v)' = Log(s, v) /\ Ci(s, w)' = DCi(s)
        BY <2>3, <1>0, <1>1
      <3>6. \A i \in 1..Ci(s, v) : Log(s, w)'[i] = Log(s, v)[i]
        BY <2>3, <3>1, <3>3, <3>4, <1>0
      <3> QED BY <3>1, <3>5, <3>6
    <2> QED BY <2>1, <2>2, <2>3
  <1> QED BY <1>5, <1>6, <1>7

(* The oplogs stay in order and keep what is majority committed, whatever the step. *)
LEMMA LogInvNext ==
    ASSUME NodeTypes, TopTypes, LogInv, NodeStep
    PROVE  LogInv'
  <1> SUFFICES ASSUME NEW r \in Shards PROVE (OrderInv(r) /\ TermInv(r) /\ PrefixInv(r))'
    BY DEF LogInv
  <1>0. OrderInv(r) /\ TermInv(r) /\ PrefixInv(r)
    BY DEF LogInv
  <1>1. CASE Keeps
    BY <1>0, <1>1, LogInvKept DEF Keeps
  <1>2. ASSUME NEW s \in Shards, NEW t \in Terms(s), NEW e \in Entries, Writes(s, t, e)
        PROVE  (OrderInv(r) /\ TermInv(r) /\ PrefixInv(r))'
    <2>1. CASE r = s
      BY <1>2, <2>1, LogInvWrites
    <2>2. CASE r # s
      BY <1>0, <1>2, <2>2, LogInvKept DEF Writes
    <2> QED BY <2>1, <2>2
  <1>3. ASSUME NEW s \in Shards, Moves(s, top[s])
        PROVE  (OrderInv(r) /\ TermInv(r) /\ PrefixInv(r))'
    <2>1. CASE r = s
      BY <1>3, <2>1, LogInvMoves
    <2>2. CASE r # s
      BY <1>0, <1>3, <2>2, LogInvKept DEF Moves
    <2> QED BY <2>1, <2>2
  <1>4. ASSUME NEW s \in Shards, NEW u \in Terms(s), NEW k \in Nat,
               Rises(s, top[s] + 1, u, k)
        PROVE  (OrderInv(r) /\ TermInv(r) /\ PrefixInv(r))'
    <2>0. PICK t : t = top[s] + 1
      OBVIOUS
    <2>1. CASE r = s
      BY <1>4, <2>0, <2>1, LogInvRises
    <2>2. CASE r # s
      <3>1. top'[r] = top[r] /\ \A v \in 1..MaxTerm[r] : Kept(r, v)
        BY <1>4, <2>2 DEF Rises, TopTypes
      <3> QED BY <1>0, <3>1, LogInvKept
    <2> QED BY <2>1, <2>2
  <1> QED BY <1>1, <1>2, <1>3, <1>4 DEF NodeStep

-----------------------------------------------------------------------------
(* What is stable under every step. *)

(* The majority committed part of an oplog only grows, whoever is primary. *)
LEMMA DurableGrows ==
    ASSUME NodeTypes, TopTypes, NodeStep, NEW r \in Shards
    PROVE  /\ DCi(r) <= DCi(r)' /\ DCi(r) \in Nat /\ DCi(r)' \in Nat
           /\ \A i \in 1..DCi(r) : DLog(r)'[i] = DLog(r)[i]
  <1>0. /\ top[r] \in 1..MaxTerm[r] /\ top[r] \in Terms(r)
    BY TermFacts
  <1>1. /\ DLog(r) \in Seq(Entries) /\ Len(DLog(r)) \in Nat
        /\ DCi(r) \in 1..Len(DLog(r)) /\ DCi(r) \in Nat
    BY <1>0, NodeFacts DEF DLog, DCi, Log, Ci
  <1>2. ASSUME top'[r] = top[r], Kept(r, top[r])
        PROVE  DCi(r)' = DCi(r) /\ DLog(r)' = DLog(r)
    BY <1>2 DEF Kept, DCi, DLog
  <1>3. CASE Keeps
    <2>1. top'[r] = top[r] /\ Kept(r, top[r])
      BY <1>0, <1>3 DEF Keeps
    <2> QED BY <2>1, <1>1, <1>2
  <1>4. ASSUME NEW s \in Shards, NEW t \in Terms(s), NEW e \in Entries, Writes(s, t, e)
        PROVE  /\ DCi(r)' = DCi(r)
               /\ \A i \in 1..DCi(r) : DLog(r)'[i] = DLog(r)[i]
    <2>1. CASE r = s /\ t = top[r]
      <3>1. DLog(r)' = Append(DLog(r), e) /\ DCi(r)' = DCi(r)
        BY <1>4, <2>1 DEF Writes, DLog, DCi
      <3>2. \A i \in 1..Len(DLog(r)) : Append(DLog(r), e)[i] = DLog(r)[i]
        BY <1>1, AppendProperties
      <3> QED BY <3>1, <3>2, <1>1
    <2>2. CASE ~(r = s /\ t = top[r])
      <3>1. top'[r] = top[r] /\ Kept(r, top[r])
        BY <1>0, <1>4, <2>2 DEF Writes
      <3> QED BY <3>1, <1>2
    <2> QED BY <2>1, <2>2
  <1>5. ASSUME NEW s \in Shards, Moves(s, top[s])
        PROVE  /\ DCi(r) <= DCi(r)' /\ DCi(r)' \in Nat
               /\ DLog(r)' = DLog(r)
    <2>1. CASE r = s
      BY <1>1, <1>5, <2>1 DEF Moves, DLog, DCi
    <2>2. CASE r # s
      <3>1. top'[r] = top[r] /\ Kept(r, top[r])
        BY <1>0, <1>5, <2>2 DEF Moves
      <3> QED BY <3>1, <1>1, <1>2
    <2> QED BY <2>1, <2>2
  <1>6. ASSUME NEW s \in Shards, NEW u \in Terms(s), NEW k \in Nat,
               Rises(s, top[s] + 1, u, k)
        PROVE  /\ DCi(r)' = DCi(r)
               /\ \A i \in 1..DCi(r) : DLog(r)'[i] = DLog(r)[i]
    <2>0. PICK t : t = top[s] + 1
      OBVIOUS
    <2>1. CASE r = s
      <3>1. /\ DCi(s) <= k /\ \A i \in 1..k : Log(s, t)'[i] = Log(s, u)[i]
            /\ Ci(s, t)' = DCi(s) /\ k \in Nat
        BY <1>6, <2>0, RisesFacts
      <3>2. top'[s] = t /\ \A i \in 1..DCi(s) : Log(s, u)[i] = DLog(s)[i]
        BY <1>6, <2>0 DEF Rises, TopTypes
      <3>3. DLog(s)' = Log(s, t)' /\ DCi(s)' = Ci(s, t)'
        BY <3>2 DEF DLog, DCi, Log, Ci
      <3>4. \A i \in 1..DCi(s) : i \in 1..k
        BY <3>1, <1>1, <2>1
      <3> QED BY <2>1, <3>1, <3>2, <3>3, <3>4
    <2>2. CASE r # s
      <3>1. top'[r] = top[r] /\ Kept(r, top[r])
        BY <1>0, <1>6, <2>2 DEF Rises, TopTypes
      <3> QED BY <3>1, <1>2
    <2> QED BY <2>1, <2>2
  <1> QED BY <1>1, <1>3, <1>4, <1>5, <1>6 DEF NodeStep

(* What is majority committed on a shard follows what was. *)
LEMMA DurableFollows ==
    ASSUME NodeTypes, TopTypes, LogInv, NodeStep, NodeTypes', TopTypes', LogInv',
           NEW r \in Shards
    PROVE  /\ Durable(r) \in Entries /\ Durable(r)' \in Entries
           /\ Durable(r)' = Durable(r) \/ Follows(Durable(r), Durable(r)')
  <1>1. /\ DCi(r) <= DCi(r)' /\ DCi(r) \in Nat /\ DCi(r)' \in Nat
        /\ \A i \in 1..DCi(r) : DLog(r)'[i] = DLog(r)[i]
    BY DurableGrows
  <1>2. top[r] \in 1..MaxTerm[r] /\ top'[r] \in 1..MaxTerm[r] /\ top'[r] \in Terms(r)'
    BY TermFacts DEF TopTypes, Terms
  <1>3. /\ DCi(r) \in 1..Len(DLog(r)) /\ Durable(r) = DLog(r)[DCi(r)] /\ Durable(r) \in Entries
    BY <1>2, NodeFacts DEF Durable, DLog, DCi, Log, Ci
  <1>4. PICK t \in 1..MaxTerm[r] : t = top'[r]
    BY <1>2
  <1>5. /\ node'[r][t] \in Nodes /\ node'[r][t].ci \in 1..Len(node'[r][t].log)
    BY DEF NodeTypes
  <1>6. node'[r][t].log \in Seq(Entries)
    BY <1>5 DEF Nodes, Entries
  <1>7. /\ DLog(r)' \in Seq(Entries) /\ DCi(r)' \in 1..Len(DLog(r)')
        /\ Durable(r)' = DLog(r)'[DCi(r)']
    BY <1>4, <1>5, <1>6 DEF DLog, DCi, Durable, Majority
  <1>8. Durable(r)' \in Entries /\ Len(DLog(r)') \in Nat
    BY <1>7, ElementOfSeq, LenProperties
  <1>9. DCi(r) \in 1..Len(DLog(r)') /\ Durable(r) = DLog(r)'[DCi(r)]
    BY <1>1, <1>3, <1>7, <1>8
  <1>10. \A i, j \in 1..Len(DLog(r)') : i < j => Follows(DLog(r)'[i], DLog(r)'[j])
    <2>1. OrderInv(r)'
      BY DEF LogInv
    <2>2. \A i, j \in 1..Len(node'[r][t].log) :
            i < j => Follows(node'[r][t].log[i], node'[r][t].log[j])
      BY <1>2, <1>4, <2>1 DEF OrderInv, Log
    <2> QED BY <1>4, <2>2 DEF DLog
  <1>11. DCi(r) = DCi(r)' \/ DCi(r) < DCi(r)'
    BY <1>1
  <1> QED BY <1>3, <1>7, <1>8, <1>9, <1>10, <1>11

GoodStep ==
    /\ NodeTypes /\ TopTypes /\ LogInv
    /\ NodeTypes' /\ TopTypes' /\ LogInv'
    /\ NodeStep

(* Documents that are majority committed stay so. *)
LEMMA DocsGrow ==
    ASSUME GoodStep
    PROVE  /\ DurableDocs \subseteq DurableDocs'
           /\ ListIsDurable => ListIsDurable'
  <1>1. /\ DCi(Coord) <= DCi(Coord)' /\ DCi(Coord) \in Nat /\ DCi(Coord)' \in Nat
        /\ \A i \in 1..DCi(Coord) : DLog(Coord)'[i] = DLog(Coord)[i]
    BY ShardAssumption, DurableGrows DEF GoodStep
  <1>2. DurableDocs \subseteq DurableDocs'
    <2> SUFFICES ASSUME NEW i \in 1..DCi(Coord) PROVE DLog(Coord)[i].doc \in DurableDocs'
      BY DEF DurableDocs
    <2>1. DLog(Coord)[i].doc = DLog(Coord)'[i].doc /\ i \in 1..DCi(Coord)'
      BY <1>1
    <2> QED BY <2>1 DEF DurableDocs
  <1>3. ListIsDurable => ListIsDurable'
    BY <1>2 DEF ListIsDurable
  <1> QED BY <1>2, <1>3

(* So do outcomes and prepare timestamps. *)
LEMMA DurableStable ==
    ASSUME GoodStep, NEW r \in Shards
    PROVE  /\ Durable(r).part.kind # "none" => Durable(r)'.part.kind # "none"
           /\ Durable(r).part.kind # "none" /\ Durable(r)'.part.kind = "prepared" =>
                Durable(r).part = Durable(r)'.part
           /\ Durable(r).part.kind \in {"committed", "aborted"} =>
                Durable(r)'.part = Durable(r).part
  <1>1. /\ Durable(r) \in Entries /\ Durable(r)' \in Entries
        /\ Durable(r)' = Durable(r) \/ Follows(Durable(r), Durable(r)')
    BY DurableFollows DEF GoodStep
  <1>2. Durable(r).part.kind \in {"none", "prepared", "committed", "aborted"}
    BY <1>1, RecordFacts DEF Entries
  <1>3. CASE Durable(r)' = Durable(r)
    BY <1>3
  <1>4. CASE Follows(Durable(r), Durable(r)')
    BY <1>2, <1>4 DEF Follows, PartFollows
  <1> QED BY <1>1, <1>3, <1>4

LEMMA PreparedStable ==
    ASSUME GoodStep, NEW ts
    PROVE  /\ AllPrepared(ts) => AllPrepared(ts)'
           /\ \A r \in Shards : PreparedAt(r, ts) => PreparedAt(r, ts)'
  <1>1. \A r \in Shards :
           /\ Durable(r).part.kind # "none" => Durable(r)'.part.kind # "none"
           /\ Durable(r).part.kind # "none" /\ Durable(r)'.part.kind = "prepared" =>
                Durable(r).part = Durable(r)'.part
    BY DurableStable
  <1>2. AllPrepared(ts) => AllPrepared(ts)'
    BY <1>1 DEF AllPrepared
  <1>3. \A r \in Shards : PreparedAt(r, ts) => PreparedAt(r, ts)'
    BY <1>1 DEF PreparedAt
  <1> QED BY <1>2, <1>3

(* A transaction that was dropped or excluded stays so. *)
LEMMA FrozenStable ==
    ASSUME GoodStep, NEW r \in Shards
    PROVE  /\ Frozen(r) => Frozen(r)'
           /\ Resolved(r) => Resolved(r)'
  <1>0. NodeTypes /\ TopTypes /\ NodeStep
    BY DEF GoodStep
  <1>1. Excluded(r) => Excluded(r)'
    <2>1. /\ DCi(r) <= DCi(r)' /\ DCi(r) \in Nat /\ DCi(r)' \in Nat
          /\ \A i \in 1..DCi(r) : DLog(r)'[i] = DLog(r)[i]
      BY <1>0, DurableGrows
    <2> SUFFICES ASSUME NEW i \in 1..DCi(r),
                        DLog(r)[i].term >= 2 /\ DLog(r)[i].part.kind = "none"
                 PROVE  Excluded(r)'
      BY DEF Excluded
    <2>2. i \in 1..DCi(r)' /\ DLog(r)'[i] = DLog(r)[i]
      BY <2>1
    <2> QED BY <2>2 DEF Excluded
  <1>2. Dropped(r) => Dropped(r)'
    <2>0. 1 \in 1..MaxTerm[r] /\ 1 \in Terms(r) /\ top[r] \in Nat /\ Terms(r) \subseteq Nat
      BY <1>0, TermFacts
    <2> SUFFICES ASSUME Dropped(r) PROVE Dropped(r)'
      OBVIOUS
    <2>1. ASSUME Kept(r, 1) PROVE Dropped(r)'
      BY <2>1, KeptFacts DEF Dropped
    <2>2. CASE Keeps
      BY <2>0, <2>1, <2>2 DEF Keeps
    <2>3. ASSUME NEW s \in Shards, NEW t \in Terms(s), NEW e \in Entries, Writes(s, t, e)
          PROVE  Dropped(r)'
      <3>1. CASE r = s /\ t = 1
        <4>1. /\ Log(r, 1) \in Seq(Entries) /\ Len(Log(r, 1)) \in Nat
          BY <1>0, <2>0, NodeFacts
        <4>2. Log(r, 1)' = Append(Log(r, 1), e)
          BY <2>3, <3>1 DEF Writes, Log
        <4>3. /\ Len(Append(Log(r, 1), e)) = Len(Log(r, 1)) + 1
              /\ Append(Log(r, 1), e)[Len(Log(r, 1)) + 1] = e
          BY <4>1, AppendProperties
        <4>4. Last(r, 1)' = e
          BY <4>2, <4>3 DEF Last, Log
        <4>5. ~node'[r][1].open
          BY <2>3, <3>1 DEF Writes, Dropped
        <4>6. e.part = Last(r, 1).part
          BY <2>3, <3>1 DEF Writes, PartLegal, Dropped
        <4> QED BY <4>4, <4>5, <4>6 DEF Dropped
      <3>2. CASE ~(r = s /\ t = 1)
        BY <2>0, <2>1, <2>3, <3>2 DEF Writes
      <3> QED BY <3>1, <3>2
    <2>4. ASSUME NEW s \in Shards, Moves(s, top[s])
          PROVE  Dropped(r)'
      <3>1. CASE r = s /\ top[s] = 1
        BY <2>4, <3>1 DEF Moves, Dropped, Last
      <3>2. CASE ~(r = s /\ top[s] = 1)
        BY <2>0, <2>1, <2>4, <3>2 DEF Moves
      <3> QED BY <3>1, <3>2
    <2>5. ASSUME NEW s \in Shards, NEW u \in Terms(s), NEW k \in Nat,
                 Rises(s, top[s] + 1, u, k)
          PROVE  Dropped(r)'
      <3>1. top[s] + 1 # 1
        BY <1>0, TermFacts
      <3>2. Kept(r, 1)
        BY <2>0, <2>5, <3>1 DEF Rises
      <3> QED BY <2>1, <3>2
    <2> QED BY <1>0, <2>2, <2>3, <2>4, <2>5 DEF NodeStep
  <1>3. Frozen(r) => Frozen(r)'
    BY <1>1, <1>2 DEF Frozen
  <1>4. Resolved(r) => Resolved(r)'
    BY <1>3, DurableStable DEF Resolved
  <1> QED BY <1>3, <1>4

(* Where the oplog of a node comes from. *)
LEMMA LogShape ==
    ASSUME NodeTypes, TopTypes, NodeStep, NEW r \in Shards, NEW v \in Terms(r)'
    PROVE  \/ v \in Terms(r) /\ Log(r, v)' = Log(r, v)
           \/ /\ v \in Terms(r)
              /\ \E e \in Entries :
                  /\ Writes(r, v, e)
                  /\ Len(Log(r, v)') = Len(Log(r, v)) + 1
                  /\ \A i \in 1..Len(Log(r, v)) : Log(r, v)'[i] = Log(r, v)[i]
                  /\ Log(r, v)'[Len(Log(r, v)) + 1] = e
           \/ \E u \in Terms(r) : \E k \in 1..Len(Log(r, u)) :
                  /\ Len(Log(r, v)') = k + 1
                  /\ \A i \in 1..k : Log(r, v)'[i] = Log(r, u)[i]
                  /\ Log(r, v)'[k + 1].doc = Log(r, u)[k].doc
                  /\ Log(r, v)'[k + 1].part = Log(r, u)[k].part
  <1>0. Terms(r) \subseteq 1..MaxTerm[r]
    BY TermFacts
  <1>1. ASSUME v \in Terms(r), Kept(r, v) PROVE Log(r, v)' = Log(r, v)
    BY <1>1, KeptFacts
  <1>2. CASE Keeps
    <2>1. v \in Terms(r) /\ Kept(r, v)
      BY <1>0, <1>2 DEF Keeps, Terms
    <2> QED BY <2>1, <1>1
  <1>3. ASSUME NEW s \in Shards, NEW t \in Terms(s), NEW e \in Entries, Writes(s, t, e)
        PROVE  \/ v \in Terms(r) /\ Log(r, v)' = Log(r, v)
               \/ /\ v \in Terms(r) /\ Writes(r, v, e)
                  /\ Len(Log(r, v)') = Len(Log(r, v)) + 1
                  /\ \A i \in 1..Len(Log(r, v)) : Log(r, v)'[i] = Log(r, v)[i]
                  /\ Log(r, v)'[Len(Log(r, v)) + 1] = e
    <2>0. v \in Terms(r)
      BY <1>3 DEF Writes, Terms
    <2>1. CASE r = s /\ v = t
      <3>1. Log(r, v) \in Seq(Entries)
        BY <1>0, <2>0, NodeFacts
      <3>2. Log(r, v)' = Append(Log(r, v), e)
        BY <1>3, <2>1 DEF Writes, Log
      <3> QED BY <1>3, <2>0, <2>1, <3>1, <3>2, AppendProperties
    <2>2. CASE ~(r = s /\ v = t)
      <3>1. Kept(r, v)
        BY <1>0, <1>3, <2>0, <2>2 DEF Writes
      <3> QED BY <1>1, <2>0, <3>1
    <2> QED BY <2>1, <2>2
  <1>4. ASSUME NEW s \in Shards, Moves(s, top[s])
        PROVE  v \in Terms(r) /\ Log(r, v)' = Log(r, v)
    <2>0. v \in Terms(r)
      BY <1>4 DEF Moves, Terms
    <2>1. CASE r = s /\ v = top[s]
      BY <1>4, <2>0, <2>1 DEF Moves, Log
    <2>2. CASE ~(r = s /\ v = top[s])
      <3>1. Kept(r, v)
        BY <1>0, <1>4, <2>0, <2>2 DEF Moves
      <3> QED BY <1>1, <2>0, <3>1
    <2> QED BY <2>1, <2>2
  <1>5. ASSUME NEW s \in Shards, NEW u \in Terms(s), NEW k \in Nat,
               Rises(s, top[s] + 1, u, k)
        PROVE  \/ v \in Terms(r) /\ Log(r, v)' = Log(r, v)
               \/ /\ u \in Terms(r) /\ k \in 1..Len(Log(r, u))
                  /\ Len(Log(r, v)') = k + 1
                  /\ \A i \in 1..k : Log(r, v)'[i] = Log(r, u)[i]
                  /\ Log(r, v)'[k + 1].doc = Log(r, u)[k].doc
                  /\ Log(r, v)'[k + 1].part = Log(r, u)[k].part
    <2>0. PICK t : t = top[s] + 1
      OBVIOUS
    <2>1. CASE r = s /\ v = t
      <3>1. /\ k \in 1..Len(Log(s, u)) /\ t \in Nat
            /\ Len(Log(s, t)') = k + 1
            /\ \A i \in 1..k : Log(s, t)'[i] = Log(s, u)[i]
            /\ Log(s, t)'[k + 1] = Entry(t, Log(s, u)[k].doc, Log(s, u)[k].part)
            /\ Log(s, u)[k] \in Entries
        BY <1>5, <2>0, RisesFacts
      <3>2. Log(s, u)[k].doc \in Docs /\ Log(s, u)[k].part \in Records
        BY <3>1 DEF Entries
      <3>3. /\ Log(s, t)'[k + 1].doc = Log(s, u)[k].doc
            /\ Log(s, t)'[k + 1].part = Log(s, u)[k].part
        BY <3>1, <3>2, EntryFacts
      <3> QED BY <2>1, <3>1, <3>3
    <2>2. CASE ~(r = s /\ v = t)
      <3>1. v \in Terms(r)
        <4>1. CASE r = s
          <5>1. Terms(s)' = Terms(s) \cup {t}
            BY <1>5, <2>0, RisesFacts
          <5> QED BY <4>1, <5>1, <2>2
        <4>2. CASE r # s
          BY <4>2, <1>5 DEF Rises, Terms, TopTypes
        <4> QED BY <4>1, <4>2
      <3>2. Kept(r, v)
        BY <1>0, <1>5, <2>0, <2>2, <3>1 DEF Rises
      <3> QED BY <1>1, <3>1, <3>2
    <2> QED BY <2>1, <2>2
  <1>6. CASE \E s \in Shards : \E t \in Terms(s) : \E e \in Entries : Writes(s, t, e)
    BY <1>3, <1>6
  <1>7. CASE \E s \in Shards : Moves(s, top[s])
    BY <1>4, <1>7
  <1>8. CASE \E s \in Shards : \E u \in Terms(s) : \E k \in Nat : Rises(s, top[s] + 1, u, k)
    BY <1>5, <1>8
  <1> QED BY <1>2, <1>6, <1>7, <1>8 DEF NodeStep

(* An entry of an oplog was there before, is a copy, or is being written. *)
LEMMA EntryOrigin ==
    ASSUME NodeTypes, TopTypes, NodeStep, NEW r \in Shards, NEW v \in Terms(r)',
           NEW i \in 1..Len(Log(r, v)')
    PROVE  \/ \E u \in Terms(r) : \E j \in 1..Len(Log(r, u)) :
                /\ Log(r, v)'[i].doc = Log(r, u)[j].doc
                /\ Log(r, v)'[i].part = Log(r, u)[j].part
           \/ \E e \in Entries : v \in Terms(r) /\ Writes(r, v, e) /\ Log(r, v)'[i] = e
  <1>0. \A u \in Terms(r) : Len(Log(r, u)) \in Nat
    BY TermFacts, NodeFacts
  <1>1. CASE v \in Terms(r) /\ Log(r, v)' = Log(r, v)
    BY <1>1
  <1>2. ASSUME v \in Terms(r), NEW e \in Entries, Writes(r, v, e),
               Len(Log(r, v)') = Len(Log(r, v)) + 1,
               \A j \in 1..Len(Log(r, v)) : Log(r, v)'[j] = Log(r, v)[j],
               Log(r, v)'[Len(Log(r, v)) + 1] = e
        PROVE  \/ \E j \in 1..Len(Log(r, v)) : Log(r, v)'[i] = Log(r, v)[j]
               \/ Log(r, v)'[i] = e
    BY <1>0, <1>2
  <1>3. ASSUME NEW u \in Terms(r), NEW k \in 1..Len(Log(r, u)),
               Len(Log(r, v)') = k + 1,
               \A j \in 1..k : Log(r, v)'[j] = Log(r, u)[j],
               Log(r, v)'[k + 1].doc = Log(r, u)[k].doc,
               Log(r, v)'[k + 1].part = Log(r, u)[k].part
        PROVE  \E j \in 1..Len(Log(r, u)) : /\ Log(r, v)'[i].doc = Log(r, u)[j].doc
                                            /\ Log(r, v)'[i].part = Log(r, u)[j].part
    BY <1>0, <1>3
  <1>4. CASE /\ v \in Terms(r)
             /\ \E e \in Entries :
                  /\ Writes(r, v, e)
                  /\ Len(Log(r, v)') = Len(Log(r, v)) + 1
                  /\ \A j \in 1..Len(Log(r, v)) : Log(r, v)'[j] = Log(r, v)[j]
                  /\ Log(r, v)'[Len(Log(r, v)) + 1] = e
    <2>1. PICK e \in Entries :
             /\ Writes(r, v, e)
             /\ Len(Log(r, v)') = Len(Log(r, v)) + 1
             /\ \A j \in 1..Len(Log(r, v)) : Log(r, v)'[j] = Log(r, v)[j]
             /\ Log(r, v)'[Len(Log(r, v)) + 1] = e
      BY <1>4
    <2>2. \/ \E j \in 1..Len(Log(r, v)) : Log(r, v)'[i] = Log(r, v)[j]
          \/ Log(r, v)'[i] = e
      BY <1>2, <1>4, <2>1
    <2> QED BY <1>4, <2>1, <2>2
  <1>5. CASE \E u \in Terms(r) : \E k \in 1..Len(Log(r, u)) :
                  /\ Len(Log(r, v)') = k + 1
                  /\ \A j \in 1..k : Log(r, v)'[j] = Log(r, u)[j]
                  /\ Log(r, v)'[k + 1].doc = Log(r, u)[k].doc
                  /\ Log(r, v)'[k + 1].part = Log(r, u)[k].part
    BY <1>3, <1>5
  <1> QED BY <1>1, <1>4, <1>5, LogShape

-----------------------------------------------------------------------------
(* The parts of the invariant that follow from what a step does to the nodes. *)

LEMMA ParticipantInvNext ==
    ASSUME GoodStep, ParticipantInv, net \subseteq net'
    PROVE  ParticipantInv'
  <1>1. /\ ListIsDurable => ListIsDurable'
        /\ CommitIsSent => CommitIsSent'
        /\ AbortDecision \in net => AbortDecision \in net'
    BY DocsGrow DEF CommitIsSent
  <1> SUFFICES ASSUME NEW s \in Shards, NEW t \in Terms(s)', NEW i \in 1..Len(Log(s, t)')
               PROVE  /\ Log(s, t)'[i].part.kind = "committed" => CommitIsSent'
                      /\ Log(s, t)'[i].part.kind = "aborted" => AbortDecision \in net'
                      /\ Log(s, t)'[i].part.kind = "prepared" => ListIsDurable'
    BY DEF ParticipantInv
  <1>2. ASSUME NEW u \in Terms(s), NEW j \in 1..Len(Log(s, u))
        PROVE  /\ Log(s, u)[j].part.kind = "committed" => CommitIsSent
               /\ Log(s, u)[j].part.kind = "aborted" => AbortDecision \in net
               /\ Log(s, u)[j].part.kind = "prepared" => ListIsDurable
    BY DEF ParticipantInv
  <1>3. CASE \E u \in Terms(s) : \E j \in 1..Len(Log(s, u)) :
                /\ Log(s, t)'[i].doc = Log(s, u)[j].doc
                /\ Log(s, t)'[i].part = Log(s, u)[j].part
    BY <1>1, <1>2, <1>3
  <1>4. ASSUME NEW e \in Entries, t \in Terms(s), Writes(s, t, e)
        PROVE  /\ e.part.kind = "committed" => CommitIsSent
               /\ e.part.kind = "aborted" => AbortDecision \in net
               /\ e.part.kind = "prepared" => ListIsDurable
    <2>1. PartLegal(s, t, e)
      BY <1>4 DEF Writes
    <2>2. PICK j \in 1..Len(Log(s, t)) : Last(s, t) = Log(s, t)[j]
      BY <1>4, TermFacts, NodeFacts DEF GoodStep
    <2> QED BY <1>2, <1>4, <2>1, <2>2 DEF PartLegal
  <1>5. CASE \E e \in Entries : t \in Terms(s) /\ Writes(s, t, e) /\ Log(s, t)'[i] = e
    <2>1. PICK e \in Entries : t \in Terms(s) /\ Writes(s, t, e) /\ Log(s, t)'[i] = e
      BY <1>5
    <2> QED BY <1>1, <1>4, <2>1
  <1> QED BY <1>3, <1>5, EntryOrigin DEF GoodStep

LEMMA DocumentInvNext ==
    ASSUME GoodStep, DocumentInv
    PROVE  DocumentInv'
  <1>0. Coord \in Shards
    BY ShardAssumption
  <1>1. (\A r \in Shards : Resolved(r)) => (\A r \in Shards : Resolved(r)')
    BY FrozenStable
  <1>2. \A ts : AllPrepared(ts) => AllPrepared(ts)'
    BY PreparedStable
  <1>3. \A u \in Terms(Coord) : \A i \in 1..Len(Log(Coord, u)) :
          /\ Log(Coord, u)[i].doc.kind = "commit" => AllPrepared(Log(Coord, u)[i].doc.ts)
          /\ \A j \in 1..Len(Log(Coord, u)) :
              i < j /\ Log(Coord, u)[i].doc # NoDoc /\ Log(Coord, u)[j].doc = NoDoc
                  => \A s \in Shards : Resolved(s)
    BY DEF DocumentInv
  <1>4. \A u \in Terms(Coord) :
          /\ Len(Log(Coord, u)) \in Nat /\ Len(Log(Coord, u)) \in 1..Len(Log(Coord, u))
          /\ Last(Coord, u) = Log(Coord, u)[Len(Log(Coord, u))]
    BY <1>0, TermFacts, NodeFacts DEF GoodStep
  <1> SUFFICES ASSUME NEW t \in Terms(Coord)', NEW i \in 1..Len(Log(Coord, t)')
               PROVE  (/\ Log(Coord, t)[i].doc.kind = "commit" =>
                            AllPrepared(Log(Coord, t)[i].doc.ts)
                       /\ \A j \in 1..Len(Log(Coord, t)) :
                           i < j /\ Log(Coord, t)[i].doc # NoDoc /\ Log(Coord, t)[j].doc = NoDoc
                               => \A s \in Shards : Resolved(s))'
    BY DEF DocumentInv
  <1>5. ASSUME Log(Coord, t)'[i].doc.kind = "commit"
        PROVE  AllPrepared(Log(Coord, t)[i].doc.ts)'
    <2>0. PICK d : d = Log(Coord, t)'[i].doc
      OBVIOUS
    <2> SUFFICES AllPrepared(d.ts)
      <3>1. AllPrepared(d.ts) => AllPrepared(d.ts)'
        BY <1>2
      <3> QED BY <3>1, <2>0 DEF AllPrepared
    <2>1. CASE \E u \in Terms(Coord) : \E j \in 1..Len(Log(Coord, u)) :
                 /\ Log(Coord, t)'[i].doc = Log(Coord, u)[j].doc
                 /\ Log(Coord, t)'[i].part = Log(Coord, u)[j].part
      BY <1>3, <1>5, <2>0, <2>1
    <2>2. CASE \E e \in Entries :
                 t \in Terms(Coord) /\ Writes(Coord, t, e) /\ Log(Coord, t)'[i] = e
      <3>1. PICK e \in Entries :
                 t \in Terms(Coord) /\ Writes(Coord, t, e) /\ Log(Coord, t)'[i] = e
        BY <2>2
      <3>2. DocLegal(Coord, t, e)
        BY <3>1 DEF Writes
      <3> QED BY <1>3, <1>4, <1>5, <2>0, <3>1, <3>2, DocFacts DEF DocLegal
    <2> QED BY <1>0, <2>1, <2>2, EntryOrigin DEF GoodStep
  <1>6. ASSUME NEW j \in 1..Len(Log(Coord, t)'), i < j, Log(Coord, t)'[i].doc # NoDoc,
               Log(Coord, t)'[j].doc = NoDoc
        PROVE  \A s \in Shards : Resolved(s)
    <2>1. CASE t \in Terms(Coord) /\ Log(Coord, t)' = Log(Coord, t)
      BY <1>3, <1>6, <2>1
    <2>2. CASE /\ t \in Terms(Coord)
               /\ \E e \in Entries :
                  /\ Writes(Coord, t, e)
                  /\ Len(Log(Coord, t)') = Len(Log(Coord, t)) + 1
                  /\ \A l \in 1..Len(Log(Coord, t)) : Log(Coord, t)'[l] = Log(Coord, t)[l]
                  /\ Log(Coord, t)'[Len(Log(Coord, t)) + 1] = e
      <3>1. PICK e \in Entries :
                  /\ Writes(Coord, t, e)
                  /\ Len(Log(Coord, t)') = Len(Log(Coord, t)) + 1
                  /\ \A l \in 1..Len(Log(Coord, t)) : Log(Coord, t)'[l] = Log(Coord, t)[l]
                  /\ Log(Coord, t)'[Len(Log(Coord, t)) + 1] = e
        BY <2>2
      <3>2. i \in 1..Len(Log(Coord, t)) /\ Log(Coord, t)[i].doc # NoDoc
        BY <1>4, <1>6, <2>2, <3>1
      <3>3. CASE j \in 1..Len(Log(Coord, t))
        BY <1>3, <1>6, <2>2, <3>1, <3>2, <3>3
      <3>4. CASE j \notin 1..Len(Log(Coord, t))
        <4>1. e.doc = NoDoc
          BY <1>4, <1>6, <2>2, <3>1, <3>4
        <4>2. DocLegal(Coord, t, e)
          BY <3>1 DEF Writes
        <4>3. (\A s \in Shards : Resolved(s)) \/ Last(Coord, t).doc = NoDoc
          BY <4>1, <4>2, DocFacts DEF DocLegal
        <4>4. CASE Last(Coord, t).doc = NoDoc
          <5>1. i < Len(Log(Coord, t))
            BY <1>4, <2>2, <3>2, <4>4
          <5> QED BY <1>3, <1>4, <2>2, <3>2, <4>4, <5>1
        <4> QED BY <4>3, <4>4
      <3> QED BY <3>3, <3>4
    <2>3. CASE \E u \in Terms(Coord) : \E k \in 1..Len(Log(Coord, u)) :
                  /\ Len(Log(Coord, t)') = k + 1
                  /\ \A l \in 1..k : Log(Coord, t)'[l] = Log(Coord, u)[l]
                  /\ Log(Coord, t)'[k + 1].doc = Log(Coord, u)[k].doc
                  /\ Log(Coord, t)'[k + 1].part = Log(Coord, u)[k].part
      <3>0. PICK u \in Terms(Coord) : \E k \in 1..Len(Log(Coord, u)) :
                  /\ Len(Log(Coord, t)') = k + 1
                  /\ \A l \in 1..k : Log(Coord, t)'[l] = Log(Coord, u)[l]
                  /\ Log(Coord, t)'[k + 1].doc = Log(Coord, u)[k].doc
        BY <2>3
      <3>1. PICK k \in 1..Len(Log(Coord, u)) :
                  /\ Len(Log(Coord, t)') = k + 1
                  /\ \A l \in 1..k : Log(Coord, t)'[l] = Log(Coord, u)[l]
                  /\ Log(Coord, t)'[k + 1].doc = Log(Coord, u)[k].doc
        BY <3>0
      <3>2. k \in Nat /\ \A l \in 1..k : l \in 1..Len(Log(Coord, u))
        BY <1>4
      <3>3. i \in 1..k /\ Log(Coord, u)[i].doc # NoDoc
        BY <1>6, <3>1, <3>2
      <3>4. CASE j \in 1..k
        BY <1>3, <1>6, <3>1, <3>2, <3>3, <3>4
      <3>5. CASE j \notin 1..k
        <4>1. Log(Coord, u)[k].doc = NoDoc
          BY <1>6, <3>1, <3>2, <3>5
        <4>2. i < k
          BY <3>2, <3>3, <4>1
        <4> QED BY <1>3, <3>2, <3>3, <4>1, <4>2
      <3> QED BY <3>4, <3>5
    <2> QED BY <1>0, <2>1, <2>2, <2>3, LogShape DEF GoodStep
  <1> QED BY <1>1, <1>5, <1>6

-----------------------------------------------------------------------------
(* What a coordinator knows stays true. *)

(* The oplog and the commit point of a node only grow. *)
LEMMA NodeGrows ==
    ASSUME NodeTypes, TopTypes, NodeStep, NEW r \in Shards, NEW v \in Terms(r)
    PROVE  /\ v \in Terms(r)'
           /\ Ci(r, v) \in Nat /\ Ci(r, v)' \in Nat /\ Ci(r, v) <= Ci(r, v)'
           /\ Len(Log(r, v)) \in Nat /\ Len(Log(r, v)') \in Nat
           /\ Len(Log(r, v)) <= Len(Log(r, v)') /\ Ci(r, v) <= Len(Log(r, v))
           /\ \A i \in 1..Len(Log(r, v)) : Log(r, v)'[i] = Log(r, v)[i]
  <1>0. /\ v \in 1..MaxTerm[r] /\ Terms(r) \subseteq Nat
        /\ Log(r, v) \in Seq(Entries) /\ Len(Log(r, v)) \in Nat
        /\ Ci(r, v) \in Nat /\ Ci(r, v) <= Len(Log(r, v))
    BY TermFacts, NodeFacts
  <1>1. ASSUME Kept(r, v)
        PROVE  Ci(r, v)' = Ci(r, v) /\ Log(r, v)' = Log(r, v)
    BY <1>1, KeptFacts
  <1>2. CASE Keeps
    <2>1. v \in Terms(r)' /\ Kept(r, v)
      BY <1>0, <1>2 DEF Keeps, Terms
    <2> QED BY <1>0, <1>1, <2>1
  <1>3. ASSUME NEW s \in Shards, NEW t \in Terms(s), NEW e \in Entries, Writes(s, t, e)
        PROVE  /\ v \in Terms(r)' /\ Ci(r, v)' = Ci(r, v)
               /\ Len(Log(r, v)') \in Nat /\ Len(Log(r, v)) <= Len(Log(r, v)')
               /\ \A i \in 1..Len(Log(r, v)) : Log(r, v)'[i] = Log(r, v)[i]
    <2>0. v \in Terms(r)'
      BY <1>3 DEF Writes, Terms
    <2>1. CASE r = s /\ v = t
      <3>1. Log(r, v)' = Append(Log(r, v), e) /\ Ci(r, v)' = Ci(r, v)
        BY <1>3, <2>1 DEF Writes, Log, Ci
      <3>2. /\ Len(Append(Log(r, v), e)) = Len(Log(r, v)) + 1
            /\ \A i \in 1..Len(Log(r, v)) : Append(Log(r, v), e)[i] = Log(r, v)[i]
        BY <1>0, AppendProperties
      <3> QED BY <1>0, <2>0, <3>1, <3>2
    <2>2. CASE ~(r = s /\ v = t)
      <3>1. Kept(r, v)
        BY <1>0, <1>3, <2>2 DEF Writes
      <3> QED BY <1>0, <1>1, <2>0, <3>1
    <2> QED BY <2>1, <2>2
  <1>4. ASSUME NEW s \in Shards, Moves(s, top[s])
        PROVE  /\ v \in Terms(r)' /\ Ci(r, v)' \in Nat /\ Ci(r, v) <= Ci(r, v)'
               /\ Log(r, v)' = Log(r, v)
    <2>0. v \in Terms(r)'
      BY <1>4 DEF Moves, Terms
    <2>1. CASE r = s /\ v = top[s]
      BY <1>0, <1>4, <2>0, <2>1 DEF Moves, Log, Ci
    <2>2. CASE ~(r = s /\ v = top[s])
      <3>1. Kept(r, v)
        BY <1>0, <1>4, <2>2 DEF Moves
      <3> QED BY <1>0, <1>1, <2>0, <3>1
    <2> QED BY <2>1, <2>2
  <1>5. ASSUME NEW s \in Shards, NEW u \in Terms(s), NEW k \in Nat,
               Rises(s, top[s] + 1, u, k)
        PROVE  v \in Terms(r)' /\ Ci(r, v)' = Ci(r, v) /\ Log(r, v)' = Log(r, v)
    <2>0. PICK t : t = top[s] + 1
      OBVIOUS
    <2>1. CASE r = s
      <3>1. Terms(s)' = Terms(s) \cup {t} /\ \A w \in Terms(s) : Kept(s, w)
        BY <1>5, <2>0, RisesFacts
      <3> QED BY <1>1, <2>1, <3>1
    <2>2. CASE r # s
      <3>1. v \in Terms(r)' /\ Kept(r, v)
        BY <1>0, <1>5, <2>2 DEF Rises, Terms, TopTypes
      <3> QED BY <1>1, <3>1
    <2> QED BY <2>1, <2>2
  <1>6. CASE \E s \in Shards : \E t \in Terms(s) : \E e \in Entries : Writes(s, t, e)
    BY <1>0, <1>3, <1>6
  <1>7. CASE \E s \in Shards : Moves(s, top[s])
    BY <1>0, <1>4, <1>7
  <1>8. CASE \E s \in Shards : \E u \in Terms(s) : \E k \in Nat : Rises(s, top[s] + 1, u, k)
    BY <1>0, <1>5, <1>8
  <1> QED BY <1>2, <1>6, <1>7, <1>8 DEF NodeStep

LEMMA CoKnowsStable ==
    ASSUME GoodStep, NEW c \in Coordinators, NEW t \in Terms(Coord), CoKnows(c, t)
    PROVE  CoKnows(c, t)'
  <1>0. c.acks \subseteq Shards /\ Coord \in Shards
    BY ShardAssumption DEF Coordinators
  <1>1. /\ DurableDocs \subseteq DurableDocs'
        /\ ListIsDurable => ListIsDurable'
    BY DocsGrow
  <1>2. \A ts : /\ AllPrepared(ts) => AllPrepared(ts)'
                /\ \A r \in Shards : PreparedAt(r, ts) => PreparedAt(r, ts)'
    BY PreparedStable
  <1>3. (\A s \in Shards : c.votes[s].kind = "commit" => PreparedAt(s, c.votes[s].ts))'
    BY <1>2 DEF CoKnows
  <1>4. (c.decision.kind = "commit" => AllPrepared(c.decision.ts))'
    BY <1>2 DEF CoKnows
  <1>5. (\A s \in c.acks : Resolved(s))'
    BY <1>0, FrozenStable DEF CoKnows
  <1>6. (t >= 2 /\ c.step \notin {"recovering", "failed"} =>
            \E i \in 1..Ci(Coord, t) : Log(Coord, t)[i].term = t)'
    <2> SUFFICES ASSUME NEW i \in 1..Ci(Coord, t), Log(Coord, t)[i].term = t
                 PROVE  \E j \in 1..Ci(Coord, t)' : Log(Coord, t)'[j].term = t
      BY DEF CoKnows
    <2>1. /\ Ci(Coord, t) \in Nat /\ Ci(Coord, t)' \in Nat /\ Ci(Coord, t) <= Ci(Coord, t)'
          /\ Len(Log(Coord, t)) \in Nat /\ Ci(Coord, t) <= Len(Log(Coord, t))
          /\ \A j \in 1..Len(Log(Coord, t)) : Log(Coord, t)'[j] = Log(Coord, t)[j]
      BY <1>0, NodeGrows DEF GoodStep
    <2>2. i \in 1..Ci(Coord, t)' /\ Log(Coord, t)'[i].term = t
      BY <2>1
    <2> QED BY <2>2
  <1>7. (c.result \in {"commit", "abort"} => \E d \in DurableDocs : d.kind = c.result)'
    BY <1>1 DEF CoKnows
  <1>8. (c.step = "votes" => ListIsDurable)'
    BY <1>1 DEF CoKnows
  <1>9. (/\ c.step \in {"writingDecision", "waitingDecision", "acks", "deleting"} =>
              c.decision \in Decisions
         /\ c.step = "deleting" => c.acks = Shards)'
    BY DEF CoKnows
  <1> QED BY <1>3, <1>4, <1>5, <1>6, <1>7, <1>8, <1>9 DEF CoKnows

LEMMA CoWaitsStable ==
    ASSUME GoodStep, NEW c \in Coordinators, NEW t \in Terms(Coord), CoWaits(c, t)
    PROVE  CoWaits(c, t)'
  <1>1. /\ Len(Log(Coord, t)) \in Nat /\ Len(Log(Coord, t)') \in Nat
        /\ Len(Log(Coord, t)) <= Len(Log(Coord, t)')
        /\ \A i \in 1..Len(Log(Coord, t)) : Log(Coord, t)'[i] = Log(Coord, t)[i]
    BY ShardAssumption, NodeGrows DEF GoodStep
  <1>2. ASSUME NEW w \in 1..Len(Log(Coord, t))
        PROVE  w \in 1..Len(Log(Coord, t)') /\ Log(Coord, t)'[w] = Log(Coord, t)[w]
    BY <1>1
  <1> QED BY <1>2 DEF CoWaits

\* No new document is written by node (Coord, t).
DocsKept(t) ==
    \A i \in 1..Len(node'[Coord][t].log) : \E j \in 1..Len(node[Coord][t].log) :
        node'[Coord][t].log[i].doc = node[Coord][t].log[j].doc

LEMMA CoDocsStable ==
    ASSUME NEW c, NEW t, CoDocs(c, t),
           DocsKept(t) \/ c.step \notin {"inactive", "writingParticipants"}
    PROVE  CoDocs(c, t)'
  BY DEF CoDocs, DocsKept, Log

-----------------------------------------------------------------------------
(* How the steps are put together. *)

CoInv(c, t) == CoDocs(c, t) /\ CoWaits(c, t) /\ CoKnows(c, t) /\ CoSent(c)

(* The oplogs of a step that writes nothing. *)
LEMMA KeepsDocs ==
    ASSUME TopTypes, Keeps
    PROVE  \A u \in Terms(Coord) : DocsKept(u)
  BY ShardAssumption, TermFacts DEF Keeps, Kept, DocsKept

(* A step after which types, logs, coordinators, commands and answers are in order. *)
LEMMA StepInv ==
    ASSUME Inv, NodeStep, NodeTypes', TopTypes', OtherTypes', net \subseteq net',
           CoordinatorInv', NetInv', AnswerInv'
    PROVE  Inv'
  <1>1. LogInv'
    BY LogInvNext DEF Inv, TypeInv
  <1>2. GoodStep
    BY <1>1 DEF Inv, TypeInv, GoodStep
  <1>3. ParticipantInv' /\ DocumentInv'
    BY <1>2, ParticipantInvNext, DocumentInvNext DEF Inv
  <1> QED BY <1>1, <1>3 DEF Inv, TypeInv

LEMMA GoodSteps ==
    ASSUME Inv, NodeStep, NodeTypes', TopTypes'
    PROVE  GoodStep
  <1>1. LogInv'
    BY LogInvNext DEF Inv, TypeInv
  <1> QED BY <1>1 DEF Inv, TypeInv, GoodStep

(* A coordinator that the step leaves alone. *)
LEMMA CoUnchanged ==
    ASSUME Inv, GoodStep, net \subseteq net', NEW u \in Terms(Coord), co'[u] = co[u], DocsKept(u)
    PROVE  CoInv(co[u], u)'
  <1>1. co[u] \in Coordinators
    BY ShardAssumption, TermFacts DEF Inv, TypeInv, OtherTypes
  <1>2. PICK c \in Coordinators : c = co[u]
    BY <1>1
  <1>3. CoDocs(c, u) /\ CoWaits(c, u) /\ CoKnows(c, u) /\ CoSent(c)
    BY <1>2 DEF Inv, CoordinatorInv
  <1>4. CoDocs(c, u)' /\ CoWaits(c, u)' /\ CoKnows(c, u)'
    BY <1>3, CoDocsStable, CoWaitsStable, CoKnowsStable
  <1>5. CoSent(c)'
    BY <1>3 DEF CoSent
  <1>6. CoInv(c, u)'
    BY <1>4, <1>5 DEF CoInv
  <1>7. co'[u] = c
    BY <1>2
  <1> QED BY <1>6, <1>7 DEF CoInv, CoDocs, CoWaits, CoKnows, CoSent

(* A step of one coordinator. *)
LEMMA CoordinatorInvNext ==
    ASSUME Inv, GoodStep, net \subseteq net', top'[Coord] = top[Coord],
           NEW t \in Terms(Coord), NEW c \in Coordinators, co' = [co EXCEPT ![t] = c],
           CoDocs(c, t)', CoWaits(c, t)', CoKnows(c, t), CoSent(c)',
           \A u \in Terms(Coord) : u # t => DocsKept(u)
    PROVE  CoordinatorInv'
  <1>0. /\ Terms(Coord)' = Terms(Coord) /\ co \in [1..MaxTerm[Coord] -> Coordinators]
        /\ Terms(Coord) \subseteq 1..MaxTerm[Coord]
    BY ShardAssumption, TermFacts DEF Terms, Inv, TypeInv, OtherTypes
  <1>1. CoKnows(c, t)'
    BY CoKnowsStable
  <1>2. co'[t] = c /\ \A u \in Terms(Coord) : u # t => co'[u] = co[u]
    BY <1>0
  <1>3. CoInv(c, t)'
    BY <1>1 DEF CoInv
  <1>4. CoInv(co[t], t)'
    BY <1>2, <1>3 DEF CoInv, CoDocs, CoWaits, CoKnows, CoSent
  <1>5. \A u \in Terms(Coord) : u # t => CoInv(co[u], u)'
    BY <1>2, CoUnchanged
  <1> QED BY <1>0, <1>4, <1>5 DEF CoordinatorInv, CoInv

LEMMA NetInvStable ==
    ASSUME GoodStep, NetInv, net' = net
    PROVE  NetInv'
  BY DocsGrow DEF NetInv

LEMMA AnswerInvStable ==
    ASSUME GoodStep, AnswerInv, net \subseteq net', answers' = answers
    PROVE  AnswerInv'
  <1>1. DurableDocs \subseteq DurableDocs' /\ (Frozen(Coord) => Frozen(Coord)')
    BY ShardAssumption, DocsGrow, FrozenStable
  <1>2. CommitIsSent => CommitIsSent'
    BY DEF CommitIsSent
  <1> QED BY <1>1, <1>2 DEF AnswerInv

(* A step of one coordinator that writes no oplog entry and sends nothing. *)
LEMMA KeepStep ==
    ASSUME Inv, NodeTypes', Keeps, NEW t \in Terms(Coord), NEW c \in Coordinators,
           co' = [co EXCEPT ![t] = c], CoInv(c, t), net' = net, attempts' \in 0..MaxAttempts,
           answers' = answers
    PROVE  Inv'
  <1>1. NodeStep /\ top' = top /\ TopTypes' /\ \A u \in Terms(Coord) : DocsKept(u)
    BY KeepsDocs DEF NodeStep, Keeps, TopTypes, Inv, TypeInv
  <1>2. GoodStep
    BY <1>1, GoodSteps
  <1>3. CoDocs(c, t)' /\ CoWaits(c, t)'
    BY <1>1, <1>2, CoDocsStable, CoWaitsStable DEF CoInv
  <1>4. CoSent(c)' /\ CoKnows(c, t)
    BY DEF CoSent, CoInv
  <1>5. CoordinatorInv'
    BY <1>1, <1>2, <1>3, <1>4, CoordinatorInvNext
  <1>6. NetInv' /\ AnswerInv'
    BY <1>2, NetInvStable, AnswerInvStable DEF Inv
  <1>7. OtherTypes'
    BY DEF OtherTypes, Inv, TypeInv
  <1> QED BY <1>1, <1>5, <1>6, <1>7, StepInv

(* A step of one coordinator that changes only its own state. *)
LEMMA OwnStep ==
    ASSUME Inv, NEW t \in Terms(Coord), NEW c \in Coordinators, SetCo(t, c), CoInv(c, t),
           UNCHANGED <<top, node, net, answers, attempts>>
    PROVE  Inv'
  <1>1. Keeps /\ NodeTypes'
    BY DEF Keeps, Kept, NodeTypes, Inv, TypeInv
  <1>2. co' = [co EXCEPT ![t] = c] /\ net' = net /\ answers' = answers
    BY DEF SetCo
  <1>3. attempts' \in 0..MaxAttempts
    BY DEF Inv, TypeInv, OtherTypes
  <1> QED BY <1>1, <1>2, <1>3, KeepStep

-----------------------------------------------------------------------------
(* The steps of a coordinator. *)

(* A coordinator that knows nothing yet. *)
LEMMA CoordinatorFacts ==
    ASSUME NEW step \in Steps
    PROVE  /\ Coordinator(step) \in Coordinators
           /\ Coordinator(step).step = step
           /\ Coordinator(step).decision = NoDecision /\ NoDecision.kind = "none"
           /\ Coordinator(step).acks = {} /\ Coordinator(step).result = "none"
           /\ \A s \in Shards : Coordinator(step).votes[s].kind = "none"
  <1>1. [s \in Shards |-> NoVote] \in [Shards -> {NoVote} \cup [kind : {"commit"}, ts : Timestamps]]
    OBVIOUS
  <1>2. Coordinator(step) \in Coordinators
    BY <1>1 DEF Coordinator, Coordinators, Results
  <1> QED BY <1>2 DEF Coordinator, NoDecision, NoVote

(* What a coordinator of term t >= 2 that has recovered knows of its own oplog. *)
Recovered(t) == t >= 2 => \E i \in 1..Ci(Coord, t) : Log(Coord, t)[i].term = t

LEMMA RecoveredFacts ==
    ASSUME NEW c, NEW t, CoKnows(c, t), c.step \notin {"recovering", "failed"}
    PROVE  Recovered(t)
  BY DEF CoKnows, Recovered

(* A coordinator that ends. *)
LEMMA DoneFacts ==
    ASSUME NEW t, NEW c \in Coordinators, Recovered(t),
           c.result \in {"commit", "abort"} => \E d \in DurableDocs : d.kind = c.result,
           NEW code \in Results \ {"commit", "abort"}
    PROVE  done(c, code) \in Coordinators /\ CoInv(done(c, code), t)
  <1>1. /\ Coordinator("done") \in Coordinators /\ Coordinator("done").step = "done"
        /\ Coordinator("done").decision = NoDecision /\ NoDecision.kind = "none"
        /\ Coordinator("done").acks = {}
        /\ \A s \in Shards : Coordinator("done").votes[s].kind = "none"
    BY CoordinatorFacts DEF Steps
  <1> DEFINE d == done(c, code)
             r == IF c.result = "none" THEN code ELSE c.result
  <1>2. c.result \in Results
    BY DEF Coordinators
  <1>3. d = [Coordinator("done") EXCEPT !.result = r]
    BY DEF done
  <1>4. r \in Results /\ (r \in {"commit", "abort"} => c.result \in {"commit", "abort"} /\ r = c.result)
    BY <1>2
  <1> HIDE DEF d, r
  <1>5. /\ d \in Coordinators /\ d.step = "done" /\ d.decision.kind = "none" /\ d.acks = {}
        /\ \A s \in Shards : d.votes[s].kind = "none"
        /\ d.result = r
    BY <1>1, <1>3, <1>4 DEF Coordinators
  <1>6. CoInv(d, t)
    BY <1>4, <1>5 DEF CoInv, CoDocs, CoWaits, CoKnows, CoSent, Recovered
  <1> QED BY <1>5, <1>6 DEF d

(* A coordinator that decides. *)
LEMMA DecidedFacts ==
    ASSUME NEW t, NEW c \in Coordinators, CoKnows(c, t), c.step \notin {"recovering", "failed"},
           NEW d \in Decisions, d.kind = "commit" => AllPrepared(d.ts)
    PROVE  decided(c, d) \in Coordinators /\ CoInv(decided(c, d), t)
  <1>1. [s \in Shards |-> NoVote] \in [Shards -> {NoVote} \cup [kind : {"commit"}, ts : Timestamps]]
    OBVIOUS
  <1> DEFINE e == decided(c, d)
  <1>2. /\ e \in Coordinators /\ e.step = "writingDecision" /\ e.decision = d
        /\ e.votes = [s \in Shards |-> NoVote] /\ e.acks = c.acks /\ e.result = c.result
    BY <1>1 DEF decided, Coordinators, Steps
  <1>3. \A s \in Shards : e.votes[s].kind = "none"
    BY <1>2 DEF NoVote
  <1> HIDE DEF e
  <1>4. CoInv(e, t)
    BY <1>2, <1>3 DEF CoInv, CoDocs, CoWaits, CoKnows, CoSent
  <1> QED BY <1>2, <1>4 DEF e

(* What the invariant says of coordinator t. *)
LEMMA CoFacts ==
    ASSUME Inv, NEW t \in Terms(Coord)
    PROVE  /\ co[t] \in Coordinators /\ CoInv(co[t], t) /\ CoKnows(co[t], t)
           /\ co[t].step \notin {"recovering", "failed"} => Recovered(t)
           /\ co[t].result \in {"commit", "abort"} => \E d \in DurableDocs : d.kind = co[t].result
           /\ Coord \in Shards /\ t \in 1..MaxTerm[Coord]
  <1>1. co[t] \in Coordinators /\ t \in 1..MaxTerm[Coord] /\ Coord \in Shards
    BY ShardAssumption, TermFacts DEF Inv, TypeInv, OtherTypes
  <1>2. CoInv(co[t], t)
    BY DEF Inv, CoordinatorInv, CoInv
  <1> QED BY <1>1, <1>2, RecoveredFacts DEF CoInv, CoKnows

LEMMA StartSteps ==
    ASSUME Inv, NEW t \in Terms(Coord), runCommit(t) \/ cancelIfCommitNotYetStarted(t) \/ deadline(t)
    PROVE  Inv'
  <1>0. /\ co[t] \in Coordinators /\ CoInv(co[t], t) /\ CoKnows(co[t], t)
        /\ co[t].step \notin {"recovering", "failed"} => Recovered(t)
        /\ co[t].result \in {"commit", "abort"} => \E d \in DurableDocs : d.kind = co[t].result
    BY CoFacts
  <1>1. CASE runCommit(t)
    <2> DEFINE c == [co[t] EXCEPT !.step = "writingParticipants"]
    <2>1. SetCo(t, c) /\ co[t].step = "inactive" /\ UNCHANGED <<top, node, net, answers, attempts>>
      BY <1>1 DEF runCommit
    <2>2. /\ c \in Coordinators /\ c.step = "writingParticipants"
          /\ c.decision = co[t].decision /\ c.acks = co[t].acks /\ c.result = co[t].result
          /\ c.votes = co[t].votes
      BY <1>0 DEF Coordinators, Steps
    <2> HIDE DEF c
    <2>3. CoInv(c, t)
      BY <1>0, <2>1, <2>2 DEF CoInv, CoDocs, CoWaits, CoKnows, CoSent
    <2> QED BY <2>1, <2>2, <2>3, OwnStep
  <1>2. ASSUME co[t].step = "inactive", SetCo(t, done(co[t], "NoSuchTransaction")),
               UNCHANGED <<top, node, net, answers, attempts>>
        PROVE  Inv'
    <2>1. "NoSuchTransaction" \in Results \ {"commit", "abort"}
      BY DEF Results
    <2>2. done(co[t], "NoSuchTransaction") \in Coordinators /\ CoInv(done(co[t], "NoSuchTransaction"), t)
      BY <1>0, <1>2, <2>1, DoneFacts
    <2> QED BY <1>2, <2>2, OwnStep
  <1>3. CASE cancelIfCommitNotYetStarted(t)
    BY <1>2, <1>3 DEF cancelIfCommitNotYetStarted
  <1>4. CASE deadline(t)
    <2>1. CASE co[t].step = "inactive"
      BY <1>2, <1>4, <2>1 DEF deadline
    <2>2. CASE co[t].step # "inactive"
      <3> DEFINE c == [co[t] EXCEPT !.prep = "abort"]
      <3>1. SetCo(t, c) /\ UNCHANGED <<top, node, net, answers, attempts>>
        BY <1>4, <2>2 DEF deadline
      <3>2. /\ c \in Coordinators /\ c.step = co[t].step
            /\ c.decision = co[t].decision /\ c.acks = co[t].acks /\ c.result = co[t].result
            /\ c.votes = co[t].votes /\ c.waitFor = co[t].waitFor
        BY <1>0 DEF Coordinators
      <3> HIDE DEF c
      <3>3. CoInv(c, t)
        BY <1>0, <3>2 DEF CoInv, CoDocs, CoWaits, CoKnows, CoSent
      <3> QED BY <3>1, <3>2, <3>3, OwnStep
    <2> QED BY <2>1, <2>2
  <1> QED BY <1>1, <1>3, <1>4

(* What a node knows to be majority committed is so. *)
LEMMA DurableEntry ==
    ASSUME NodeTypes, TopTypes, LogInv, NEW s \in Shards, NEW t \in Terms(s),
           NEW i \in 1..Ci(s, t)
    PROVE  /\ i \in 1..DCi(s) /\ DLog(s)[i] = Log(s, t)[i]
           /\ i \in 1..Len(Log(s, t)) /\ Log(s, t)[i] \in Entries
           /\ s = Coord => Log(s, t)[i].doc \in DurableDocs
  <1>1. /\ top[s] \in Terms(s) /\ t <= top[s] /\ Terms(s) \subseteq 1..MaxTerm[s]
    BY TermFacts DEF Terms
  <1>2. /\ Ci(s, t) <= Ci(s, top[s]) /\ \A j \in 1..Ci(s, t) : Log(s, top[s])[j] = Log(s, t)[j]
    BY <1>1 DEF LogInv, PrefixInv
  <1>3. /\ Ci(s, t) \in Nat /\ Ci(s, top[s]) \in Nat /\ Len(Log(s, t)) \in Nat
        /\ Ci(s, t) \in 1..Len(Log(s, t))
        /\ \A j \in 1..Len(Log(s, t)) : Log(s, t)[j] \in Entries
    BY <1>1, NodeFacts
  <1>4. i \in 1..DCi(s) /\ DLog(s)[i] = Log(s, t)[i]
    BY <1>2, <1>3 DEF DCi, DLog, Ci, Log
  <1>5. i \in 1..Len(Log(s, t)) /\ Log(s, t)[i] \in Entries
    BY <1>3
  <1> QED BY <1>4, <1>5 DEF DurableDocs

(* A coordinator sends a command. *)
LEMMA SendStep ==
    ASSUME Inv, NEW t \in Terms(Coord), NEW c \in Coordinators, SetCo(t, c),
           CoDocs(c, t), CoWaits(c, t), CoKnows(c, t),
           NEW m \in {PrepareCommand} \cup Decisions, net' = net \cup {m},
           c.step \in {"acks", "deleting"} => c.decision = m,
           m \in Decisions => m \in DurableDocs, m = PrepareCommand => ListIsDurable,
           UNCHANGED <<top, node, answers, attempts>>
    PROVE  Inv'
  <1>1. Keeps /\ NodeTypes' /\ TopTypes' /\ NodeStep /\ top' = top
    BY DEF Keeps, Kept, NodeTypes, TopTypes, Inv, TypeInv, NodeStep
  <1>2. GoodStep /\ \A u \in Terms(Coord) : DocsKept(u)
    BY <1>1, GoodSteps, KeepsDocs DEF Inv, TypeInv
  <1>3. CoDocs(c, t)' /\ CoWaits(c, t)'
    BY <1>2, CoDocsStable, CoWaitsStable
  <1>4. CoSent(c)'
    BY DEF CoSent
  <1>5. co' = [co EXCEPT ![t] = c]
    BY DEF SetCo
  <1>6. CoordinatorInv'
    BY <1>1, <1>2, <1>3, <1>4, <1>5, CoordinatorInvNext
  <1>7. OtherTypes'
    BY <1>5 DEF OtherTypes, Inv, TypeInv
  <1>8. AnswerInv'
    BY <1>2, AnswerInvStable DEF Inv
  <1>9. NetInv'
    <2>1. DurableDocs \subseteq DurableDocs' /\ (ListIsDurable => ListIsDurable')
      BY <1>2, DocsGrow
    <2> QED BY <2>1 DEF NetInv, Inv
  <1> QED BY <1>1, <1>6, <1>7, <1>8, <1>9, StepInv

LEMMA ParticipantsDurableStep ==
    ASSUME Inv, NEW t \in Terms(Coord), participantsDurable(t)
    PROVE  Inv'
  <1>0. /\ co[t] \in Coordinators /\ CoInv(co[t], t) /\ CoKnows(co[t], t)
        /\ co[t].step \notin {"recovering", "failed"} => Recovered(t)
        /\ co[t].result \in {"commit", "abort"} => \E d \in DurableDocs : d.kind = co[t].result
        /\ Coord \in Shards
    BY CoFacts
  <1>1. co[t].step = "waitingParticipants" /\ co[t].waitFor <= Ci(Coord, t)
    BY DEF participantsDurable, Ci
  <1>2. CASE /\ SetCo(t, [co[t] EXCEPT !.step = "votes", !.waitFor = 0])
             /\ net' = net \cup {PrepareCommand}
    <2> DEFINE c == [co[t] EXCEPT !.step = "votes", !.waitFor = 0]
    <2>1. SetCo(t, c) /\ UNCHANGED <<top, node, answers, attempts>>
      BY <1>2 DEF participantsDurable
    <2>2. /\ c \in Coordinators /\ c.step = "votes"
          /\ c.decision = co[t].decision /\ c.acks = co[t].acks /\ c.result = co[t].result
          /\ c.votes = co[t].votes
      BY <1>0 DEF Coordinators, Steps
    <2> HIDE DEF c
    <2>3. ListIsDurable
      <3>1. co[t].waitFor \in 1..Len(Log(Coord, t)) /\ Log(Coord, t)[co[t].waitFor].doc # NoDoc
        BY <1>0, <1>1 DEF CoInv, CoWaits
      <3>2. Ci(Coord, t) \in Nat /\ Len(Log(Coord, t)) \in Nat
        BY <1>0, TermFacts, NodeFacts DEF Inv, TypeInv
      <3>3. co[t].waitFor \in 1..Ci(Coord, t)
        BY <1>1, <3>1, <3>2
      <3>4. Log(Coord, t)[co[t].waitFor].doc \in DurableDocs
        BY <1>0, <3>3, DurableEntry DEF Inv, TypeInv
      <3> QED BY <3>1, <3>4 DEF ListIsDurable
    <2>4. CoDocs(c, t) /\ CoWaits(c, t) /\ CoKnows(c, t)
      BY <1>0, <1>1, <2>2, <2>3 DEF CoDocs, CoWaits, CoKnows
    <2> QED BY <1>2, <2>1, <2>2, <2>3, <2>4, DocFacts, SendStep
  <1>3. CASE SetCo(t, decided(co[t], AbortDecision)) /\ UNCHANGED net
    <2>1. AbortDecision \in Decisions /\ AbortDecision.kind # "commit"
      BY DocFacts
    <2>2. /\ decided(co[t], AbortDecision) \in Coordinators
          /\ CoInv(decided(co[t], AbortDecision), t)
      BY <1>0, <1>1, <2>1, DecidedFacts
    <2>3. UNCHANGED <<top, node, net, answers, attempts>>
      BY <1>3 DEF participantsDurable
    <2> QED BY <1>3, <2>2, <2>3, OwnStep
  <1>4. CASE SetCo(t, done(co[t], "SteppingDown")) /\ UNCHANGED net
    <2>1. "SteppingDown" \in Results \ {"commit", "abort"}
      BY DEF Results
    <2>2. /\ done(co[t], "SteppingDown") \in Coordinators
          /\ CoInv(done(co[t], "SteppingDown"), t)
      BY <1>0, <1>1, <2>1, DoneFacts
    <2>3. UNCHANGED <<top, node, net, answers, attempts>>
      BY <1>4 DEF participantsDurable
    <2> QED BY <1>4, <2>2, <2>3, OwnStep
  <1> QED BY <1>2, <1>3, <1>4 DEF participantsDurable

LEMMA EndSteps ==
    ASSUME Inv, NEW t \in Terms(Coord),
           \/ waitForMajorityFails(t) \/ prepareInterrupted(t) \/ interrupted(t)
           \/ recoveryFails(t)
    PROVE  Inv'
  <1>0. /\ co[t] \in Coordinators /\ CoInv(co[t], t) /\ CoKnows(co[t], t)
        /\ co[t].step \notin {"recovering", "failed"} => Recovered(t)
        /\ co[t].result \in {"commit", "abort"} => \E d \in DurableDocs : d.kind = co[t].result
    BY CoFacts
  <1>1. ASSUME co[t].step \notin {"recovering", "failed"},
               NEW code \in {"SteppingDown", "PrimarySteppedDown"}, SetCo(t, done(co[t], code)),
               UNCHANGED <<top, node, net, answers, attempts>>
        PROVE  Inv'
    <2>1. code \in Results \ {"commit", "abort"}
      BY DEF Results
    <2>2. done(co[t], code) \in Coordinators /\ CoInv(done(co[t], code), t)
      BY <1>0, <1>1, <2>1, DoneFacts
    <2> QED BY <1>1, <2>2, OwnStep
  <1>2. CASE waitForMajorityFails(t)
    BY <1>1, <1>2 DEF waitForMajorityFails
  <1>3. CASE interrupted(t)
    BY <1>1, <1>3 DEF interrupted
  <1>4. CASE prepareInterrupted(t)
    <2>1. CASE co[t].prep = "abort"
      <3>1. AbortDecision \in Decisions /\ AbortDecision.kind # "commit"
        BY DocFacts
      <3>2. co[t].step \notin {"recovering", "failed"}
        BY <1>4 DEF prepareInterrupted
      <3>3. /\ decided(co[t], AbortDecision) \in Coordinators
            /\ CoInv(decided(co[t], AbortDecision), t)
        BY <1>0, <3>1, <3>2, DecidedFacts
      <3>4. SetCo(t, decided(co[t], AbortDecision)) /\ UNCHANGED <<top, node, net, answers, attempts>>
        BY <1>4, <2>1 DEF prepareInterrupted
      <3> QED BY <3>3, <3>4, OwnStep
    <2>2. CASE co[t].prep # "abort"
      BY <1>1, <1>4, <2>2 DEF prepareInterrupted
    <2> QED BY <2>1, <2>2
  <1>5. CASE recoveryFails(t)
    <2> DEFINE c == [co[t] EXCEPT !.step = "failed"]
    <2>1. SetCo(t, c) /\ UNCHANGED <<top, node, net, answers, attempts>>
      BY <1>5 DEF recoveryFails
    <2>2. /\ c \in Coordinators /\ c.step = "failed"
          /\ c.decision = co[t].decision /\ c.acks = co[t].acks /\ c.result = co[t].result
          /\ c.votes = co[t].votes
      BY <1>0 DEF Coordinators, Steps
    <2> HIDE DEF c
    <2>3. CoInv(c, t)
      BY <1>0, <2>2 DEF CoInv, CoDocs, CoWaits, CoKnows, CoSent
    <2> QED BY <2>1, <2>2, <2>3, OwnStep
  <1> QED BY <1>2, <1>3, <1>4, <1>5

LEMMA DecisionDurableStep ==
    ASSUME Inv, NEW t \in Terms(Coord), decisionDurable(t)
    PROVE  Inv'
  <1>0. /\ co[t] \in Coordinators /\ CoInv(co[t], t) /\ CoKnows(co[t], t)
        /\ co[t].step \notin {"recovering", "failed"} => Recovered(t)
        /\ Coord \in Shards
    BY CoFacts
  <1>1. co[t].step = "waitingDecision" /\ co[t].waitFor <= Ci(Coord, t)
    BY DEF decisionDurable, Ci
  <1>2. co[t].decision \in Decisions /\ co[t].decision \in DurableDocs
    <2>1. /\ co[t].waitFor \in 1..Len(Log(Coord, t))
          /\ Log(Coord, t)[co[t].waitFor].doc = co[t].decision
      BY <1>0, <1>1 DEF CoInv, CoWaits
    <2>2. Ci(Coord, t) \in Nat /\ Len(Log(Coord, t)) \in Nat
      BY <1>0, TermFacts, NodeFacts DEF Inv, TypeInv
    <2>3. co[t].waitFor \in 1..Ci(Coord, t)
      BY <1>1, <2>1, <2>2
    <2>4. Log(Coord, t)[co[t].waitFor].doc \in DurableDocs
      BY <1>0, <2>3, DurableEntry DEF Inv, TypeInv
    <2> QED BY <1>0, <1>1, <2>1, <2>4 DEF CoKnows
  <1>3. co[t].decision.kind \in {"commit", "abort"}
    BY <1>2, DocFacts
  <1> DEFINE c == [co[t] EXCEPT !.result = co[t].decision.kind, !.waitFor = 0]
             a == [c EXCEPT !.step = "acks"]
  <1>4. c \in Coordinators /\ c.result = co[t].decision.kind
    BY <1>0, <1>3 DEF Coordinators, Results
  <1>5. /\ a \in Coordinators /\ a.step = "acks" /\ a.decision = co[t].decision
        /\ a.votes = co[t].votes /\ a.acks = co[t].acks /\ a.result = co[t].decision.kind
    BY <1>0, <1>3 DEF Coordinators, Results, Steps
  <1>6. \/ SetCo(t, a) /\ net' = net \cup {co[t].decision}
        \/ SetCo(t, done(c, "SteppingDown")) /\ UNCHANGED net
    BY DEF decisionDurable
  <1> HIDE DEF a, c
  <1>7. \E d \in DurableDocs : d.kind = co[t].decision.kind
    BY <1>2
  <1>8. UNCHANGED <<top, node, answers, attempts>>
    BY DEF decisionDurable
  <1>9. CASE SetCo(t, a) /\ net' = net \cup {co[t].decision}
    <2>1. CoDocs(a, t) /\ CoWaits(a, t) /\ CoKnows(a, t)
      BY <1>0, <1>1, <1>2, <1>5, <1>7 DEF CoDocs, CoWaits, CoKnows
    <2> QED BY <1>2, <1>5, <1>8, <1>9, <2>1, DocFacts, SendStep
  <1>10. CASE SetCo(t, done(c, "SteppingDown")) /\ UNCHANGED net
    <2>1. "SteppingDown" \in Results \ {"commit", "abort"}
      BY DEF Results
    <2>2. /\ done(c, "SteppingDown") \in Coordinators
          /\ CoInv(done(c, "SteppingDown"), t)
      BY <1>0, <1>1, <1>4, <1>7, <2>1, DoneFacts
    <2> QED BY <1>8, <1>10, <2>2, OwnStep
  <1> QED BY <1>6, <1>9, <1>10

LEMMA RecoverStep ==
    ASSUME Inv, NEW t \in Terms(Coord), recoverCoordinators(t)
    PROVE  Inv'
  <1>0. /\ Coord \in Shards /\ t \in 1..MaxTerm[Coord] /\ t \in Nat
        /\ NodeTypes /\ TopTypes /\ LogInv
    BY CoFacts, TermFacts DEF Inv, TypeInv
  <1>1. /\ Len(Log(Coord, t)) \in Nat /\ Len(Log(Coord, t)) \in 1..Len(Log(Coord, t))
        /\ Last(Coord, t) = Log(Coord, t)[Len(Log(Coord, t))] /\ Last(Coord, t) \in Entries
        /\ Ci(Coord, t) = Len(Log(Coord, t))
    BY <1>0, NodeFacts DEF recoverCoordinators, Log, Ci
  <1>2. Recovered(t)
    <2>1. Last(Coord, t).term = t
      BY <1>0 DEF LogInv, TermInv
    <2> QED BY <1>1, <2>1 DEF Recovered
  <1> DEFINE doc == Last(Coord, t).doc
             c == continueCommit(doc)
  <1>3. SetCo(t, c) /\ UNCHANGED <<top, node, net, answers, attempts>>
    BY DEF recoverCoordinators
  <1>4. doc \in Docs
    BY <1>1 DEF Entries
  <1>5. ASSUME NEW step \in {"absent", "writingParticipants"},
               step = "writingParticipants" =>
                   \A i \in 1..Len(Log(Coord, t)) : Log(Coord, t)[i].doc \notin Decisions
        PROVE  Coordinator(step) \in Coordinators /\ CoInv(Coordinator(step), t)
    <2>1. step \in Steps
      BY DEF Steps
    <2> DEFINE k == Coordinator(step)
    <2>2. /\ k \in Coordinators /\ k.step = step /\ k.decision.kind = "none"
          /\ k.acks = {} /\ k.result = "none" /\ \A s \in Shards : k.votes[s].kind = "none"
      BY <2>1, CoordinatorFacts
    <2> HIDE DEF k
    <2>3. CoInv(k, t)
      BY <1>2, <1>5, <2>2 DEF CoInv, CoDocs, CoWaits, CoKnows, CoSent, Recovered
    <2> QED BY <2>2, <2>3 DEF k
  <1>6. CASE doc = NoDoc
    <2>1. c = Coordinator("absent")
      BY <1>6, DocFacts DEF continueCommit
    <2> HIDE DEF c
    <2>2. c \in Coordinators /\ CoInv(c, t)
      BY <1>5, <2>1
    <2> QED BY <1>3, <2>2, OwnStep
  <1>7. CASE doc = ListDoc
    <2>1. c = Coordinator("writingParticipants")
      BY <1>7, DocFacts DEF continueCommit
    <2> HIDE DEF c
    <2>2. \A i \in 1..Len(Log(Coord, t)) : Log(Coord, t)[i].doc \notin Decisions
      <3> SUFFICES ASSUME NEW i \in 1..Len(Log(Coord, t))
                   PROVE  Log(Coord, t)[i].doc \notin Decisions
        OBVIOUS
      <3>1. CASE i = Len(Log(Coord, t))
        BY <1>1, <1>7, <3>1, DocFacts
      <3>2. CASE i # Len(Log(Coord, t))
        <4>1. Follows(Log(Coord, t)[i], Last(Coord, t))
          BY <1>0, <1>1, <3>2 DEF LogInv, OrderInv
        <4> QED BY <4>1, <1>7 DEF Follows, DocFollows
      <3> QED BY <3>1, <3>2
    <2>3. c \in Coordinators /\ CoInv(c, t)
      BY <1>5, <2>1, <2>2
    <2> QED BY <1>3, <2>3, OwnStep
  <1>8. CASE doc \in Decisions
    <2>1. c = [Coordinator("writingDecision") EXCEPT !.decision = doc]
      BY <1>8, DocFacts DEF continueCommit
    <2>2. /\ Coordinator("writingDecision") \in Coordinators
          /\ Coordinator("writingDecision").step = "writingDecision"
          /\ Coordinator("writingDecision").acks = {}
          /\ Coordinator("writingDecision").result = "none"
          /\ \A s \in Shards : Coordinator("writingDecision").votes[s].kind = "none"
      BY CoordinatorFacts DEF Steps
    <2>3. doc.kind = "commit" => AllPrepared(doc.ts)
      BY <1>1 DEF Inv, DocumentInv
    <2> HIDE DEF c, doc
    <2>4. /\ c \in Coordinators /\ c.step = "writingDecision" /\ c.decision = doc
          /\ c.acks = {} /\ c.result = "none" /\ \A s \in Shards : c.votes[s].kind = "none"
      BY <1>8, <2>1, <2>2 DEF Coordinators
    <2>5. CoInv(c, t)
      BY <1>2, <1>8, <2>3, <2>4 DEF CoInv, CoDocs, CoWaits, CoKnows, CoSent, Recovered
    <2> QED BY <1>3, <2>4, <2>5, OwnStep
  <1> QED BY <1>4, <1>6, <1>7, <1>8, DocFacts

(* What follows an entry that node (s, u) knows to be majority committed. *)
LEMMA AfterMajority ==
    ASSUME NodeTypes, TopTypes, LogInv, NEW s \in Shards, NEW u \in Terms(s)
    PROVE  /\ Majority(s, u) \in Entries /\ Durable(s) \in Entries /\ Last(s, u) \in Entries
           /\ Durable(s) = Majority(s, u) \/ Follows(Majority(s, u), Durable(s))
           /\ Last(s, u) = Majority(s, u) \/ Follows(Majority(s, u), Last(s, u))
  <1>1. /\ top[s] \in Terms(s) /\ Terms(s) \subseteq 1..MaxTerm[s]
    BY TermFacts
  <1>2. \A v \in Terms(s) :
          /\ Len(Log(s, v)) \in Nat /\ Ci(s, v) \in Nat /\ Ci(s, v) \in 1..Len(Log(s, v))
          /\ Len(Log(s, v)) \in 1..Len(Log(s, v))
          /\ Majority(s, v) \in Entries /\ Majority(s, v) = Log(s, v)[Ci(s, v)]
          /\ Last(s, v) \in Entries /\ Last(s, v) = Log(s, v)[Len(Log(s, v))]
    BY <1>1, NodeFacts
  <1>3. \A v \in Terms(s) : \A i, j \in 1..Len(Log(s, v)) :
          i < j => Follows(Log(s, v)[i], Log(s, v)[j])
    BY DEF LogInv, OrderInv
  <1>4. Last(s, u) = Majority(s, u) \/ Follows(Majority(s, u), Last(s, u))
    BY <1>2, <1>3
  <1>5. Durable(s) = Majority(s, top[s]) /\ Durable(s) = Log(s, top[s])[Ci(s, top[s])]
    BY <1>1, <1>2 DEF Durable
  <1>6. Ci(s, u) \in 1..DCi(s) /\ DLog(s)[Ci(s, u)] = Majority(s, u)
    BY <1>2, DurableEntry
  <1>7. Ci(s, u) \in 1..Ci(s, top[s]) /\ Log(s, top[s])[Ci(s, u)] = Majority(s, u)
    BY <1>6 DEF DCi, DLog, Ci, Log
  <1>8. Durable(s) = Majority(s, u) \/ Follows(Majority(s, u), Durable(s))
    BY <1>1, <1>2, <1>3, <1>5, <1>7
  <1> QED BY <1>1, <1>2, <1>4, <1>5, <1>8

(* A vote to commit is backed by a majority committed prepare. *)
LEMMA VoteFacts ==
    ASSUME NodeTypes, TopTypes, LogInv, NEW s \in Shards, NEW u \in Terms(s), votesCommit(s, u)
    PROVE  PreparedAt(s, Last(s, u).part.ts) /\ Last(s, u).part.ts \in Timestamps
  <1>1. /\ Majority(s, u) \in Entries /\ Durable(s) \in Entries /\ Last(s, u) \in Entries
        /\ Durable(s) = Majority(s, u) \/ Follows(Majority(s, u), Durable(s))
        /\ Last(s, u) = Majority(s, u) \/ Follows(Majority(s, u), Last(s, u))
    BY AfterMajority
  <1>2. Last(s, u).part.kind = "prepared" /\ Majority(s, u).part.kind = "prepared"
    BY DEF votesCommit
  <1>3. Last(s, u).part = Majority(s, u).part
    BY <1>1, <1>2 DEF Follows, PartFollows
  <1>4. /\ Durable(s).part.kind # "none"
        /\ Durable(s).part.kind = "prepared" => Durable(s).part = Majority(s, u).part
    BY <1>1, <1>2 DEF Follows, PartFollows
  <1>5. Last(s, u).part.ts \in Timestamps
    BY <1>1, <1>2, RecordFacts DEF Entries
  <1> QED BY <1>3, <1>4, <1>5 DEF PreparedAt

(* The largest of the votes' timestamps is one at which all can commit. *)
LEMMA ConsensusFacts ==
    ASSUME NEW votes \in [Shards -> {NoVote} \cup [kind : {"commit"}, ts : Timestamps]],
           \A r \in Shards : votes[r].kind = "commit",
           \A r \in Shards : PreparedAt(r, votes[r].ts)
    PROVE  /\ consensus(votes) \in Decisions
           /\ consensus(votes).kind = "commit" /\ AllPrepared(consensus(votes).ts)
  <1> DEFINE S == {votes[s].ts : s \in Shards}
  <1>1. \A r \in Shards : votes[r].ts \in Timestamps
    <2> SUFFICES ASSUME NEW r \in Shards PROVE votes[r].ts \in Timestamps
      OBVIOUS
    <2>1. votes[r] # NoVote
      BY DEF NoVote
    <2> QED BY <2>1
  <1>2. S \subseteq Timestamps /\ S # {}
    BY <1>1, ShardAssumption
  <1>3. S \in SUBSET Nat /\ IsFiniteSet(S)
    BY <1>2, TimestampAssumption, FS_Subset
  <1>4. Max(S) \in S /\ \A y \in S : y <= Max(S)
    BY <1>2, <1>3, MaxExists
  <1>5. consensus(votes) = CommitDecision(Max(S)) /\ Max(S) \in Timestamps
    BY <1>2, <1>4 DEF consensus
  <1>6. \A r \in Shards : votes[r].ts <= Max(S)
    BY <1>4
  <1> HIDE DEF S
  <1>7. /\ consensus(votes) \in Decisions /\ consensus(votes).kind = "commit"
        /\ consensus(votes).ts = Max(S)
    BY <1>5, DocFacts
  <1>8. AllPrepared(Max(S))
    BY <1>6 DEF AllPrepared, PreparedAt
  <1> QED BY <1>7, <1>8

LEMMA VoteStep ==
    ASSUME Inv, NEW t \in Terms(Coord), NEW s \in Shards, registerVote(t, s)
    PROVE  Inv'
  <1>0. /\ co[t] \in Coordinators /\ CoInv(co[t], t) /\ CoKnows(co[t], t)
        /\ Coord \in Shards /\ NodeTypes /\ TopTypes /\ LogInv
    BY CoFacts DEF Inv, TypeInv
  <1>1. /\ co[t].step = "votes" /\ UNCHANGED <<top, node, net, answers, attempts>>
    BY DEF registerVote
  <1>2. CASE SetCo(t, decided(co[t], AbortDecision))
    <2>1. AbortDecision \in Decisions /\ AbortDecision.kind # "commit"
      BY DocFacts
    <2>2. /\ decided(co[t], AbortDecision) \in Coordinators
          /\ CoInv(decided(co[t], AbortDecision), t)
      BY <1>0, <1>1, <2>1, DecidedFacts
    <2> QED BY <1>1, <1>2, <2>2, OwnStep
  <1>3. ASSUME NEW u \in Targets(s, t), votesCommit(s, u),
               NEW votes, votes = [co[t].votes EXCEPT ![s] = [kind |-> "commit",
                                                            ts |-> Last(s, u).part.ts]],
               SetCo(t, IF \A r \in Shards : votes[r].kind = "commit"
                        THEN decided(co[t], consensus(votes))
                        ELSE [co[t] EXCEPT !.votes = votes])
        PROVE  Inv'
    <2>0. u \in Terms(s)
      BY DEF Targets, Terms
    <2>1. PreparedAt(s, Last(s, u).part.ts) /\ Last(s, u).part.ts \in Timestamps
      BY <1>0, <1>3, <2>0, VoteFacts
    <2>2. co[t].votes \in [Shards -> {NoVote} \cup [kind : {"commit"}, ts : Timestamps]]
      BY <1>0 DEF Coordinators
    <2>3. votes \in [Shards -> {NoVote} \cup [kind : {"commit"}, ts : Timestamps]]
      BY <1>3, <2>1, <2>2
    <2>4. \A r \in Shards : votes[r].kind = "commit" => PreparedAt(r, votes[r].ts)
      BY <1>0, <1>3, <2>1, <2>2 DEF CoKnows
    <2>5. CASE \A r \in Shards : votes[r].kind = "commit"
      <3>1. /\ consensus(votes) \in Decisions /\ AllPrepared(consensus(votes).ts)
        BY <2>3, <2>4, <2>5, ConsensusFacts
      <3>2. /\ decided(co[t], consensus(votes)) \in Coordinators
            /\ CoInv(decided(co[t], consensus(votes)), t)
        BY <1>0, <1>1, <3>1, DecidedFacts
      <3> QED BY <1>1, <1>3, <2>5, <3>2, OwnStep
    <2>6. CASE ~ \A r \in Shards : votes[r].kind = "commit"
      <3> DEFINE c == [co[t] EXCEPT !.votes = votes]
      <3>1. /\ c \in Coordinators /\ c.step = co[t].step /\ c.votes = votes
            /\ c.decision = co[t].decision /\ c.acks = co[t].acks /\ c.result = co[t].result
        BY <1>0, <2>3 DEF Coordinators
      <3>2. SetCo(t, c)
        BY <1>3, <2>6
      <3> HIDE DEF c
      <3>3. CoInv(c, t)
        BY <1>0, <1>1, <2>4, <3>1 DEF CoInv, CoDocs, CoWaits, CoKnows, CoSent
      <3> QED BY <1>1, <3>1, <3>2, <3>3, OwnStep
    <2> QED BY <2>5, <2>6
  <1>4. CASE \E u \in Targets(s, t) :
               /\ votesCommit(s, u)
               /\ LET votes == [co[t].votes EXCEPT ![s] = [kind |-> "commit",
                                                           ts |-> Last(s, u).part.ts]]
                      all == \A r \in Shards : votes[r].kind = "commit"
                  IN SetCo(t, IF all THEN decided(co[t], consensus(votes))
                              ELSE [co[t] EXCEPT !.votes = votes])
    <2>1. PICK u \in Targets(s, t) :
               /\ votesCommit(s, u)
               /\ LET votes == [co[t].votes EXCEPT ![s] = [kind |-> "commit",
                                                           ts |-> Last(s, u).part.ts]]
                      all == \A r \in Shards : votes[r].kind = "commit"
                  IN SetCo(t, IF all THEN decided(co[t], consensus(votes))
                              ELSE [co[t] EXCEPT !.votes = votes])
      BY <1>4
    <2>2. PICK votes : votes = [co[t].votes EXCEPT ![s] = [kind |-> "commit",
                                                           ts |-> Last(s, u).part.ts]]
      OBVIOUS
    <2>3. SetCo(t, IF \A r \in Shards : votes[r].kind = "commit"
                   THEN decided(co[t], consensus(votes))
                   ELSE [co[t] EXCEPT !.votes = votes])
      BY <2>1, <2>2
    <2> QED BY <1>3, <2>1, <2>2, <2>3
  <1> QED BY <1>2, <1>4 DEF registerVote

(* A step that changes a node's mode or drops its open transaction. *)
LEMMA MemoryStep ==
    ASSUME NodeTypes, NEW s \in Shards, NEW t \in 1..MaxTerm[s],
           NEW mode \in {"none", "primary", "attempting", "down"}, NEW open \in BOOLEAN,
           open => node[s][t].open,
           SetNode(s, t, [node[s][t] EXCEPT !.mode = mode, !.open = open]), top' = top
    PROVE  /\ Keeps /\ NodeTypes' /\ node'[s][t].open = open
           /\ node'[s][t].log = node[s][t].log
  <1> DEFINE n == [node[s][t] EXCEPT !.mode = mode, !.open = open]
  <1>1. node[s][t] \in Nodes /\ node[s][t].ci \in 1..Len(node[s][t].log)
    BY DEF NodeTypes
  <1>2. /\ n \in Nodes /\ n.log = node[s][t].log /\ n.ci = node[s][t].ci /\ n.open = open
    BY <1>1 DEF Nodes
  <1> HIDE DEF n
  <1>3. SetNode(s, t, n)
    BY DEF n
  <1>4. /\ NodeTypes' /\ node'[s][t] = n
        /\ \A r \in Shards : \A u \in 1..MaxTerm[r] :
             r # s \/ u # t => node'[r][u] = node[r][u]
    BY <1>1, <1>2, <1>3, SetNodeFacts
  <1>5. Kept(s, t)
    BY <1>2, <1>4 DEF Kept
  <1>6. \A r \in Shards : \A u \in 1..MaxTerm[r] : r # s \/ u # t => Kept(r, u)
    BY <1>4 DEF Kept
  <1>7. Keeps
    BY <1>5, <1>6 DEF Keeps
  <1> QED BY <1>2, <1>4, <1>7

(* A node that is dropped from or keeps its mode, as the code writes it. *)
LEMMA DropStep ==
    ASSUME NodeTypes, NEW s \in Shards, NEW t \in 1..MaxTerm[s],
           SetNode(s, t, [node[s][t] EXCEPT !.open = FALSE]), top' = top
    PROVE  /\ Keeps /\ NodeTypes' /\ ~node'[s][t].open
           /\ node'[s][t].log = node[s][t].log
  <1>1. node[s][t] \in Nodes
    BY DEF NodeTypes
  <1>2. PICK mode \in {"none", "primary", "attempting", "down"} : mode = node[s][t].mode
    BY <1>1 DEF Nodes
  <1>3. [node[s][t] EXCEPT !.open = FALSE] = [node[s][t] EXCEPT !.mode = mode, !.open = FALSE]
    BY <1>1, <1>2 DEF Nodes
  <1>4. SetNode(s, t, [node[s][t] EXCEPT !.mode = mode, !.open = FALSE])
    BY <1>3
  <1>5. /\ Keeps /\ NodeTypes' /\ node'[s][t].open = FALSE
        /\ node'[s][t].log = node[s][t].log
    BY <1>4, MemoryStep
  <1> QED BY <1>5

(* A shard that answers that it has carried the decision out, or does not know the transaction,
   needs the decision no more. *)
LEMMA AckFacts ==
    ASSUME NodeTypes, TopTypes, LogInv, NEW s \in Shards, NEW u \in Terms(s), NEW d,
           acknowledges(s, u, d) \/ NoSuchTransaction(s, u)
    PROVE  Resolved(s)
  <1>1. CASE acknowledges(s, u, d)
    <2>1. /\ Majority(s, u) \in Entries /\ Durable(s) \in Entries
          /\ Durable(s) = Majority(s, u) \/ Follows(Majority(s, u), Durable(s))
      BY AfterMajority
    <2>2. Majority(s, u).part.kind \in {"committed", "aborted"}
      BY <1>1 DEF acknowledges
    <2>3. Durable(s).part = Majority(s, u).part
      BY <2>1, <2>2 DEF Follows, PartFollows
    <2> QED BY <2>2, <2>3 DEF Resolved
  <1>2. CASE NoSuchTransaction(s, u)
    <2>1. /\ u = top[s] /\ ~node[s][u].open /\ Last(s, u).part.kind # "prepared"
          /\ node[s][u].ci = Len(node[s][u].log)
      BY <1>2 DEF NoSuchTransaction
    <2>2. u \in 1..MaxTerm[s] /\ u \in Nat /\ u >= 1
      BY TermFacts DEF Terms
    <2>3. /\ Last(s, u) \in Entries /\ Last(s, u) = Log(s, u)[Len(Log(s, u))]
          /\ Ci(s, u) = Len(Log(s, u)) /\ Len(Log(s, u)) \in 1..Len(Log(s, u))
      BY <2>1, <2>2, NodeFacts DEF Ci, Log
    <2>4. Durable(s) = Last(s, u) /\ DCi(s) = Ci(s, u) /\ DLog(s) = Log(s, u)
      BY <2>1, <2>3 DEF Durable, Majority, DCi, DLog, Ci, Log, Last
    <2>5. Last(s, u).part.kind \in {"none", "prepared", "committed", "aborted"}
      BY <2>3, RecordFacts DEF Entries
    <2>6. CASE Last(s, u).part.kind = "none"
      <3>1. CASE u = 1
        BY <2>1, <2>6, <3>1 DEF Resolved, Frozen, Dropped
      <3>2. CASE u # 1
        <4>1. Last(s, u).term = u /\ u >= 2
          BY <2>2, <3>2 DEF LogInv, TermInv
        <4> QED BY <2>3, <2>4, <2>6, <4>1 DEF Resolved, Frozen, Excluded
      <3> QED BY <3>1, <3>2
    <2>7. CASE Last(s, u).part.kind \in {"committed", "aborted"}
      BY <2>4, <2>7 DEF Resolved
    <2> QED BY <2>1, <2>5, <2>6, <2>7
  <1> QED BY <1>1, <1>2

LEMMA AckStep ==
    ASSUME Inv, NEW t \in Terms(Coord), NEW s \in Shards, registerAck(t, s)
    PROVE  Inv'
  <1>0. /\ co[t] \in Coordinators /\ CoInv(co[t], t) /\ CoKnows(co[t], t)
        /\ Coord \in Shards /\ NodeTypes /\ TopTypes /\ LogInv
    BY CoFacts DEF Inv, TypeInv
  <1> DEFINE acks == co[t].acks \cup {s}
             c == [co[t] EXCEPT !.acks = acks,
                                !.step = IF acks = Shards THEN "deleting" ELSE @]
  <1>1. /\ co[t].step = "acks" /\ SetCo(t, c)
        /\ UNCHANGED <<top, net, answers, attempts>>
    BY DEF registerAck
  <1>2. /\ c \in Coordinators /\ c.acks = acks /\ c.step \in {"acks", "deleting"}
        /\ c.step = "deleting" => c.acks = Shards
        /\ c.votes = co[t].votes /\ c.decision = co[t].decision /\ c.result = co[t].result
    BY <1>0, <1>1 DEF Coordinators, Steps
  <1> HIDE DEF c
  <1>3. CoDocs(c, t) /\ CoWaits(c, t) /\ CoSent(c)
    BY <1>0, <1>1, <1>2 DEF CoInv, CoDocs, CoWaits, CoSent
  <1>4. ASSUME Resolved(s), UNCHANGED node PROVE Inv'
    <2>1. CoInv(c, t)
      BY <1>0, <1>1, <1>2, <1>3, <1>4 DEF CoInv, CoKnows
    <2> QED BY <1>1, <1>2, <1>4, <2>1, OwnStep
  <1>5. ASSUME NEW u \in Terms(s), node[s][u].open,
               SetNode(s, u, [node[s][u] EXCEPT !.open = FALSE])
        PROVE  Inv'
    <2>0. u \in 1..MaxTerm[s] /\ top' = top
      BY <1>0, <1>1, TermFacts
    <2>1. /\ Keeps /\ NodeTypes' /\ ~node'[s][u].open
          /\ node'[s][u].log = node[s][u].log
      BY <1>0, <1>5, <2>0, DropStep
    <2>2. NodeStep /\ TopTypes' /\ \A v \in Terms(Coord) : DocsKept(v)
      BY <1>0, <2>0, <2>1, KeepsDocs DEF NodeStep, TopTypes
    <2>3. GoodStep
      BY <2>1, <2>2, GoodSteps
    <2>4. u = 1 /\ Last(s, u).part.kind = "none"
      BY <1>0, <1>5 DEF LogInv, TermInv
    <2>5. Resolved(s)'
      BY <2>1, <2>4 DEF Resolved, Frozen, Dropped, Last
    <2>6. CoKnows(co[t], t)'
      <3>1. PICK k \in Coordinators : k = co[t]
        BY <1>0
      <3>2. CoKnows(k, t)'
        BY <1>0, <2>3, <3>1, CoKnowsStable
      <3>3. PICK q : q = c
        OBVIOUS
      <3>4. /\ q.acks = k.acks \cup {s} /\ q.step \in {"acks", "deleting"} /\ k.step = "acks"
            /\ q.step = "deleting" => q.acks = Shards
            /\ q.votes = k.votes /\ q.decision = k.decision /\ q.result = k.result
        BY <1>1, <1>2, <3>1, <3>3
      <3>5. CoKnows(q, t)'
        BY <2>5, <3>2, <3>4 DEF CoKnows
      <3>6. co'[t] = q
        BY <1>0, <1>1, <3>3, CoFacts DEF SetCo, Inv, TypeInv, OtherTypes
      <3> QED BY <3>5, <3>6 DEF CoKnows
    <2>7. CoInv(co[t], t)'
      <3>1. PICK q \in Coordinators : q = c
        BY <1>2
      <3>2. CoDocs(q, t)' /\ CoWaits(q, t)'
        BY <1>3, <2>2, <2>3, <3>1, CoDocsStable, CoWaitsStable
      <3>3. CoSent(q)'
        BY <1>1, <1>3, <3>1 DEF CoSent
      <3>4. co'[t] = q
        BY <1>0, <1>1, <3>1, CoFacts DEF SetCo, Inv, TypeInv, OtherTypes
      <3> QED BY <2>6, <3>2, <3>3, <3>4 DEF CoInv, CoDocs, CoWaits, CoSent
    <2>8. CoordinatorInv'
      <3>1. Terms(Coord)' = Terms(Coord)
        BY <2>0 DEF Terms
      <3>2. \A v \in Terms(Coord) : v # t => co'[v] = co[v]
        BY <1>1, CoFacts DEF SetCo, Inv, TypeInv, OtherTypes
      <3>3. \A v \in Terms(Coord) : v # t => CoInv(co[v], v)'
        BY <1>1, <2>2, <2>3, <3>2, CoUnchanged
      <3> QED BY <2>7, <3>1, <3>3 DEF CoordinatorInv, CoInv
    <2>9. OtherTypes'
      BY <1>1, <1>2 DEF OtherTypes, Inv, TypeInv, SetCo
    <2>10. NetInv' /\ AnswerInv'
      BY <1>1, <2>3, NetInvStable, AnswerInvStable DEF Inv
    <2> QED BY <1>1, <2>1, <2>2, <2>8, <2>9, <2>10, StepInv
  <1>6. PICK u \in Targets(s, t) :
         \/ acknowledges(s, u, co[t].decision) /\ UNCHANGED node
         \/ NoSuchTransaction(s, u) /\ UNCHANGED node
         \/ /\ node[s][u].open
            /\ SetNode(s, u, [node[s][u] EXCEPT !.open = FALSE])
    BY DEF registerAck
  <1>7. u \in Terms(s)
    BY DEF Targets, Terms
  <1> QED BY <1>0, <1>4, <1>5, <1>6, <1>7, AckFacts

-----------------------------------------------------------------------------
(* Steps that change what is in memory. *)

(* Such a step, when no coordinator is touched. *)
LEMMA KeepCo ==
    ASSUME Inv, NodeTypes', Keeps, co' = co, net' = net, attempts' \in 0..MaxAttempts,
           answers' \subseteq {"commit", "abort"}, AnswerInv'
    PROVE  Inv'
  <1>1. NodeStep /\ top' = top /\ TopTypes' /\ \A u \in Terms(Coord) : DocsKept(u)
    BY KeepsDocs DEF NodeStep, Keeps, TopTypes, Inv, TypeInv
  <1>2. GoodStep
    BY <1>1, GoodSteps
  <1>3. Terms(Coord)' = Terms(Coord)
    BY <1>1 DEF Terms
  <1>4. \A u \in Terms(Coord) : CoInv(co[u], u)'
    BY <1>1, <1>2, CoUnchanged
  <1>5. CoordinatorInv'
    BY <1>3, <1>4 DEF CoordinatorInv, CoInv
  <1>6. NetInv'
    BY <1>2, NetInvStable DEF Inv
  <1>7. OtherTypes'
    BY DEF OtherTypes, Inv, TypeInv
  <1> QED BY <1>1, <1>5, <1>6, <1>7, StepInv

(* Such a step keeps what was answered true. *)
LEMMA KeepsGood ==
    ASSUME Inv, NodeTypes', Keeps
    PROVE  GoodStep
  <1>1. NodeStep /\ TopTypes'
    BY DEF NodeStep, Keeps, TopTypes, Inv, TypeInv
  <1> QED BY <1>1, GoodSteps

LEMMA AttemptSteps ==
    ASSUME Inv, NEW t \in Terms(Coord), startStepDownAttempt(t) \/ stepDownAttemptFails(t)
    PROVE  Inv'
  <1>0. Coord \in Shards /\ t \in 1..MaxTerm[Coord] /\ NodeTypes /\ attempts \in 0..MaxAttempts
    BY CoFacts DEF Inv, TypeInv, OtherTypes
  <1>1. ASSUME Keeps, NodeTypes', co' = co, net' = net, answers' = answers,
               attempts' \in 0..MaxAttempts
        PROVE  Inv'
    <2>1. AnswerInv'
      BY <1>1, KeepsGood, AnswerInvStable DEF Inv
    <2>2. answers' \subseteq {"commit", "abort"}
      BY <1>1 DEF Inv, TypeInv, OtherTypes
    <2> QED BY <1>1, <2>1, <2>2, KeepCo
  <1>2. CASE startStepDownAttempt(t)
    <2>1. Keeps /\ NodeTypes'
      <3>1. /\ SetNode(Coord, t, [node[Coord][t] EXCEPT !.mode = "attempting", !.open = FALSE])
            /\ top' = top
        BY <1>2 DEF startStepDownAttempt
      <3> QED BY <1>0, <3>1, MemoryStep
    <2>2. attempts' \in 0..MaxAttempts
      BY <1>0, <1>2, AttemptAssumption DEF startStepDownAttempt
    <2> QED BY <1>1, <1>2, <2>1, <2>2 DEF startStepDownAttempt
  <1>3. CASE stepDownAttemptFails(t)
    <2>1. node[Coord][t] \in Nodes
      BY <1>0 DEF NodeTypes
    <2>2. PICK open \in BOOLEAN : open = node[Coord][t].open
      BY <2>1 DEF Nodes
    <2>3. [node[Coord][t] EXCEPT !.mode = "primary"]
            = [node[Coord][t] EXCEPT !.mode = "primary", !.open = open]
      BY <2>1, <2>2 DEF Nodes
    <2>4. /\ SetNode(Coord, t, [node[Coord][t] EXCEPT !.mode = "primary", !.open = open])
          /\ top' = top
      BY <1>3, <2>3 DEF stepDownAttemptFails
    <2>5. Keeps /\ NodeTypes'
      BY <1>0, <2>2, <2>4, MemoryStep
    <2> QED BY <1>0, <1>1, <1>3, <2>5 DEF stepDownAttemptFails
  <1> QED BY <1>2, <1>3

LEMMA AbortUnpreparedStep ==
    ASSUME Inv, NEW s \in Shards, NEW t \in Terms(s), abortUnprepared(s, t)
    PROVE  Inv'
  <1>0. t \in 1..MaxTerm[s] /\ NodeTypes /\ attempts \in 0..MaxAttempts
        /\ answers \subseteq {"commit", "abort"}
    BY TermFacts DEF Inv, TypeInv, OtherTypes
  <1>1. Keeps /\ NodeTypes'
    <2>1. SetNode(s, t, [node[s][t] EXCEPT !.open = FALSE]) /\ top' = top
      BY DEF abortUnprepared
    <2> QED BY <1>0, <2>1, DropStep
  <1>2. co' = co /\ net' = net /\ answers' = answers /\ attempts' = attempts
    BY DEF abortUnprepared
  <1>3. AnswerInv'
    BY <1>1, <1>2, KeepsGood, AnswerInvStable DEF Inv
  <1> QED BY <1>0, <1>1, <1>2, <1>3, KeepCo

(* The answer recovered from the participant. *)
LEMMA AnswerStep ==
    ASSUME Inv, NEW t \in Terms(Coord), recoverFromParticipant(t)
    PROVE  Inv'
  <1>0. /\ Coord \in Shards /\ t \in 1..MaxTerm[Coord] /\ NodeTypes /\ TopTypes /\ LogInv
        /\ attempts \in 0..MaxAttempts /\ answers \subseteq {"commit", "abort"}
        /\ t \in Nat /\ t >= 1
    BY CoFacts, TermFacts DEF Inv, TypeInv, OtherTypes, Terms
  <1>1. /\ Keeps /\ NodeTypes' /\ ~node'[Coord][t].open
        /\ node'[Coord][t].log = node[Coord][t].log
    <2>1. SetNode(Coord, t, [node[Coord][t] EXCEPT !.open = FALSE]) /\ top' = top
      BY DEF recoverFromParticipant
    <2> QED BY <1>0, <2>1, DropStep
  <1>2. co' = co /\ net' = net /\ attempts' = attempts
    BY DEF recoverFromParticipant
  <1>3. GoodStep
    BY <1>1, KeepsGood
  <1>4. DurableDocs \subseteq DurableDocs' /\ (Frozen(Coord) => Frozen(Coord)')
    BY <1>0, <1>3, DocsGrow, FrozenStable
  <1>5. /\ Len(Log(Coord, t)) \in Nat /\ Len(Log(Coord, t)) \in 1..Len(Log(Coord, t))
        /\ Last(Coord, t) \in Entries /\ Last(Coord, t) = Log(Coord, t)[Len(Log(Coord, t))]
    BY <1>0, NodeFacts
  <1>6. /\ Last(Coord, t).part.kind = "committed" => CommitIsSent
        /\ Last(Coord, t).part.kind = "aborted" => AbortDecision \in net
    BY <1>0, <1>5 DEF Inv, ParticipantInv
  <1>7. CommitIsSent => CommitIsSent'
    BY <1>2 DEF CommitIsSent
  <1>8. AbortDecision \in net => AbortDecision \in DurableDocs'
    BY <1>4, DocFacts DEF Inv, NetInv
  <1>9. Last(Coord, t).part.kind = "none" => Frozen(Coord)'
    <2> SUFFICES ASSUME Last(Coord, t).part.kind = "none" PROVE Frozen(Coord)'
      OBVIOUS
    <2>1. CASE t = 1
      BY <1>1, <2>1 DEF Frozen, Dropped, Last
    <2>2. CASE t # 1
      <3>1. co[t].step \in {"absent", "done"}
        BY DEF recoverFromParticipant
      <3>2. Recovered(t)
        BY <3>1, CoFacts
      <3>3. PICK i \in 1..Ci(Coord, t) : Log(Coord, t)[i].term = t
        BY <1>0, <2>2, <3>2 DEF Recovered
      <3>4. /\ i \in 1..DCi(Coord) /\ DLog(Coord)[i] = Log(Coord, t)[i]
            /\ i \in 1..Len(Log(Coord, t)) /\ Log(Coord, t)[i] \in Entries
        BY <1>0, DurableEntry
      <3>5. Log(Coord, t)[i].part.kind = "none"
        <4>1. CASE i = Len(Log(Coord, t))
          BY <1>5, <4>1
        <4>2. CASE i # Len(Log(Coord, t))
          <5>1. Follows(Log(Coord, t)[i], Last(Coord, t))
            BY <1>0, <1>5, <3>4, <4>2 DEF LogInv, OrderInv
          <5> QED BY <5>1 DEF Follows, PartFollows
        <4> QED BY <4>1, <4>2
      <3>6. DLog(Coord)[i].term >= 2
        BY <1>0, <2>2, <3>3, <3>4
      <3>7. Excluded(Coord)
        BY <3>4, <3>5, <3>6 DEF Excluded
      <3> QED BY <1>4, <3>7 DEF Frozen
    <2> QED BY <2>1, <2>2
  <1>10. AnswerInv'
    <2>1. Last(Coord, t).part.kind \in {"none", "prepared", "committed", "aborted"}
      BY <1>5, RecordFacts DEF Entries
    <2>2. Last(Coord, t).part.kind # "prepared"
      BY DEF recoverFromParticipant
    <2>3. /\ "commit" \in answers => CommitIsSent
          /\ "abort" \in answers => AbortDecision \in DurableDocs \/ Frozen(Coord)
      BY DEF Inv, AnswerInv
    <2>4. CASE Last(Coord, t).part.kind = "committed"
      <3>1. answers' = answers \cup {"commit"}
        BY <2>4 DEF recoverFromParticipant
      <3> QED BY <1>4, <1>6, <1>7, <2>3, <2>4, <3>1 DEF AnswerInv
    <2>5. CASE Last(Coord, t).part.kind \in {"none", "aborted"}
      <3>1. answers' = answers \cup {"abort"}
        BY <2>5 DEF recoverFromParticipant
      <3>2. AbortDecision \in DurableDocs' \/ Frozen(Coord)'
        BY <1>6, <1>8, <1>9, <2>5
      <3> QED BY <1>7, <2>3, <3>1, <3>2 DEF AnswerInv
    <2> QED BY <2>1, <2>2, <2>4, <2>5
  <1>11. answers' \subseteq {"commit", "abort"}
    BY <1>0 DEF recoverFromParticipant
  <1> QED BY <1>0, <1>1, <1>2, <1>10, <1>11, KeepCo

LEMMA StepDownStep ==
    ASSUME Inv, NEW s \in Shards, NEW t \in Terms(s), stepDown(s, t)
    PROVE  Inv'
  <1>0. t \in 1..MaxTerm[s] /\ NodeTypes /\ attempts \in 0..MaxAttempts
        /\ answers \subseteq {"commit", "abort"}
    BY TermFacts DEF Inv, TypeInv, OtherTypes
  <1>1. Keeps /\ NodeTypes'
    <2>1. SetNode(s, t, [node[s][t] EXCEPT !.mode = "down", !.open = FALSE]) /\ top' = top
      BY DEF stepDown
    <2> QED BY <1>0, <2>1, MemoryStep
  <1>2. net' = net /\ answers' = answers /\ attempts' = attempts
    BY DEF stepDown
  <1>3. CASE s # Coord
    <2>1. co' = co
      BY <1>3 DEF stepDown
    <2>2. AnswerInv'
      BY <1>1, <1>2, KeepsGood, AnswerInvStable DEF Inv
    <2> QED BY <1>0, <1>1, <1>2, <2>1, <2>2, KeepCo
  <1>4. CASE s = Coord
    <2>0. /\ co[t] \in Coordinators /\ CoInv(co[t], t) /\ CoKnows(co[t], t)
          /\ co[t].step \notin {"recovering", "failed"} => Recovered(t)
          /\ co[t].result \in {"commit", "abort"} => \E d \in DurableDocs : d.kind = co[t].result
      BY <1>4, CoFacts
    <2> DEFINE c == [co[t] EXCEPT !.sched = "stepdown",
                                  !.prep = IF @ = "ok" THEN "stepdown" ELSE @]
               k == CASE c.step \in {"absent", "failed", "done"} -> co[t]
                      [] c.step = "inactive" -> done(c, "SteppingDown")
                      [] OTHER -> c
    <2>1. co' = [co EXCEPT ![t] = k]
      BY <1>4 DEF stepDown, SetCo
    <2>2. /\ c \in Coordinators /\ c.step = co[t].step /\ c.result = co[t].result
          /\ c.decision = co[t].decision /\ c.acks = co[t].acks
          /\ c.votes = co[t].votes /\ c.waitFor = co[t].waitFor
      BY <2>0 DEF Coordinators
    <2> HIDE DEF c
    <2>3. CoInv(c, t)
      BY <2>0, <2>2 DEF CoInv, CoDocs, CoWaits, CoKnows, CoSent
    <2>4. k \in Coordinators /\ CoInv(k, t)
      <3>1. CASE c.step \in {"absent", "failed", "done"}
        <4>1. k = co[t]
          BY <3>1
        <4> QED BY <2>0, <4>1
      <3>2. CASE c.step = "inactive"
        <4>1. k = done(c, "SteppingDown")
          BY <3>2
        <4>2. "SteppingDown" \in Results \ {"commit", "abort"}
          BY DEF Results
        <4> QED BY <2>0, <2>2, <3>2, <4>1, <4>2, DoneFacts
      <3>3. CASE c.step \notin {"absent", "failed", "done", "inactive"}
        <4>1. k = c
          BY <3>3
        <4> QED BY <2>2, <2>3, <4>1
      <3> QED BY <3>1, <3>2, <3>3
    <2> HIDE DEF k
    <2>5. t \in Terms(Coord) /\ attempts' \in 0..MaxAttempts
      BY <1>0, <1>2, <1>4
    <2> QED BY <1>1, <1>2, <2>1, <2>4, <2>5, KeepStep
  <1> QED BY <1>3, <1>4

-----------------------------------------------------------------------------
(* Replication and failover. *)

(* A step of the nodes that no coordinator takes part in. *)
LEMMA NodeOnly ==
    ASSUME Inv, NodeStep, NodeTypes', TopTypes', top'[Coord] = top[Coord],
           co' = co, net' = net, answers' = answers, attempts' = attempts,
           \A u \in Terms(Coord) : DocsKept(u)
    PROVE  Inv'
  <1>1. GoodStep
    BY GoodSteps
  <1>2. Terms(Coord)' = Terms(Coord)
    BY DEF Terms
  <1>3. \A u \in Terms(Coord) : CoInv(co[u], u)'
    BY <1>1, CoUnchanged
  <1>4. CoordinatorInv'
    BY <1>2, <1>3 DEF CoordinatorInv, CoInv
  <1>5. NetInv' /\ AnswerInv'
    BY <1>1, NetInvStable, AnswerInvStable DEF Inv
  <1>6. OtherTypes'
    BY DEF OtherTypes, Inv, TypeInv
  <1> QED BY <1>4, <1>5, <1>6, StepInv

LEMMA ReplicateStep ==
    ASSUME Inv, NEW s \in Shards, Replicate(s)
    PROVE  Inv' /\ NodeStep
  <1> DEFINE t == top[s]
  <1>0. t \in 1..MaxTerm[s] /\ NodeTypes /\ TopTypes /\ Terms(Coord) \subseteq 1..MaxTerm[Coord]
    BY ShardAssumption, TermFacts DEF Inv, TypeInv
  <1>1. node[s][t] \in Nodes /\ node[s][t].ci \in 1..Len(node[s][t].log)
        /\ Len(node[s][t].log) \in Nat /\ node[s][t].ci \in Nat
    BY <1>0, NodeFacts DEF Log, Ci
  <1>2. PICK i \in (node[s][t].ci + 1)..Len(node[s][t].log) :
          SetNode(s, t, [node[s][t] EXCEPT !.ci = i])
    BY DEF Replicate
  <1> DEFINE n == [node[s][t] EXCEPT !.ci = i]
  <1>3. /\ n \in Nodes /\ n.log = node[s][t].log /\ n.ci = i /\ n.open = node[s][t].open
        /\ i \in 1..Len(node[s][t].log)
    BY <1>1, <1>2 DEF Nodes
  <1>4. SetNode(s, t, n)
    BY <1>2
  <1> HIDE DEF n
  <1>5. /\ NodeTypes' /\ node'[s][t] = n
        /\ \A r \in Shards : \A u \in 1..MaxTerm[r] :
             r # s \/ u # t => node'[r][u] = node[r][u]
    BY <1>0, <1>3, <1>4, SetNodeFacts
  <1>6. UNCHANGED <<top, co, net, answers, attempts>>
    BY DEF Replicate
  <1>7. \A r \in Shards : \A u \in 1..MaxTerm[r] : r # s \/ u # t => Kept(r, u)
    BY <1>5 DEF Kept
  <1>8. Moves(s, t)
    BY <1>2, <1>3, <1>5, <1>6, <1>7 DEF Moves
  <1>9. NodeStep /\ TopTypes'
    BY <1>0, <1>6, <1>8 DEF NodeStep, TopTypes
  <1>10. \A u \in Terms(Coord) : node'[Coord][u].log = node[Coord][u].log
    BY <1>0, <1>3, <1>5, ShardAssumption
  <1>11. \A u \in Terms(Coord) : DocsKept(u)
    BY <1>10 DEF DocsKept
  <1> QED BY <1>5, <1>6, <1>9, <1>11, NodeOnly

(* A new primary rises. *)
LEMMA StepUpRises ==
    ASSUME Inv, NEW s \in Shards, stepUp(s)
    PROVE  /\ NodeTypes' /\ TopTypes'
           /\ \E u \in Terms(s) : \E k \in Nat : Rises(s, top[s] + 1, u, k)
  <1>0. /\ top[s] \in 1..MaxTerm[s] /\ top[s] \in Nat /\ MaxTerm[s] \in Nat
        /\ Terms(s) \subseteq 1..MaxTerm[s] /\ top[s] \in Terms(s)
        /\ NodeTypes /\ TopTypes
    BY TermFacts DEF Inv, TypeInv
  <1>1. PICK t : t = top[s] + 1
    OBVIOUS
  <1>2. t \in 1..MaxTerm[s] /\ t \in Nat
    BY <1>0, <1>1 DEF stepUp, mayFailOver
  <1>3. PICK u \in 1..top[s] : \E k \in DCi(s)..Len(Log(s, u)) :
          /\ SubSeq(Log(s, u), 1, DCi(s)) = SubSeq(DLog(s), 1, DCi(s))
          /\ SetNode(s, t, [mode |-> "primary", open |-> FALSE, ci |-> DCi(s),
                            log |-> Append(SubSeq(Log(s, u), 1, k),
                                           Entry(t, Log(s, u)[k].doc, Log(s, u)[k].part))])
    BY <1>1 DEF stepUp, DCi, DLog, Log
  <1>4. PICK k \in DCi(s)..Len(Log(s, u)) :
          /\ SubSeq(Log(s, u), 1, DCi(s)) = SubSeq(DLog(s), 1, DCi(s))
          /\ SetNode(s, t, [mode |-> "primary", open |-> FALSE, ci |-> DCi(s),
                            log |-> Append(SubSeq(Log(s, u), 1, k),
                                           Entry(t, Log(s, u)[k].doc, Log(s, u)[k].part))])
    BY <1>3
  <1>5. u \in Terms(s)
    BY DEF Terms
  <1>6. /\ Log(s, u) \in Seq(Entries) /\ Len(Log(s, u)) \in Nat
        /\ \A i \in 1..Len(Log(s, u)) : Log(s, u)[i] \in Entries
    BY <1>0, <1>5, NodeFacts
  <1>7. /\ DLog(s) \in Seq(Entries) /\ Len(DLog(s)) \in Nat
        /\ DCi(s) \in 1..Len(DLog(s)) /\ DCi(s) \in Nat
    BY <1>0, NodeFacts DEF DLog, DCi, Log, Ci
  <1>8. k \in Nat /\ k \in 1..Len(Log(s, u)) /\ k \in 0..Len(Log(s, u)) /\ DCi(s) <= k
        /\ DCi(s) \in 0..Len(Log(s, u)) /\ DCi(s) \in 0..Len(DLog(s))
    BY <1>4, <1>6, <1>7
  <1>9. \A i \in 1..DCi(s) : Log(s, u)[i] = DLog(s)[i]
    <2>1. /\ \A i \in 1..DCi(s) : SubSeq(Log(s, u), 1, DCi(s))[i] = Log(s, u)[i]
          /\ \A i \in 1..DCi(s) : SubSeq(DLog(s), 1, DCi(s))[i] = DLog(s)[i]
      BY <1>6, <1>7, <1>8, PrefixOf
    <2> QED BY <1>4, <2>1
  <1> DEFINE p == SubSeq(Log(s, u), 1, k)
             e == Entry(t, Log(s, u)[k].doc, Log(s, u)[k].part)
             n == [mode |-> "primary", open |-> FALSE, ci |-> DCi(s), log |-> Append(p, e)]
  <1>10. p \in Seq(Entries) /\ Len(p) = k
    BY <1>6, <1>8, PrefixOf
  <1>11. e \in Entries
    <2>1. Log(s, u)[k] \in Entries
      BY <1>6, <1>8
    <2>2. Log(s, u)[k].doc \in Docs /\ Log(s, u)[k].part \in Records
      BY <2>1 DEF Entries
    <2> QED BY <1>2, <2>2, EntryFacts
  <1>12. SetNode(s, t, n)
    BY <1>4
  <1>13. node' = [node EXCEPT ![s][t] = n] /\ n.log = Append(p, e) /\ n.ci = DCi(s) /\ ~n.open
    BY <1>12 DEF SetNode
  <1> HIDE DEF p, e
  <1>14. Append(p, e) \in Seq(Entries) /\ Len(Append(p, e)) = k + 1
    BY <1>10, <1>11, AppendProperties
  <1>15. n \in Nodes
    BY <1>7, <1>14 DEF Nodes, Entries
  <1>16. n.ci \in 1..Len(n.log)
    BY <1>7, <1>8, <1>13, <1>14
  <1> HIDE DEF n
  <1>17. /\ NodeTypes' /\ node'[s][t] = n
         /\ \A r \in Shards : \A v \in 1..MaxTerm[r] :
              r # s \/ v # t => node'[r][v] = node[r][v]
    BY <1>0, <1>2, <1>12, <1>15, <1>16, SetNodeFacts
  <1>18. \A r \in Shards : \A v \in 1..MaxTerm[r] : r # s \/ v # t => Kept(r, v)
    BY <1>17 DEF Kept
  <1>19. top' = [top EXCEPT ![s] = t]
    BY <1>1 DEF stepUp
  <1>20. TopTypes'
    BY <1>0, <1>2, <1>19 DEF TopTypes
  <1>21. Rises(s, t, u, k)
    BY <1>1, <1>2, <1>4, <1>9, <1>13, <1>17, <1>18, <1>19 DEF Rises, p, e
  <1> QED BY <1>1, <1>5, <1>8, <1>17, <1>20, <1>21

LEMMA StepUpStep ==
    ASSUME Inv, NEW s \in Shards, stepUp(s)
    PROVE  Inv' /\ NodeStep
  <1>1. PICK t : t = top[s] + 1
    OBVIOUS
  <1>2. /\ NodeTypes' /\ TopTypes' /\ NodeStep
        /\ \E u \in Terms(s) : \E k \in Nat : Rises(s, t, u, k)
    BY <1>1, StepUpRises DEF NodeStep
  <1>3. PICK u \in Terms(s) : \E k \in Nat : Rises(s, t, u, k)
    BY <1>2
  <1>4. PICK k \in Nat : Rises(s, t, u, k)
    BY <1>3
  <1>5. /\ t \in 1..MaxTerm[s] /\ t \notin Terms(s) /\ Terms(s)' = Terms(s) \cup {t}
        /\ \A v \in Terms(s) : Kept(s, v)
    BY <1>1, <1>4, RisesFacts DEF Inv, TypeInv
  <1>6. UNCHANGED <<net, answers, attempts>>
    BY DEF stepUp
  <1>7. \A v \in Terms(Coord) : node'[Coord][v].log = node[Coord][v].log
    <2>1. CASE s = Coord
      BY <1>5, <2>1 DEF Kept
    <2>2. CASE s # Coord
      BY <1>4, <2>2, ShardAssumption, TermFacts DEF Rises, Kept, Inv, TypeInv
    <2> QED BY <2>1, <2>2
  <1>8. \A v \in Terms(Coord) : DocsKept(v)
    BY <1>7 DEF DocsKept
  <1>9. CASE s # Coord
    <2>1. co' = co /\ top'[Coord] = top[Coord]
      BY <1>9, ShardAssumption DEF stepUp, Inv, TypeInv, TopTypes
    <2> QED BY <1>2, <1>6, <1>8, <2>1, NodeOnly
  <1>10. CASE s = Coord
    <2>1. GoodStep
      BY <1>2, GoodSteps
    <2>2. co' = [co EXCEPT ![t] = Coordinator("recovering")]
      BY <1>1, <1>10 DEF stepUp, SetCo
    <2>3. /\ co \in [1..MaxTerm[Coord] -> Coordinators] /\ Terms(Coord) \subseteq 1..MaxTerm[Coord]
      BY ShardAssumption, TermFacts DEF Inv, TypeInv, OtherTypes
    <2>4. \A v \in Terms(Coord) : co'[v] = co[v]
      BY <1>5, <1>10, <2>2, <2>3
    <2>5. \A v \in Terms(Coord) : CoInv(co[v], v)'
      BY <1>6, <1>8, <2>1, <2>4, CoUnchanged
    <2>6. PICK c : c = Coordinator("recovering")
      OBVIOUS
    <2>7. /\ c \in Coordinators /\ c.step = "recovering" /\ c.decision.kind = "none"
          /\ c.acks = {} /\ c.result = "none" /\ \A r \in Shards : c.votes[r].kind = "none"
      BY <2>6, CoordinatorFacts DEF Steps
    <2>8. CoInv(c, t)'
      BY <2>7 DEF CoInv, CoDocs, CoWaits, CoKnows, CoSent
    <2>9. co'[t] = c
      BY <1>5, <1>10, <2>2, <2>3, <2>6
    <2>10. CoInv(co[t], t)'
      BY <2>8, <2>9 DEF CoInv, CoDocs, CoWaits, CoKnows, CoSent
    <2>11. CoordinatorInv'
      BY <1>5, <1>10, <2>5, <2>10 DEF CoordinatorInv, CoInv
    <2>12. OtherTypes'
      BY <1>6, <2>2, <2>6, <2>7 DEF OtherTypes, Inv, TypeInv
    <2>13. NetInv' /\ AnswerInv'
      BY <1>6, <2>1, NetInvStable, AnswerInvStable DEF Inv
    <2> QED BY <1>2, <1>6, <2>11, <2>12, <2>13, StepInv
  <1> QED BY <1>2, <1>9, <1>10

-----------------------------------------------------------------------------
(* Writes. *)

LEMMA WriteStep ==
    ASSUME Inv, NEW s \in Shards, NEW t \in Terms(s), NEW doc \in Docs, NEW part \in Records,
           NEW n \in Nodes, n.ci = Ci(s, t), n.ci \in 1..Len(n.log),
           n.open => node[s][t].open,
           n.log = Log(s, t) \/ n.log = Append(Log(s, t), Entry(t, doc, part)),
           SetNode(s, t, n), top' = top,
           PartLegal(s, t, Entry(t, doc, part)), DocLegal(s, t, Entry(t, doc, part))
    PROVE  /\ NodeStep /\ NodeTypes' /\ TopTypes' /\ node'[s][t] = n
           /\ \A u \in Terms(Coord) : s # Coord \/ u # t => DocsKept(u)
           /\ doc = Last(s, t).doc => \A u \in Terms(Coord) : DocsKept(u)
  <1>0. /\ t \in 1..MaxTerm[s] /\ t \in Nat /\ NodeTypes /\ TopTypes
        /\ Coord \in Shards /\ Terms(Coord) \subseteq 1..MaxTerm[Coord]
    BY ShardAssumption, TermFacts DEF Inv, TypeInv
  <1>1. /\ NodeTypes' /\ node'[s][t] = n
        /\ \A r \in Shards : \A u \in 1..MaxTerm[r] :
             r # s \/ u # t => node'[r][u] = node[r][u]
    BY <1>0, SetNodeFacts
  <1>2. TopTypes'
    BY <1>0 DEF TopTypes
  <1>3. \A r \in Shards : \A u \in 1..MaxTerm[r] : r # s \/ u # t => Kept(r, u)
    BY <1>1 DEF Kept
  <1>4. PICK e \in Entries : e = Entry(t, doc, part) /\ e.term = t /\ e.doc = doc
    BY <1>0, EntryFacts
  <1>5. /\ Log(s, t) \in Seq(Entries) /\ Len(Log(s, t)) \in Nat
        /\ Len(Log(s, t)) \in 1..Len(Log(s, t)) /\ Last(s, t) = Log(s, t)[Len(Log(s, t))]
    BY <1>0, NodeFacts
  <1>6. NodeStep
    <2>1. CASE n.log = Log(s, t)
      <3>1. Kept(s, t)
        BY <1>1, <2>1 DEF Kept, Log, Ci
      <3>2. Keeps
        BY <1>3, <3>1 DEF Keeps
      <3> QED BY <3>2 DEF NodeStep
    <2>2. CASE n.log = Append(Log(s, t), Entry(t, doc, part))
      <3>1. Writes(s, t, e)
        BY <1>1, <1>3, <1>4, <2>2 DEF Writes, Log, Ci
      <3> QED BY <3>1 DEF NodeStep
    <2> QED BY <2>1, <2>2
  <1>7. \A u \in Terms(Coord) : s # Coord \/ u # t => DocsKept(u)
    BY <1>0, <1>1 DEF DocsKept
  <1>8. ASSUME doc = Last(s, t).doc, s = Coord PROVE DocsKept(t)
    <2>1. CASE n.log = Log(s, t)
      BY <1>1, <1>8, <2>1 DEF DocsKept, Log
    <2>2. CASE n.log = Append(Log(s, t), Entry(t, doc, part))
      <3>1. /\ Len(Append(Log(s, t), e)) = Len(Log(s, t)) + 1
            /\ \A i \in 1..Len(Log(s, t)) : Append(Log(s, t), e)[i] = Log(s, t)[i]
            /\ Append(Log(s, t), e)[Len(Log(s, t)) + 1] = e
        BY <1>5, AppendProperties
      <3>2. node'[Coord][t].log = Append(Log(s, t), e) /\ node[Coord][t].log = Log(s, t)
        BY <1>1, <1>4, <1>8, <2>2 DEF Log
      <3>3. \A i \in 1..(Len(Log(s, t)) + 1) : \E j \in 1..Len(Log(s, t)) :
              Append(Log(s, t), e)[i].doc = Log(s, t)[j].doc
        <4> SUFFICES ASSUME NEW i \in 1..(Len(Log(s, t)) + 1)
                     PROVE  \E j \in 1..Len(Log(s, t)) :
                              Append(Log(s, t), e)[i].doc = Log(s, t)[j].doc
          OBVIOUS
        <4>1. CASE i = Len(Log(s, t)) + 1
          BY <1>4, <1>5, <1>8, <3>1, <4>1
        <4>2. CASE i # Len(Log(s, t)) + 1
          <5>1. i \in 1..Len(Log(s, t))
            BY <1>5, <4>2
          <5> QED BY <3>1, <5>1
        <4> QED BY <4>1, <4>2
      <3> QED BY <3>1, <3>2, <3>3 DEF DocsKept
    <2> QED BY <2>1, <2>2
  <1> QED BY <1>1, <1>2, <1>6, <1>7, <1>8

(* The chain writes its document. *)
LEMMA ChainWrite ==
    ASSUME Inv, NEW t \in Terms(Coord), NEW doc \in Docs, NEW part, part = Last(Coord, t).part,
           SetNode(Coord, t, Wrote(Coord, t, doc, part)), top' = top,
           DocLegal(Coord, t, Entry(t, doc, part))
    PROVE  /\ NodeStep /\ NodeTypes' /\ TopTypes'
           /\ node'[Coord][t] = Wrote(Coord, t, doc, part)
           /\ \A u \in Terms(Coord) : u # t => DocsKept(u)
           /\ Len(Wrote(Coord, t, doc, part).log) \in 1..Len(Log(Coord, t)')
           /\ Log(Coord, t)'[Len(Wrote(Coord, t, doc, part).log)].doc = doc
           /\ Len(Wrote(Coord, t, doc, part).log) \in Nat
  <1> DEFINE n == Wrote(Coord, t, doc, part)
  <1>0. /\ t \in 1..MaxTerm[Coord] /\ t \in Nat /\ NodeTypes /\ Coord \in Shards
        /\ MaxTerm[Coord] \in Nat
    BY CoFacts, TermFacts DEF Inv, TypeInv
  <1>1. /\ Last(Coord, t) \in Entries /\ Log(Coord, t) \in Seq(Entries)
        /\ Len(Log(Coord, t)) \in Nat
        /\ Len(Log(Coord, t)) \in 1..Len(Log(Coord, t))
        /\ Last(Coord, t) = Log(Coord, t)[Len(Log(Coord, t))]
    BY <1>0, NodeFacts
  <1>2. part \in Records
    BY <1>1 DEF Entries
  <1>3. /\ n \in Nodes /\ n.ci = Ci(Coord, t) /\ n.ci \in 1..Len(n.log)
        /\ n.open = node[Coord][t].open
        /\ \/ n.log = Log(Coord, t) /\ doc = Last(Coord, t).doc
           \/ n.log = Append(Log(Coord, t), Entry(t, doc, part))
    BY <1>0, <1>2, WroteFacts
  <1> HIDE DEF n
  <1>4. SetNode(Coord, t, n)
    BY DEF n
  <1>5. Entry(t, doc, part) \in Entries /\ Entry(t, doc, part).part = part
        /\ Entry(t, doc, part).doc = doc
    BY <1>0, <1>2, EntryFacts
  <1>6. PartLegal(Coord, t, Entry(t, doc, part))
    BY <1>5 DEF PartLegal
  <1>7. /\ NodeStep /\ NodeTypes' /\ TopTypes' /\ node'[Coord][t] = n
        /\ \A u \in Terms(Coord) : u # t => DocsKept(u)
    BY <1>0, <1>2, <1>3, <1>4, <1>6, WriteStep
  <1>8. Log(Coord, t)' = n.log
    BY <1>7 DEF Log
  <1>9. Len(n.log) \in Nat /\ Len(n.log) \in 1..Len(n.log) /\ n.log[Len(n.log)].doc = doc
    <2>1. CASE n.log = Log(Coord, t) /\ doc = Last(Coord, t).doc
      BY <1>1, <2>1
    <2>2. CASE n.log = Append(Log(Coord, t), Entry(t, doc, part))
      <3>1. /\ Len(n.log) = Len(Log(Coord, t)) + 1
            /\ n.log[Len(Log(Coord, t)) + 1] = Entry(t, doc, part)
        BY <1>1, <1>5, <2>2, AppendProperties
      <3> QED BY <1>1, <1>5, <3>1
    <2> QED BY <1>3, <2>1, <2>2
  <1> QED BY <1>7, <1>8, <1>9 DEF n

(* A step of a coordinator that writes its document. *)
LEMMA ChainStep ==
    ASSUME Inv, NEW t \in Terms(Coord), NodeStep, NodeTypes', TopTypes', top' = top,
           \A u \in Terms(Coord) : u # t => DocsKept(u),
           NEW c \in Coordinators, SetCo(t, c),
           CoDocs(c, t)', CoWaits(c, t)', CoKnows(c, t), CoSent(c),
           UNCHANGED <<net, answers, attempts>>
    PROVE  Inv'
  <1>1. GoodStep
    BY GoodSteps
  <1>2. co' = [co EXCEPT ![t] = c] /\ net' = net
    BY DEF SetCo
  <1>3. CoSent(c)'
    BY DEF CoSent
  <1>4. CoordinatorInv'
    BY <1>1, <1>2, <1>3, CoordinatorInvNext
  <1>5. NetInv' /\ AnswerInv'
    BY <1>1, NetInvStable, AnswerInvStable DEF Inv
  <1>6. OtherTypes'
    BY <1>2 DEF OtherTypes, Inv, TypeInv
  <1> QED BY <1>4, <1>5, <1>6, StepInv

LEMMA PersistParticipantsStep ==
    ASSUME Inv, NEW t \in Terms(Coord), persistParticipants(t)
    PROVE  Inv' /\ NodeStep
  <1>0. /\ co[t] \in Coordinators /\ CoInv(co[t], t) /\ CoKnows(co[t], t)
    BY CoFacts
  <1>1. PICK part : part = Last(Coord, t).part
    OBVIOUS
  <1>2. /\ co[t].step = "writingParticipants"
        /\ SetNode(Coord, t, Wrote(Coord, t, ListDoc, part))
        /\ SetCo(t, [co[t] EXCEPT !.step = "waitingParticipants",
                                  !.waitFor = Len(Wrote(Coord, t, ListDoc, part).log)])
        /\ UNCHANGED <<top, net, answers, attempts>>
    BY <1>1 DEF persistParticipants
  <1>3. DocLegal(Coord, t, Entry(t, ListDoc, part))
    <2>1. Entry(t, ListDoc, part).doc = ListDoc
      BY DEF Entry
    <2> QED BY <1>0, <1>2, <2>1 DEF DocLegal, CoInv, CoDocs
  <1>4. PICK w : w = Len(Wrote(Coord, t, ListDoc, part).log)
    OBVIOUS
  <1>5. /\ NodeStep /\ NodeTypes' /\ TopTypes'
        /\ \A u \in Terms(Coord) : u # t => DocsKept(u)
        /\ w \in 1..Len(Log(Coord, t)') /\ Log(Coord, t)'[w].doc = ListDoc /\ w \in Nat
    BY <1>1, <1>2, <1>3, <1>4, DocFacts, ChainWrite
  <1>6. PICK c : c = [co[t] EXCEPT !.step = "waitingParticipants", !.waitFor = w]
    OBVIOUS
  <1>7. /\ c \in Coordinators /\ c.step = "waitingParticipants" /\ c.waitFor = w
        /\ c.decision = co[t].decision /\ c.acks = co[t].acks /\ c.result = co[t].result
        /\ c.votes = co[t].votes
    BY <1>0, <1>5, <1>6 DEF Coordinators, Steps
  <1>8. CoKnows(c, t) /\ CoSent(c)
    BY <1>0, <1>2, <1>7 DEF CoKnows, CoSent
  <1>9. CoDocs(c, t)'
    BY <1>7 DEF CoDocs
  <1>10. CoWaits(c, t)'
    BY <1>5, <1>7, DocFacts DEF CoWaits
  <1>11. SetCo(t, c)
    BY <1>2, <1>4, <1>6
  <1> QED BY <1>2, <1>5, <1>7, <1>8, <1>9, <1>10, <1>11, ChainStep

LEMMA PersistParticipantsInterruptedStep ==
    ASSUME Inv, NEW t \in Terms(Coord), persistParticipantsInterrupted(t)
    PROVE  Inv' /\ NodeStep
  <1>0. /\ co[t] \in Coordinators /\ CoInv(co[t], t) /\ CoKnows(co[t], t)
        /\ co[t].step \notin {"recovering", "failed"} => Recovered(t)
        /\ co[t].result \in {"commit", "abort"} => \E d \in DurableDocs : d.kind = co[t].result
    BY CoFacts
  <1>1. /\ co[t].step = "writingParticipants"
        /\ \/ UNCHANGED node
           \/ SetNode(Coord, t, Wrote(Coord, t, ListDoc, Last(Coord, t).part))
        /\ SetCo(t, done(co[t], prepareError(co[t])))
        /\ UNCHANGED <<top, net, answers, attempts>>
    BY DEF persistParticipantsInterrupted
  <1>2. PICK c : c = done(co[t], prepareError(co[t]))
    OBVIOUS
  <1>3. prepareError(co[t]) \in Results \ {"commit", "abort"}
    BY DEF prepareError, Results
  <1>4. c \in Coordinators /\ CoInv(c, t)
    BY <1>0, <1>1, <1>2, <1>3, DoneFacts
  <1>5. SetCo(t, c)
    BY <1>1, <1>2
  <1>6. CASE UNCHANGED node
    <2>1. Inv'
      BY <1>1, <1>4, <1>5, <1>6, OwnStep
    <2>2. NodeStep
      BY <1>1, <1>6 DEF NodeStep, Keeps, Kept
    <2> QED BY <2>1, <2>2
  <1>7. CASE SetNode(Coord, t, Wrote(Coord, t, ListDoc, Last(Coord, t).part))
    <2>1. PICK part : part = Last(Coord, t).part
      OBVIOUS
    <2>2. DocLegal(Coord, t, Entry(t, ListDoc, part))
      <3>1. Entry(t, ListDoc, part).doc = ListDoc
        BY DEF Entry
      <3> QED BY <1>0, <1>1, <3>1 DEF DocLegal, CoInv, CoDocs
    <2>3. /\ NodeStep /\ NodeTypes' /\ TopTypes'
          /\ \A u \in Terms(Coord) : u # t => DocsKept(u)
      BY <1>1, <1>7, <2>1, <2>2, DocFacts, ChainWrite
    <2>4. c.step = "done"
      <3>1. Coordinator("done") \in Coordinators /\ Coordinator("done").step = "done"
        BY CoordinatorFacts DEF Steps
      <3> QED BY <1>2, <3>1 DEF done, Coordinators
    <2>5. CoDocs(c, t)' /\ CoWaits(c, t)'
      BY <2>4 DEF CoDocs, CoWaits
    <2> QED BY <1>1, <1>4, <1>5, <2>3, <2>5, ChainStep DEF CoInv
  <1> QED BY <1>1, <1>6, <1>7

LEMMA PersistDecisionStep ==
    ASSUME Inv, NEW t \in Terms(Coord), persistDecision(t)
    PROVE  Inv' /\ NodeStep
  <1>0. /\ co[t] \in Coordinators /\ CoInv(co[t], t) /\ CoKnows(co[t], t)
    BY CoFacts
  <1>1. PICK part : part = Last(Coord, t).part
    OBVIOUS
  <1>2. PICK d : d = co[t].decision
    OBVIOUS
  <1>3. /\ co[t].step = "writingDecision"
        /\ Last(Coord, t).doc \in {ListDoc, d}
        /\ SetNode(Coord, t, Wrote(Coord, t, d, part))
        /\ SetCo(t, [co[t] EXCEPT !.step = "waitingDecision",
                                  !.waitFor = Len(Wrote(Coord, t, d, part).log)])
        /\ UNCHANGED <<top, net, answers, attempts>>
    BY <1>1, <1>2 DEF persistDecision, decisionMatches
  <1>4. d \in Decisions /\ (d.kind = "commit" => AllPrepared(d.ts)) /\ d \in Docs
    BY <1>0, <1>2, <1>3, DocFacts DEF CoKnows
  <1>5. DocLegal(Coord, t, Entry(t, d, part))
    <2>1. Entry(t, d, part).doc = d
      BY DEF Entry
    <2> QED BY <1>3, <1>4, <2>1 DEF DocLegal
  <1>6. PICK w : w = Len(Wrote(Coord, t, d, part).log)
    OBVIOUS
  <1>7. /\ NodeStep /\ NodeTypes' /\ TopTypes'
        /\ \A u \in Terms(Coord) : u # t => DocsKept(u)
        /\ w \in 1..Len(Log(Coord, t)') /\ Log(Coord, t)'[w].doc = d /\ w \in Nat
    BY <1>1, <1>3, <1>4, <1>5, <1>6, ChainWrite
  <1>8. PICK c : c = [co[t] EXCEPT !.step = "waitingDecision", !.waitFor = w]
    OBVIOUS
  <1>9. /\ c \in Coordinators /\ c.step = "waitingDecision" /\ c.waitFor = w
        /\ c.decision = d /\ c.acks = co[t].acks /\ c.result = co[t].result
        /\ c.votes = co[t].votes
    BY <1>0, <1>2, <1>7, <1>8 DEF Coordinators, Steps
  <1>10. CoKnows(c, t) /\ CoSent(c)
    BY <1>0, <1>2, <1>3, <1>9 DEF CoKnows, CoSent
  <1>11. CoDocs(c, t)'
    BY <1>9 DEF CoDocs
  <1>12. CoWaits(c, t)'
    BY <1>7, <1>9 DEF CoWaits
  <1>13. SetCo(t, c)
    BY <1>3, <1>6, <1>8
  <1> QED BY <1>3, <1>7, <1>9, <1>10, <1>11, <1>12, <1>13, ChainStep

LEMMA DeleteCoordinatorDocStep ==
    ASSUME Inv, NEW t \in Terms(Coord), deleteCoordinatorDoc(t)
    PROVE  Inv' /\ NodeStep
  <1>0. /\ co[t] \in Coordinators /\ CoInv(co[t], t) /\ CoKnows(co[t], t)
        /\ co[t].step \notin {"recovering", "failed"} => Recovered(t)
        /\ co[t].result \in {"commit", "abort"} => \E d \in DurableDocs : d.kind = co[t].result
    BY CoFacts
  <1>1. /\ co[t].step = "deleting"
        /\ \/ UNCHANGED node
           \/ SetNode(Coord, t, Wrote(Coord, t, NoDoc, Last(Coord, t).part))
        /\ SetCo(t, done(co[t], "none"))
        /\ UNCHANGED <<top, net, answers, attempts>>
    BY DEF deleteCoordinatorDoc
  <1>2. PICK c : c = done(co[t], "none")
    OBVIOUS
  <1>3. "none" \in Results \ {"commit", "abort"}
    BY DEF Results
  <1>4. c \in Coordinators /\ CoInv(c, t)
    BY <1>0, <1>1, <1>2, <1>3, DoneFacts
  <1>5. SetCo(t, c)
    BY <1>1, <1>2
  <1>6. CASE UNCHANGED node
    <2>1. Inv'
      BY <1>1, <1>4, <1>5, <1>6, OwnStep
    <2>2. NodeStep
      BY <1>1, <1>6 DEF NodeStep, Keeps, Kept
    <2> QED BY <2>1, <2>2
  <1>7. CASE SetNode(Coord, t, Wrote(Coord, t, NoDoc, Last(Coord, t).part))
    <2>1. PICK part : part = Last(Coord, t).part
      OBVIOUS
    <2>2. DocLegal(Coord, t, Entry(t, NoDoc, part))
      <3>1. Entry(t, NoDoc, part).doc = NoDoc
        BY DEF Entry
      <3>2. \A r \in Shards : Resolved(r)
        BY <1>0, <1>1 DEF CoKnows
      <3> QED BY <3>1, <3>2 DEF DocLegal
    <2>3. /\ NodeStep /\ NodeTypes' /\ TopTypes'
          /\ \A u \in Terms(Coord) : u # t => DocsKept(u)
      BY <1>1, <1>7, <2>1, <2>2, DocFacts, ChainWrite
    <2>4. c.step = "done"
      <3>1. Coordinator("done") \in Coordinators /\ Coordinator("done").step = "done"
        BY CoordinatorFacts DEF Steps
      <3> QED BY <1>2, <3>1 DEF done, Coordinators
    <2>5. CoDocs(c, t)' /\ CoWaits(c, t)'
      BY <2>4 DEF CoDocs, CoWaits
    <2> QED BY <1>1, <1>4, <1>5, <2>3, <2>5, ChainStep DEF CoInv
  <1> QED BY <1>1, <1>6, <1>7

(* The steps of a participant. *)

(* A participant's write leaves the document alone. *)
LEMMA ParticipantWrite ==
    ASSUME Inv, NEW s \in Shards, NEW t \in Terms(s), NEW part \in Records,
           NEW doc, doc = Last(s, t).doc,
           NEW n \in Nodes, n.ci = Ci(s, t), n.ci \in 1..Len(n.log),
           n.open => node[s][t].open,
           n.log = Log(s, t) \/ n.log = Append(Log(s, t), Entry(t, doc, part)),
           SetNode(s, t, n), PartLegal(s, t, Entry(t, doc, part)),
           UNCHANGED <<top, co, net, answers, attempts>>
    PROVE  Inv' /\ NodeStep
  <1>1. doc \in Docs /\ t \in Nat
    BY TermFacts, NodeFacts DEF Entries, Inv, TypeInv
  <1>2. DocLegal(s, t, Entry(t, doc, part))
    BY <1>1, EntryFacts DEF DocLegal
  <1>3. /\ NodeStep /\ NodeTypes' /\ TopTypes' /\ \A u \in Terms(Coord) : DocsKept(u)
    BY <1>1, <1>2, WriteStep
  <1> QED BY <1>3, NodeOnly

(* What a participant has received from a coordinator was sent for a reason that is durable. *)
LEMMA ReceivedFacts ==
    ASSUME Inv, NEW s \in Shards, NEW t \in Terms(s)
    PROVE  /\ Received(s, t, PrepareCommand) => ListIsDurable
           /\ \A d \in Decisions : Received(s, t, d) => d \in net
  <1>1. CASE s # Coord
    BY <1>1 DEF Received, Inv, NetInv
  <1>2. CASE s = Coord
    <2>1. CoKnows(co[t], t) /\ CoSent(co[t]) /\ co[t] \in Coordinators
      BY <1>2, CoFacts DEF CoInv
    <2>2. Received(s, t, PrepareCommand) => ListIsDurable
      <3> SUFFICES ASSUME Received(s, t, PrepareCommand) PROVE ListIsDurable
        OBVIOUS
      <3>1. CASE co[t].step = "votes"
        BY <2>1, <3>1 DEF CoKnows
      <3>2. CASE co[t].step = "acks" /\ PrepareCommand = co[t].decision
        BY <2>1, <3>2, DocFacts DEF CoKnows
      <3> QED BY <1>2, <3>1, <3>2 DEF Received
    <2>3. \A d \in Decisions : Received(s, t, d) => d \in net
      BY <1>2, <2>1, DocFacts DEF Received, CoSent
    <2> QED BY <2>2, <2>3
  <1> QED BY <1>1, <1>2

LEMMA PrepareStep ==
    ASSUME Inv, NEW s \in Shards, NEW t \in Terms(s), prepareTransaction(s, t)
    PROVE  Inv' /\ NodeStep
  <1>0. /\ t \in 1..MaxTerm[s] /\ t \in Nat /\ MaxTerm[s] \in Nat /\ NodeTypes
    BY TermFacts DEF Inv, TypeInv
  <1>1. PICK doc : doc = Last(s, t).doc
    OBVIOUS
  <1>2. PICK ts \in Timestamps :
          SetNode(s, t, [Wrote(s, t, doc, Record("prepared", ts)) EXCEPT !.open = FALSE])
    BY <1>1, PrepareAssumption DEF prepareTransaction
  <1>3. node[s][t].open /\ Received(s, t, PrepareCommand)
        /\ UNCHANGED <<top, co, net, answers, attempts>>
    BY DEF prepareTransaction
  <1>4. PICK part \in Records : part = Record("prepared", ts) /\ part.kind = "prepared"
    BY RecordAt
  <1>5. doc \in Docs
    BY <1>0, <1>1, NodeFacts DEF Entries
  <1> DEFINE m == Wrote(s, t, doc, part)
             n == [m EXCEPT !.open = FALSE]
  <1>6. /\ m \in Nodes /\ m.ci = Ci(s, t) /\ m.ci \in 1..Len(m.log)
        /\ m.log = Log(s, t) \/ m.log = Append(Log(s, t), Entry(t, doc, part))
    BY <1>0, <1>5, WroteFacts
  <1> HIDE DEF m
  <1>7. n \in Nodes /\ n.ci = m.ci /\ n.log = m.log /\ ~n.open
    BY <1>6 DEF Nodes
  <1>8. SetNode(s, t, n)
    BY <1>2, <1>4 DEF m
  <1> HIDE DEF n
  <1>9. node'[s][t] = n
    BY <1>0, <1>6, <1>7, <1>8, SetNodeFacts
  <1>10. PartLegal(s, t, Entry(t, doc, part))
    <2>1. Entry(t, doc, part).part = part
      BY <1>0, <1>5, EntryFacts
    <2>2. ListIsDurable
      BY <1>3, ReceivedFacts
    <2> QED BY <1>3, <1>4, <1>7, <1>9, <2>1, <2>2 DEF PartLegal
  <1> QED BY <1>1, <1>3, <1>6, <1>7, <1>8, <1>10, ParticipantWrite

LEMMA OutcomeStep ==
    ASSUME Inv, NEW s \in Shards, NEW t \in Terms(s),
           commitPreparedTransaction(s, t) \/ abortPreparedTransaction(s, t)
    PROVE  Inv' /\ NodeStep
  <1>0. /\ t \in 1..MaxTerm[s] /\ t \in Nat /\ MaxTerm[s] \in Nat /\ NodeTypes
    BY TermFacts DEF Inv, TypeInv
  <1>1. PICK doc : doc = Last(s, t).doc
    OBVIOUS
  <1>2. Last(s, t).part.kind = "prepared" /\ UNCHANGED <<top, co, net, answers, attempts>>
    BY DEF commitPreparedTransaction, abortPreparedTransaction
  <1>3. PICK part \in Records :
          /\ SetNode(s, t, Wrote(s, t, doc, part))
          /\ \/ part.kind = "committed" /\ CommitIsSent
             \/ part.kind = "aborted" /\ AbortDecision \in net
    <2>1. CASE commitPreparedTransaction(s, t)
      <3>1. PICK ts \in Timestamps :
              /\ Received(s, t, CommitDecision(ts))
              /\ SetNode(s, t, Wrote(s, t, doc, Record("committed", ts)))
        BY <1>1, <2>1 DEF commitPreparedTransaction
      <3>2. CommitIsSent
        BY <3>1, ReceivedFacts, DocFacts DEF CommitIsSent
      <3> QED BY <3>1, <3>2, RecordAt
    <2>2. CASE abortPreparedTransaction(s, t)
      <3>1. /\ Received(s, t, AbortDecision)
            /\ SetNode(s, t, Wrote(s, t, doc, Record("aborted", 0)))
        BY <1>1, <2>2 DEF abortPreparedTransaction
      <3>2. AbortDecision \in net
        BY <3>1, ReceivedFacts, DocFacts
      <3> QED BY <3>1, <3>2, AbortedRecord
    <2> QED BY <2>1, <2>2
  <1>4. doc \in Docs
    BY <1>0, <1>1, NodeFacts DEF Entries
  <1> DEFINE n == Wrote(s, t, doc, part)
  <1>5. /\ n \in Nodes /\ n.ci = Ci(s, t) /\ n.ci \in 1..Len(n.log)
        /\ n.open = node[s][t].open
        /\ n.log = Log(s, t) \/ n.log = Append(Log(s, t), Entry(t, doc, part))
    BY <1>0, <1>4, WroteFacts
  <1>6. SetNode(s, t, n)
    BY <1>3
  <1> HIDE DEF n
  <1>7. PartLegal(s, t, Entry(t, doc, part))
    <2>1. Entry(t, doc, part).part = part
      BY <1>0, <1>4, EntryFacts
    <2> QED BY <1>2, <1>3, <2>1 DEF PartLegal
  <1> QED BY <1>1, <1>2, <1>5, <1>6, <1>7, ParticipantWrite

-----------------------------------------------------------------------------
(* The invariant is one. *)

LEMMA InitInv == Init => Inv
  <1> SUFFICES ASSUME Init PROVE Inv
    OBVIOUS
  <1>0. Coord \in Shards /\ \A s \in Shards : MaxTerm[s] \in Nat /\ 1 \in 1..MaxTerm[s]
    BY ShardAssumption, TermAssumption
  <1>1. PICK e \in Entries : e = FirstEntry /\ e.term = 1 /\ e.doc = NoDoc /\ e.part.kind = "none"
    BY EntryFacts, DocFacts, NoRecordFacts DEF FirstEntry
  <1>2. <<e>> \in Seq(Entries) /\ Len(<<e>>) = 1 /\ <<e>>[1] = e
    OBVIOUS
  <1>3. \A s \in Shards : \A t \in 1..MaxTerm[s] :
          node[s][t] = [mode |-> IF t = 1 THEN "primary" ELSE "none", open |-> t = 1,
                        log |-> <<e>>, ci |-> 1]
    BY <1>1 DEF Init
  <1>4. \A s \in Shards : \A t \in 1..MaxTerm[s] :
          /\ node[s][t] \in Nodes /\ Log(s, t) = <<e>> /\ Ci(s, t) = 1
          /\ node[s][t].open <=> t = 1
    <2> SUFFICES ASSUME NEW s \in Shards, NEW t \in 1..MaxTerm[s]
                 PROVE  /\ node[s][t] \in Nodes /\ Log(s, t) = <<e>> /\ Ci(s, t) = 1
                        /\ node[s][t].open <=> t = 1
      OBVIOUS
    <2>1. PICK n : n = node[s][t]
      OBVIOUS
    <2>2. n = [mode |-> IF t = 1 THEN "primary" ELSE "none", open |-> t = 1,
               log |-> <<e>>, ci |-> 1]
      BY <1>3, <2>1
    <2>3. n \in Nodes
      BY <1>2, <2>2 DEF Nodes, Entries
    <2>4. n.log = <<e>> /\ n.ci = 1
      BY <2>2
    <2>5. n.open <=> t = 1
      BY <2>2, Zenon
    <2> QED BY <2>1, <2>3, <2>4, <2>5 DEF Log, Ci
  <1>5. \A s \in Shards : top[s] = 1 /\ Terms(s) = {1}
    BY DEF Init, Terms
  <1>6. NodeTypes
    <2>1. node = [s \in Shards |-> [t \in 1..MaxTerm[s] |-> node[s][t]]]
      <3>1. PICK N : N = [s \in Shards |-> [t \in 1..MaxTerm[s] |->
                 [mode |-> IF t = 1 THEN "primary" ELSE "none", open |-> t = 1,
                  log |-> <<FirstEntry>>, ci |-> 1]]]
        OBVIOUS
      <3>2. node = N
        BY <3>1 DEF Init
      <3>3. \A s \in Shards : N[s] = [t \in 1..MaxTerm[s] |-> N[s][t]]
        BY <3>1, Zenon
      <3>4. N = [s \in Shards |-> N[s]]
        BY <3>1, Zenon
      <3>5. N = [s \in Shards |-> [t \in 1..MaxTerm[s] |-> N[s][t]]]
        BY <3>3, <3>4
      <3> QED BY <3>2, <3>5
    <2>2. \A s \in Shards : \A t \in 1..MaxTerm[s] :
            node[s][t] \in Nodes /\ node[s][t].ci \in 1..Len(node[s][t].log)
      <3>1. 1 \in 1..Len(<<e>>)
        BY <1>2
      <3> QED BY <1>4, <3>1 DEF Log, Ci
    <2> QED BY <2>1, <2>2 DEF NodeTypes
  <1>7. TopTypes
    BY <1>0, <1>5 DEF TopTypes, Init
  <1>8. OtherTypes
    <2>1. \A t \in 1..MaxTerm[Coord] :
            Coordinator(IF t = 1 THEN "inactive" ELSE "absent") \in Coordinators
      BY CoordinatorFacts DEF Steps
    <2> QED BY <2>1, AttemptAssumption DEF OtherTypes, Init
  <1>9. \A s \in Shards : /\ Log(s, 1) = <<e>> /\ Last(s, 1) = e /\ Ci(s, 1) = 1
                          /\ DLog(s) = <<e>> /\ DCi(s) = 1
    BY <1>0, <1>2, <1>4, <1>5 DEF Last, DLog, DCi, Log, Ci
  <1>10. LogInv
    <2> SUFFICES ASSUME NEW s \in Shards PROVE OrderInv(s) /\ TermInv(s) /\ PrefixInv(s)
      BY DEF LogInv
    <2>1. OrderInv(s)
      BY <1>2, <1>5, <1>9 DEF OrderInv
    <2>2. TermInv(s)
      BY <1>1, <1>2, <1>5, <1>9 DEF TermInv
    <2>3. PrefixInv(s)
      BY <1>5, <1>9 DEF PrefixInv
    <2> QED BY <2>1, <2>2, <2>3
  <1>11. CoordinatorInv
    <2>1. PICK c \in Coordinators : c = Coordinator("inactive")
      BY CoordinatorFacts DEF Steps
    <2>2. /\ c.step = "inactive" /\ c.decision.kind = "none" /\ c.acks = {} /\ c.result = "none"
          /\ \A s \in Shards : c.votes[s].kind = "none"
      BY <2>1, CoordinatorFacts DEF Steps
    <2>3. co[1] = c
      BY <1>0, <2>1 DEF Init
    <2>4. CoDocs(c, 1)
      BY <1>0, <1>1, <1>2, <1>9, DocFacts DEF CoDocs
    <2>5. CoWaits(c, 1) /\ CoKnows(c, 1) /\ CoSent(c)
      BY <2>2 DEF CoWaits, CoKnows, CoSent
    <2> QED BY <1>0, <1>5, <2>3, <2>4, <2>5 DEF CoordinatorInv
  <1>12. DocumentInv
    <2>1. \A i \in 1..Len(Log(Coord, 1)) : i = 1 /\ Log(Coord, 1)[i].doc = NoDoc
      BY <1>0, <1>1, <1>2, <1>9
    <2> QED BY <1>0, <1>5, <2>1, DocFacts DEF DocumentInv
  <1>13. NetInv /\ AnswerInv
    BY DEF NetInv, AnswerInv, Init
  <1>14. ParticipantInv
    <2>1. \A s \in Shards : \A i \in 1..Len(Log(s, 1)) : Log(s, 1)[i].part.kind = "none"
      BY <1>1, <1>2, <1>9
    <2> QED BY <1>5, <2>1 DEF ParticipantInv
  <1> QED BY <1>6, <1>7, <1>8, <1>10, <1>11, <1>12, <1>13, <1>14 DEF Inv, TypeInv

LEMMA NextInv == Inv /\ [Next]_vars => Inv'
  <1> SUFFICES ASSUME Inv, [Next]_vars PROVE Inv'
    OBVIOUS
  <1>1. CASE UNCHANGED vars
    <2>1. NodeStep /\ net \subseteq net' /\ NodeTypes' /\ TopTypes' /\ OtherTypes'
      BY <1>1 DEF vars, NodeStep, Keeps, Kept, Inv, TypeInv, NodeTypes, TopTypes, OtherTypes
    <2>2. \A u \in Terms(Coord) : DocsKept(u)
      BY <1>1 DEF vars, DocsKept
    <2> QED BY <1>1, <2>1, <2>2, NodeOnly DEF vars
  <1>2. ASSUME NEW t \in 1..top[Coord], CoordinatorStep(t) PROVE Inv'
    <2>0. t \in Terms(Coord)
      BY DEF Terms
    <2> QED BY <1>2, <2>0, StartSteps, PersistParticipantsStep, PersistParticipantsInterruptedStep,
               ParticipantsDurableStep, EndSteps, PersistDecisionStep, DecisionDurableStep,
               DeleteCoordinatorDocStep, RecoverStep, AnswerStep, AttemptSteps, VoteStep, AckStep
            DEF CoordinatorStep
  <1>3. ASSUME NEW s \in Shards, Replicate(s) \/ stepUp(s) PROVE Inv'
    BY <1>3, ReplicateStep, StepUpStep
  <1>4. ASSUME NEW s \in Shards, NEW t \in 1..top[s], ParticipantStep(s, t) PROVE Inv'
    <2>0. t \in Terms(s)
      BY DEF Terms
    <2> QED BY <1>4, <2>0, PrepareStep, OutcomeStep, AbortUnpreparedStep, StepDownStep
            DEF ParticipantStep
  <1>5. CASE Next
    BY <1>2, <1>3, <1>4, <1>5 DEF Next
  <1> QED BY <1>1, <1>5

(* The conjunction of what follows holds in every reachable state. *)
THEOREM Invariance == Spec => []Inv
  BY InitInv, NextInv, PTL DEF Spec

-----------------------------------------------------------------------------
(* What the invariant says of what is majority committed. *)

LEMMA DurableFacts ==
    ASSUME Inv, NEW s \in Shards
    PROVE  /\ top[s] \in Terms(s) /\ top[s] \in 1..MaxTerm[s]
           /\ DLog(s) = Log(s, top[s]) /\ DCi(s) = Ci(s, top[s])
           /\ Len(DLog(s)) \in Nat /\ DCi(s) \in 1..Len(DLog(s)) /\ DCi(s) \in Nat
           /\ Durable(s) = DLog(s)[DCi(s)] /\ Durable(s) \in Entries
           /\ Durable(s).part \in Records
           /\ Durable(s).part.kind \in {"none", "prepared", "committed", "aborted"}
  <1>1. top[s] \in Terms(s) /\ top[s] \in 1..MaxTerm[s]
    BY TermFacts DEF Inv, TypeInv
  <1>2. DLog(s) = Log(s, top[s]) /\ DCi(s) = Ci(s, top[s])
    BY DEF DLog, DCi, Log, Ci
  <1>3. /\ Len(DLog(s)) \in Nat /\ DCi(s) \in 1..Len(DLog(s)) /\ DCi(s) \in Nat
        /\ Durable(s) = DLog(s)[DCi(s)] /\ Durable(s) \in Entries
    BY <1>1, <1>2, NodeFacts DEF Inv, TypeInv, Durable
  <1>4. Durable(s).part \in Records
    BY <1>3 DEF Entries
  <1> QED BY <1>1, <1>2, <1>3, <1>4, RecordFacts

(* Decisions that are majority committed are one. *)
LEMMA DurableDecision ==
    ASSUME Inv, NEW c \in DurableDocs \cap Decisions, NEW d \in DurableDocs \cap Decisions
    PROVE  c = d
  <1>0. Coord \in Shards
    BY ShardAssumption
  <1>1. /\ top[Coord] \in Terms(Coord) /\ DLog(Coord) = Log(Coord, top[Coord])
        /\ Len(DLog(Coord)) \in Nat /\ DCi(Coord) \in 1..Len(DLog(Coord))
    BY <1>0, DurableFacts
  <1>2. PICK i \in 1..DCi(Coord) : DLog(Coord)[i].doc = c
    BY DEF DurableDocs
  <1>3. PICK j \in 1..DCi(Coord) : DLog(Coord)[j].doc = d
    BY DEF DurableDocs
  <1>4. i \in 1..Len(DLog(Coord)) /\ j \in 1..Len(DLog(Coord))
    BY <1>1
  <1>5. OrderInv(Coord)
    BY <1>0 DEF Inv, LogInv
  <1>6. CASE i < j
    <2>1. DocFollows(DLog(Coord)[i], DLog(Coord)[j])
      BY <1>1, <1>4, <1>5, <1>6 DEF OrderInv, Follows
    <2> QED BY <1>2, <1>3, <2>1 DEF DocFollows
  <1>7. CASE j < i
    <2>1. DocFollows(DLog(Coord)[j], DLog(Coord)[i])
      BY <1>1, <1>4, <1>5, <1>7 DEF OrderInv, Follows
    <2> QED BY <1>2, <1>3, <2>1 DEF DocFollows
  <1>8. CASE i = j
    BY <1>2, <1>3, <1>8
  <1> QED BY <1>4, <1>6, <1>7, <1>8

(* A shard that will never prepare has not prepared. *)
LEMMA FrozenIsWorking ==
    ASSUME Inv, NEW s \in Shards, Frozen(s)
    PROVE  Durable(s).part.kind = "none"
  <1>0. /\ top[s] \in Terms(s) /\ DLog(s) = Log(s, top[s])
        /\ Len(DLog(s)) \in Nat /\ DCi(s) \in 1..Len(DLog(s)) /\ DCi(s) \in Nat
        /\ Durable(s) = DLog(s)[DCi(s)]
    BY DurableFacts
  <1>1. OrderInv(s) /\ TermInv(s)
    BY DEF Inv, LogInv
  <1>2. CASE Dropped(s)
    BY <1>0, <1>1, <1>2 DEF Dropped, TermInv
  <1>3. CASE Excluded(s)
    <2>1. PICK i \in 1..DCi(s) : DLog(s)[i].term >= 2 /\ DLog(s)[i].part.kind = "none"
      BY <1>3 DEF Excluded
    <2>2. CASE i = DCi(s)
      BY <1>0, <2>1, <2>2
    <2>3. CASE i # DCi(s)
      <3>1. i < DCi(s) /\ i \in 1..Len(DLog(s))
        BY <1>0, <2>3
      <3>2. PartFollows(DLog(s)[i], Durable(s))
        BY <1>0, <1>1, <3>1 DEF OrderInv, Follows
      <3> QED BY <2>1, <3>2 DEF PartFollows
    <2> QED BY <2>2, <2>3
  <1> QED BY <1>2, <1>3 DEF Frozen

(* What a command or an entry of a participant goes back to. *)
LEMMA SentIsDurable ==
    ASSUME Inv
    PROVE  /\ \A d \in net : d.kind \in {"commit", "abort"} => d \in DurableDocs \cap Decisions
           /\ CommitIsSent => \E d \in DurableDocs : d.kind = "commit"
           /\ AbortDecision \in net => AbortDecision \in DurableDocs
           /\ \A s \in Shards : Logged(s, "committed") => CommitIsSent
           /\ \A s \in Shards : Logged(s, "aborted") => AbortDecision \in net
  <1>1. \A d \in net : d.kind \in {"commit", "abort"} => d \in Decisions
    BY DocFacts DEF Inv, TypeInv, OtherTypes
  <1>2. \A d \in net : d.kind \in {"commit", "abort"} => d \in DurableDocs
    BY <1>1 DEF Inv, NetInv
  <1>3. CommitIsSent => \E d \in DurableDocs : d.kind = "commit"
    BY <1>2 DEF CommitIsSent
  <1>4. AbortDecision \in net => AbortDecision \in DurableDocs
    BY <1>2, DocFacts
  <1>5. /\ \A s \in Shards : Logged(s, "committed") => CommitIsSent
        /\ \A s \in Shards : Logged(s, "aborted") => AbortDecision \in net
    BY DEF Inv, ParticipantInv, Logged, Log, Terms
  <1> QED BY <1>1, <1>2, <1>3, <1>4, <1>5

(* A commit that is majority committed on the coordinator's shard: all participants have
   prepared and none aborts. *)
LEMMA CommitSettles ==
    ASSUME Inv, NEW d \in DurableDocs, d.kind = "commit"
    PROVE  /\ d \in Decisions /\ AllPrepared(d.ts)
           /\ AbortDecision \notin DurableDocs
           /\ \A s \in Shards : /\ Durable(s).part.kind \in {"prepared", "committed"}
                                /\ ~Frozen(s) /\ ~Logged(s, "aborted")
  <1>0. Coord \in Shards
    BY ShardAssumption
  <1>1. /\ top[Coord] \in Terms(Coord) /\ DLog(Coord) = Log(Coord, top[Coord])
        /\ top[Coord] \in 1..MaxTerm[Coord]
        /\ Len(DLog(Coord)) \in Nat /\ DCi(Coord) \in 1..Len(DLog(Coord))
    BY <1>0, DurableFacts
  <1>2. PICK i \in 1..DCi(Coord) : DLog(Coord)[i].doc = d
    BY DEF DurableDocs
  <1>3. i \in 1..Len(DLog(Coord))
    BY <1>1
  <1>4. AllPrepared(d.ts)
    BY <1>1, <1>2, <1>3 DEF Inv, DocumentInv
  <1>5. d \in Decisions
    <2>1. DLog(Coord)[i] \in Entries
      BY <1>0, <1>1, <1>3, NodeFacts DEF Inv, TypeInv
    <2>2. d \in Docs
      BY <1>2, <2>1 DEF Entries
    <2> QED BY <2>2, DocFacts
  <1>6. AbortDecision \notin DurableDocs
    BY <1>5, DurableDecision, DocFacts
  <1>7. \A s \in Shards : ~Logged(s, "aborted")
    BY <1>6, SentIsDurable
  <1>8. ASSUME NEW s \in Shards
        PROVE  Durable(s).part.kind \in {"prepared", "committed"} /\ ~Frozen(s)
    <2>1. Durable(s).part.kind # "none"
      BY <1>4 DEF AllPrepared
    <2>2. /\ top[s] \in Terms(s) /\ DLog(s) = Log(s, top[s])
          /\ DCi(s) \in 1..Len(DLog(s)) /\ Durable(s) = DLog(s)[DCi(s)]
          /\ Durable(s).part.kind \in {"none", "prepared", "committed", "aborted"}
      BY DurableFacts
    <2>3. Durable(s).part.kind # "aborted"
      BY <1>7, <2>2 DEF Logged, Log, Terms
    <2> QED BY <2>1, <2>2, <2>3, FrozenIsWorking
  <1> QED BY <1>4, <1>5, <1>6, <1>7, <1>8

-----------------------------------------------------------------------------
(* The theorems. *)

(* Every variable keeps its type and every commit point is a position of its oplog, whatever the
   coordinators, the participants and their replica sets do. *)
THEOREM TypeCorrect == Spec => []TypeOK
  <1>1. Inv => TypeOK
    BY DEF Inv, TypeInv, NodeTypes, TopTypes, OtherTypes, TypeOK
  <1> QED BY <1>1, Invariance, PTL

(* persistDecision is the only way to a decision that is sent: coordinators of several terms,
   working at the same time or after failovers, send one decision with one commit timestamp. *)
THEOREM DecidedOnce == Spec => []OneDecision
  <1>1. Inv => OneDecision
    BY DurableDecision DEF OneDecision, Inv, NetInv
  <1> QED BY <1>1, Invariance, PTL

(* commitPreparedTransaction is reached only by a transaction that every participant has durably
   prepared or already committed, also on nodes whose entry rolls back later. *)
THEOREM CommitsWhenPrepared == Spec => []CommitOnlyIfAllPrepared
  <1>1. Inv => CommitOnlyIfAllPrepared
    <2> SUFFICES ASSUME Inv, NEW r \in Shards, Logged(r, "committed"), NEW s \in Shards
                 PROVE  Durable(s).part.kind \in {"prepared", "committed"}
      BY DEF CommitOnlyIfAllPrepared
    <2>1. PICK d \in DurableDocs : d.kind = "commit"
      BY SentIsDurable
    <2> QED BY <2>1, CommitSettles
  <1> QED BY <1>1, Invariance, PTL

(* The commit timestamp PrepareVoteConsensus chooses is not before the prepare timestamp of any
   participant that still is prepared, whichever coordinator counted the votes. *)
THEOREM TimestampCovers == Spec => []CommitTimestampCovers
  <1>1. Inv => CommitTimestampCovers
    <2> SUFFICES ASSUME Inv, NEW d \in net, d.kind = "commit", NEW s \in Shards,
                        Durable(s).part.kind = "prepared"
                 PROVE  Durable(s).part.ts <= d.ts
      BY DEF CommitTimestampCovers
    <2>1. AllPrepared(d.ts)
      BY SentIsDurable, CommitSettles
    <2> QED BY <2>1 DEF AllPrepared
  <1> QED BY <1>1, Invariance, PTL

(* deleteCoordinatorDoc removes the document only when no shard is durably prepared any more, and
   no failover loses it before: recoverCoordinators of every later primary finds it. *)
THEOREM Recoverable == Spec => []PreparedIsRecoverable
  <1>1. Inv => PreparedIsRecoverable
    <2> SUFFICES ASSUME Inv, NEW s \in Shards, Durable(s).part.kind = "prepared",
                        NEW i \in DCi(Coord)..Len(DLog(Coord)), DLog(Coord)[i].doc = NoDoc
                 PROVE  FALSE
      BY DEF PreparedIsRecoverable, DCi, DLog
    <2>0. /\ top[Coord] \in Terms(Coord) /\ DLog(Coord) = Log(Coord, top[Coord])
          /\ Len(DLog(Coord)) \in Nat /\ DCi(Coord) \in 1..Len(DLog(Coord))
          /\ DCi(Coord) \in Nat
      BY ShardAssumption, DurableFacts
    <2>1. ListIsDurable
      <3>1. /\ top[s] \in Terms(s) /\ DLog(s) = Log(s, top[s])
            /\ DCi(s) \in 1..Len(DLog(s)) /\ Durable(s) = DLog(s)[DCi(s)]
        BY DurableFacts
      <3> QED BY <3>1 DEF Inv, ParticipantInv
    <2>2. PICK j \in 1..DCi(Coord) : DLog(Coord)[j].doc # NoDoc
      BY <2>1 DEF ListIsDurable, DurableDocs
    <2>3. j # i
      BY <2>2
    <2>4. j \in 1..Len(DLog(Coord)) /\ i \in 1..Len(DLog(Coord)) /\ j < i
      BY <2>0, <2>3
    <2>5. Resolved(s)
      BY <2>0, <2>2, <2>4 DEF Inv, DocumentInv
    <2> QED BY <2>5, FrozenIsWorking DEF Resolved
  <1> QED BY <1>1, Invariance, PTL

(* What coordinateCommitTransaction answers, from a coordinator's decision or from the local
   participant after the coordinator is gone, is what every participant does. *)
THEOREM AnswersHold == Spec => []AnswersAgree
  <1>1. Inv => AnswersAgree
    <2> SUFFICES ASSUME Inv PROVE AnswersAgree
      OBVIOUS
    <2>0. Coord \in Shards
      BY ShardAssumption
    <2>1. ASSUME NEW kind \in {"commit", "abort"}, NEW t \in 1..top[Coord], co[t].result = kind
          PROVE  \E d \in DurableDocs : d.kind = kind
      <3>1. t \in Terms(Coord)
        BY DEF Terms
      <3> QED BY <2>1, <3>1, CoFacts
    <2>2. Told("commit") => \E d \in DurableDocs : d.kind = "commit"
      BY <2>1, SentIsDurable DEF Told, Inv, AnswerInv
    <2>3. Told("abort") => (\E d \in DurableDocs : d.kind = "abort") \/ Frozen(Coord)
      BY <2>1, DocFacts DEF Told, Inv, AnswerInv
    <2>4. (\E d \in DurableDocs : d.kind = "abort") => AbortDecision \in DurableDocs
      <3>1. ASSUME NEW d \in DurableDocs, d.kind = "abort" PROVE d = AbortDecision
        <4>1. PICK i \in 1..DCi(Coord) : DLog(Coord)[i].doc = d
          BY DEF DurableDocs
        <4>2. /\ top[Coord] \in 1..MaxTerm[Coord] /\ DLog(Coord) = Log(Coord, top[Coord])
              /\ i \in 1..Len(DLog(Coord))
          BY <2>0, DurableFacts
        <4>3. DLog(Coord)[i] \in Entries
          BY <2>0, <4>2, NodeFacts DEF Inv, TypeInv
        <4>4. d \in Docs
          BY <4>1, <4>3 DEF Entries
        <4> QED BY <3>1, <4>4, DocFacts
      <3> QED BY <3>1
    <2>5. Told("commit") /\ Told("abort") => FALSE
      BY <2>0, <2>2, <2>3, <2>4, CommitSettles
    <2>6. ASSUME Told("abort"), NEW s \in Shards PROVE ~Logged(s, "committed")
      BY <2>0, <2>3, <2>4, <2>6, SentIsDurable, CommitSettles
    <2>7. ASSUME Told("commit"), NEW s \in Shards
          PROVE  Durable(s).part.kind \in {"prepared", "committed"} /\ ~Logged(s, "aborted")
      BY <2>2, <2>7, CommitSettles
    <2> QED BY <2>5, <2>6, <2>7 DEF AnswersAgree
  <1> QED BY <1>1, Invariance, PTL

-----------------------------------------------------------------------------
(* The two-phase commit of TransactionCoordinator implements AtomicCommit: *)
(* for what is majority committed on each shard and the decision that was  *)
(* sent, every step is a step of AtomicCommit or none.                     *)

(* The kinds of what a participant has durably logged are states of        *)
(* AtomicCommit, and go with the outcome that was sent.                    *)
StateView ==
    \A s \in Shards :
        /\ Durable(s).part.kind \in {"none", "prepared", "committed", "aborted"}
        /\ DurableState(s) \in {"working", "prepared", "committed", "aborted"}
        /\ DurableState(s) = "working" <=> Durable(s).part.kind = "none"
        /\ \A k \in {"prepared", "committed", "aborted"} :
             DurableState(s) = k <=> Durable(s).part.kind = k
        /\ Durable(s).part.kind = "committed" => CommitIsSent
        /\ Durable(s).part.kind = "aborted" => AbortDecision \in net
        /\ CommitIsSent => Durable(s).part.kind # "none"
OutcomeView ==
    /\ SentOutcome \in {"none", "commit", "abort"}
    /\ SentOutcome = "commit" <=> CommitIsSent
    /\ SentOutcome = "abort" <=> AbortDecision \in net
    /\ ~(CommitIsSent /\ AbortDecision \in net)

LEMMA ViewFacts == Inv => StateView /\ OutcomeView
  <1> SUFFICES ASSUME Inv PROVE StateView /\ OutcomeView
    OBVIOUS
  <1>1. StateView
    <2>1. ASSUME NEW s \in Shards
          PROVE  /\ top[s] \in Terms(s) /\ DLog(s) = Log(s, top[s])
                 /\ DCi(s) \in 1..Len(DLog(s)) /\ Durable(s) = DLog(s)[DCi(s)]
                 /\ Durable(s).part.kind \in {"none", "prepared", "committed", "aborted"}
      BY DurableFacts
    <2>2. \A s \in Shards : /\ Durable(s).part.kind = "committed" => CommitIsSent
                            /\ Durable(s).part.kind = "aborted" => AbortDecision \in net
      BY <2>1 DEF Inv, ParticipantInv
    <2>3. \A s \in Shards : CommitIsSent => Durable(s).part.kind # "none"
      BY SentIsDurable, CommitSettles
    <2> QED BY <2>1, <2>2, <2>3 DEF StateView, DurableState
  <1>2. ~(CommitIsSent /\ AbortDecision \in net)
    BY SentIsDurable, CommitSettles
  <1>3. OutcomeView
    BY <1>2 DEF OutcomeView, SentOutcome, CommitIsSent
  <1> QED BY <1>1, <1>3

LEMMA NextViewFacts == (Inv => StateView /\ OutcomeView)'
  BY ViewFacts, PTL

(* Only the commit point of one shard moves what is durable, and only there. *)
LEMMA OneShardMoves ==
    ASSUME Inv, NodeStep
    PROVE  \/ \A r \in Shards : Durable(r)' = Durable(r)
           \/ \E s \in Shards : \A r \in Shards : r # s => Durable(r)' = Durable(r)
  <1>0. \A r \in Shards : /\ top[r] \in 1..MaxTerm[r] /\ DCi(r) \in 1..DCi(r)
                          /\ Durable(r) = DLog(r)[DCi(r)]
    BY DurableFacts
  <1>1. \A r \in Shards : \A i \in 1..DCi(r) : DLog(r)'[i] = DLog(r)[i]
    BY DurableGrows DEF Inv, TypeInv
  <1>2. \A r \in Shards : Durable(r)' = DLog(r)'[DCi(r)']
    BY DEF Durable, Majority, DLog, DCi
  <1>3. \A r \in Shards : DCi(r)' = DCi(r) => Durable(r)' = Durable(r)
    BY <1>0, <1>1, <1>2
  <1>4. ASSUME NEW r \in Shards, top'[r] = top[r], Kept(r, top[r]) PROVE DCi(r)' = DCi(r)
    BY <1>4 DEF Kept, DCi
  <1>5. CASE Keeps
    BY <1>0, <1>3, <1>4, <1>5 DEF Keeps
  <1>6. ASSUME NEW s \in Shards, NEW t \in Terms(s), NEW e \in Entries, Writes(s, t, e)
        PROVE  \A r \in Shards : r # s => DCi(r)' = DCi(r)
    BY <1>0, <1>4, <1>6 DEF Writes
  <1>7. ASSUME NEW s \in Shards, Moves(s, top[s])
        PROVE  \A r \in Shards : r # s => DCi(r)' = DCi(r)
    BY <1>0, <1>4, <1>7 DEF Moves
  <1>8. ASSUME NEW s \in Shards, NEW u \in Terms(s), NEW k \in Nat, Rises(s, top[s] + 1, u, k)
        PROVE  \A r \in Shards : r # s => DCi(r)' = DCi(r)
    <2>1. \A r \in Shards : r # s => top'[r] = top[r] /\ Kept(r, top[r])
      BY <1>0, <1>8 DEF Rises, Inv, TypeInv, TopTypes
    <2> QED BY <1>4, <2>1
  <1> QED BY <1>3, <1>5, <1>6, <1>7, <1>8 DEF NodeStep

(* A step that sends nothing. *)
LEMMA NodesRefine ==
    ASSUME Inv, Inv', NodeStep, net' = net
    PROVE  [Abstract!Next]_<<[s \in Shards |-> DurableState(s)], SentOutcome>>
  <1>1. SentOutcome' = SentOutcome /\ (CommitIsSent' <=> CommitIsSent)
    BY DEF SentOutcome, CommitIsSent
  <1>2. \A r \in Shards : Durable(r)' = Durable(r) => DurableState(r)' = DurableState(r)
    BY DEF DurableState
  <1>3. CASE \A r \in Shards : DurableState(r)' = DurableState(r)
    BY <1>1, <1>3
  <1>4. ASSUME NEW s \in Shards, \A r \in Shards : r # s => Durable(r)' = Durable(r),
               DurableState(s)' # DurableState(s)
        PROVE  Abstract!Next
    <2>1. [r \in Shards |-> DurableState(r)]'
            = [[r \in Shards |-> DurableState(r)] EXCEPT ![s] = DurableState(s)']
      BY <1>2, <1>4
    <2>2. /\ SentOutcome = "commit" <=> CommitIsSent
          /\ SentOutcome = "abort" <=> AbortDecision \in net
          /\ ~(CommitIsSent /\ AbortDecision \in net)
      BY ViewFacts DEF OutcomeView
    <2>3. /\ DurableState(s) \in {"working", "prepared", "committed", "aborted"}
          /\ Durable(s).part.kind \in {"none", "prepared", "committed", "aborted"}
          /\ DurableState(s) = "working" <=> Durable(s).part.kind = "none"
          /\ \A k \in {"prepared", "committed", "aborted"} :
               DurableState(s) = k <=> Durable(s).part.kind = k
          /\ CommitIsSent => Durable(s).part.kind # "none"
      BY ViewFacts DEF StateView
    <2>4. /\ DurableState(s)' \in {"working", "prepared", "committed", "aborted"}
          /\ DurableState(s)' = "working" <=> Durable(s)'.part.kind = "none"
          /\ \A k \in {"prepared", "committed", "aborted"} :
               DurableState(s)' = k <=> Durable(s)'.part.kind = k
          /\ Durable(s)'.part.kind = "committed" => CommitIsSent'
          /\ Durable(s)'.part.kind = "aborted" => AbortDecision \in net
      BY NextViewFacts DEF StateView
    <2>5. Durable(s)' = Durable(s) \/ PartFollows(Durable(s), Durable(s)')
      BY DurableFollows DEF Follows, Inv, TypeInv
    <2>6. Durable(s)' # Durable(s)
      BY <1>2, <1>4
    <2>7. /\ DurableState(s) \notin {"committed", "aborted"}
          /\ DurableState(s)' # "working"
      BY <1>4, <2>3, <2>4, <2>5, <2>6 DEF PartFollows, DurableState
    <2>8. CASE DurableState(s)' = "prepared"
      <3>1. DurableState(s) = "working" /\ SentOutcome # "commit"
        BY <1>4, <2>2, <2>3, <2>7, <2>8
      <3>2. Abstract!Prepare(s)
        BY <1>1, <2>1, <2>8, <3>1 DEF Abstract!Prepare
      <3> QED BY <3>2 DEF Abstract!Next
    <2>9. CASE DurableState(s)' = "committed"
      <3>1. CommitIsSent
        BY <1>1, <2>4, <2>9
      <3>2. DurableState(s) = "prepared" /\ SentOutcome = "commit"
        BY <2>2, <2>3, <2>7, <3>1
      <3>3. Abstract!Commit(s)
        BY <1>1, <2>1, <2>9, <3>2 DEF Abstract!Commit
      <3> QED BY <3>3 DEF Abstract!Next
    <2>10. CASE DurableState(s)' = "aborted"
      <3>1. AbortDecision \in net
        BY <2>4, <2>10
      <3>2. DurableState(s) \in {"working", "prepared"} /\ SentOutcome = "abort"
        BY <2>2, <2>3, <2>7, <3>1
      <3>3. Abstract!Abort(s)
        BY <1>1, <2>1, <2>10, <3>2 DEF Abstract!Abort
      <3> QED BY <3>3 DEF Abstract!Next
    <2> QED BY <2>4, <2>7, <2>8, <2>9, <2>10
  <1> QED BY <1>2, <1>3, <1>4, OneShardMoves

(* A step that sends a command and leaves the nodes alone. *)
LEMMA CommandRefines ==
    ASSUME Inv, Inv', UNCHANGED <<top, node>>, NEW d, d = PrepareCommand \/ d \in Decisions,
           net' = net \cup {d}
    PROVE  [Abstract!Next]_<<[s \in Shards |-> DurableState(s)], SentOutcome>>
  <1>1. \A r \in Shards : DurableState(r)' = DurableState(r) /\ Durable(r)' = Durable(r)
    BY DEF DurableState, Durable, Majority
  <1>2. [r \in Shards |-> DurableState(r)]' = [r \in Shards |-> DurableState(r)]
    BY <1>1
  <1>3. /\ SentOutcome \in {"none", "commit", "abort"}
        /\ SentOutcome = "commit" <=> CommitIsSent
        /\ SentOutcome = "abort" <=> AbortDecision \in net
    BY ViewFacts DEF OutcomeView
  <1>4. /\ SentOutcome' \in {"none", "commit", "abort"}
        /\ SentOutcome' = "commit" <=> CommitIsSent'
        /\ SentOutcome' = "abort" <=> AbortDecision \in net'
        /\ ~(CommitIsSent' /\ AbortDecision \in net')
    BY NextViewFacts DEF OutcomeView
  <1>5. /\ CommitIsSent => CommitIsSent'
        /\ AbortDecision \in net => AbortDecision \in net'
        /\ CommitIsSent' => CommitIsSent \/ d.kind = "commit"
    BY DEF CommitIsSent
  <1>6. CASE SentOutcome' = SentOutcome
    BY <1>2, <1>6
  <1>7. CASE SentOutcome' # SentOutcome
    <2>1. SentOutcome = "none" /\ SentOutcome' \in {"commit", "abort"}
      <3>1. CASE SentOutcome = "commit"
        BY <1>3, <1>4, <1>5, <1>7, <3>1
      <3>2. CASE SentOutcome = "abort"
        BY <1>3, <1>4, <1>5, <1>7, <3>2
      <3>3. CASE SentOutcome = "none"
        BY <1>4, <1>7, <3>3
      <3> QED BY <1>3, <3>1, <3>2, <3>3
    <2>2. ASSUME SentOutcome' = "commit", NEW s \in Shards PROVE DurableState(s) = "prepared"
      <3>1. /\ Durable(s).part.kind \in {"none", "prepared", "committed", "aborted"}
            /\ DurableState(s) = "prepared" <=> Durable(s).part.kind = "prepared"
            /\ Durable(s).part.kind = "committed" => CommitIsSent
        BY ViewFacts DEF StateView
      <3>2. /\ CommitIsSent' => Durable(s)'.part.kind # "none"
            /\ Durable(s)'.part.kind = "aborted" => AbortDecision \in net'
        BY NextViewFacts DEF StateView
      <3>3. CommitIsSent' /\ AbortDecision \notin net' /\ ~CommitIsSent
        BY <1>3, <1>4, <2>1, <2>2
      <3> QED BY <1>1, <3>1, <3>2, <3>3
    <2>3. PICK o \in {"commit", "abort"} : o = SentOutcome'
      BY <2>1
    <2>4. Abstract!Decide(o)
      BY <1>2, <2>1, <2>2, <2>3 DEF Abstract!Decide
    <2> QED BY <2>3, <2>4 DEF Abstract!Next
  <1> QED BY <1>6, <1>7

-----------------------------------------------------------------------------
(* Every step is one of the two kinds. *)

Simulated == [Abstract!Next]_<<[s \in Shards |-> DurableState(s)], SentOutcome>>

(* A step that leaves the nodes alone, or only their memory, and sends nothing. *)
LEMMA KeepsSimulated ==
    ASSUME Inv, Inv', net' = net, top' = top /\ (UNCHANGED node \/ Keeps)
    PROVE  Simulated
  <1>1. NodeStep
    BY DEF NodeStep, Keeps, Kept
  <1> QED BY <1>1, NodesRefine DEF Simulated

LEMMA CoordinatorSimulated ==
    ASSUME Inv, Inv', NEW t \in Terms(Coord), CoordinatorStep(t)
    PROVE  Simulated
  <1>0. /\ Coord \in Shards /\ t \in 1..MaxTerm[Coord] /\ NodeTypes
        /\ co[t] \in Coordinators /\ CoKnows(co[t], t)
    BY CoFacts DEF Inv, TypeInv
  <1>1. CASE \/ runCommit(t) \/ cancelIfCommitNotYetStarted(t) \/ deadline(t)
             \/ waitForMajorityFails(t) \/ prepareInterrupted(t) \/ interrupted(t)
             \/ recoverCoordinators(t) \/ recoveryFails(t)
             \/ \E s \in Shards : registerVote(t, s)
    <2>1. UNCHANGED <<top, node, net>>
      BY <1>1 DEF runCommit, cancelIfCommitNotYetStarted, deadline, waitForMajorityFails,
                  prepareInterrupted, interrupted, recoverCoordinators, recoveryFails, registerVote
    <2> QED BY <2>1, KeepsSimulated
  <1>2. CASE \/ persistParticipants(t) \/ persistParticipantsInterrupted(t)
             \/ persistDecision(t) \/ deleteCoordinatorDoc(t)
    <2>1. NodeStep
      BY <1>2, PersistParticipantsStep, PersistParticipantsInterruptedStep, PersistDecisionStep,
         DeleteCoordinatorDocStep
    <2>2. net' = net
      BY <1>2 DEF persistParticipants, persistParticipantsInterrupted, persistDecision,
                  deleteCoordinatorDoc
    <2> QED BY <2>1, <2>2, NodesRefine DEF Simulated
  <1>3. CASE participantsDurable(t)
    <2>1. UNCHANGED <<top, node>> /\ (net' = net \/ net' = net \cup {PrepareCommand})
      BY <1>3 DEF participantsDurable
    <2> QED BY <2>1, KeepsSimulated, CommandRefines DEF Simulated
  <1>4. CASE decisionDurable(t)
    <2>1. co[t].decision \in Decisions
      BY <1>0, <1>4 DEF decisionDurable, CoKnows
    <2>2. UNCHANGED <<top, node>> /\ (net' = net \/ net' = net \cup {co[t].decision})
      BY <1>4 DEF decisionDurable
    <2>3. PICK d \in Decisions : d = co[t].decision
      BY <2>1
    <2> QED BY <2>2, <2>3, KeepsSimulated, CommandRefines DEF Simulated
  <1>5. CASE recoverFromParticipant(t)
    <2>1. /\ SetNode(Coord, t, [node[Coord][t] EXCEPT !.open = FALSE])
          /\ top' = top /\ net' = net
      BY <1>5 DEF recoverFromParticipant
    <2>2. Keeps
      BY <1>0, <2>1, DropStep
    <2> QED BY <2>1, <2>2, KeepsSimulated
  <1>6. CASE startStepDownAttempt(t)
    <2>1. /\ SetNode(Coord, t, [node[Coord][t] EXCEPT !.mode = "attempting", !.open = FALSE])
          /\ top' = top /\ net' = net
      BY <1>6 DEF startStepDownAttempt
    <2>2. Keeps
      BY <1>0, <2>1, MemoryStep
    <2> QED BY <2>1, <2>2, KeepsSimulated
  <1>7. CASE stepDownAttemptFails(t)
    <2>1. node[Coord][t] \in Nodes
      BY <1>0 DEF NodeTypes
    <2>2. PICK open \in BOOLEAN : open = node[Coord][t].open
      BY <2>1 DEF Nodes
    <2>3. [node[Coord][t] EXCEPT !.mode = "primary"]
            = [node[Coord][t] EXCEPT !.mode = "primary", !.open = open]
      BY <2>1, <2>2 DEF Nodes
    <2>4. /\ SetNode(Coord, t, [node[Coord][t] EXCEPT !.mode = "primary", !.open = open])
          /\ top' = top /\ net' = net
      BY <1>7, <2>3 DEF stepDownAttemptFails
    <2>5. Keeps
      BY <1>0, <2>2, <2>4, MemoryStep
    <2> QED BY <2>4, <2>5, KeepsSimulated
  <1>8. ASSUME NEW s \in Shards, registerAck(t, s) PROVE Simulated
    <2>1. top' = top /\ net' = net
      BY <1>8 DEF registerAck
    <2>2. PICK u \in Targets(s, t) : \/ UNCHANGED node
                                     \/ SetNode(s, u, [node[s][u] EXCEPT !.open = FALSE])
      BY <1>8 DEF registerAck
    <2>3. u \in 1..MaxTerm[s]
      BY <1>0, TermFacts DEF Targets, Terms, Inv, TypeInv
    <2>4. UNCHANGED node \/ Keeps
      BY <1>0, <2>1, <2>2, <2>3, DropStep
    <2> QED BY <2>1, <2>4, KeepsSimulated
  <1> QED BY <1>1, <1>2, <1>3, <1>4, <1>5, <1>6, <1>7, <1>8 DEF CoordinatorStep

LEMMA ShardSimulated ==
    ASSUME Inv, Inv', NEW s \in Shards,
           \/ Replicate(s) \/ stepUp(s)
           \/ \E t \in Terms(s) : ParticipantStep(s, t)
    PROVE  Simulated
  <1>1. CASE Replicate(s) \/ stepUp(s)
    <2>1. NodeStep
      BY <1>1, ReplicateStep, StepUpStep
    <2>2. net' = net
      BY <1>1 DEF Replicate, stepUp
    <2> QED BY <2>1, <2>2, NodesRefine DEF Simulated
  <1>2. ASSUME NEW t \in Terms(s), ParticipantStep(s, t) PROVE Simulated
    <2>0. t \in 1..MaxTerm[s] /\ NodeTypes
      BY TermFacts DEF Inv, TypeInv
    <2>1. CASE \/ prepareTransaction(s, t) \/ commitPreparedTransaction(s, t)
               \/ abortPreparedTransaction(s, t)
      <3>1. NodeStep
        BY <2>1, PrepareStep, OutcomeStep
      <3>2. net' = net
        BY <2>1 DEF prepareTransaction, commitPreparedTransaction, abortPreparedTransaction
      <3> QED BY <3>1, <3>2, NodesRefine DEF Simulated
    <2>2. CASE abortUnprepared(s, t)
      <3>1. SetNode(s, t, [node[s][t] EXCEPT !.open = FALSE]) /\ top' = top /\ net' = net
        BY <2>2 DEF abortUnprepared
      <3>2. Keeps
        BY <2>0, <3>1, DropStep
      <3> QED BY <3>1, <3>2, KeepsSimulated
    <2>3. CASE stepDown(s, t)
      <3>1. /\ SetNode(s, t, [node[s][t] EXCEPT !.mode = "down", !.open = FALSE])
            /\ top' = top /\ net' = net
        BY <2>3 DEF stepDown
      <3>2. Keeps
        BY <2>0, <3>1, MemoryStep
      <3> QED BY <3>1, <3>2, KeepsSimulated
    <2> QED BY <1>2, <2>1, <2>2, <2>3 DEF ParticipantStep
  <1> QED BY <1>1, <1>2

(* Two-phase commit is an atomic commit.  The coordinators of successive    *)
(* primaries, old primaries that go on, entries that roll back and commands *)
(* that arrive late or twice leave one outcome, sent only when it is        *)
(* durable, which is commit only if every participant has durably prepared, *)
(* and which alone moves a participant out of the prepared state.           *)
THEOREM Refinement == Spec => ImplementsAtomicCommit
  <1>1. Init => Abstract!Init
    <2> SUFFICES ASSUME Init PROVE Abstract!Init
      OBVIOUS
    <2>1. \A s \in Shards : Durable(s) = FirstEntry
      <3> SUFFICES ASSUME NEW s \in Shards PROVE Durable(s) = FirstEntry
        OBVIOUS
      <3>1. top[s] = 1 /\ 1 \in 1..MaxTerm[s]
        BY TermAssumption DEF Init
      <3>2. node[s][1].log = <<FirstEntry>> /\ node[s][1].ci = 1
        BY <3>1 DEF Init
      <3> QED BY <3>1, <3>2 DEF Durable, Majority
    <2>2. FirstEntry.part.kind = "none"
      BY DEF FirstEntry, Entry, NoRecord
    <2>3. \A s \in Shards : DurableState(s) = "working"
      BY <2>1, <2>2 DEF DurableState
    <2>4. SentOutcome = "none"
      BY DEF SentOutcome, Init
    <2> QED BY <2>3, <2>4 DEF Abstract!Init
  <1>2. Inv /\ Inv' /\ [Next]_vars => Simulated
    <2> SUFFICES ASSUME Inv, Inv', [Next]_vars PROVE Simulated
      OBVIOUS
    <2>1. CASE UNCHANGED vars
      BY <2>1, KeepsSimulated DEF vars
    <2>2. CASE Next
      BY <2>2, CoordinatorSimulated, ShardSimulated DEF Next, Terms
    <2> QED BY <2>1, <2>2
  <1>3. Spec => []Inv
    BY Invariance
  <1> QED BY <1>1, <1>2, <1>3, PTL DEF Spec, ImplementsAtomicCommit, Abstract!Spec, Simulated

=============================================================================
