------------------------- MODULE ReplicationProofs -------------------------
(***************************************************************************)
(* Theorems about Replication, for any number of members, terms, entries,  *)
(* batch sizes and restarts.                                               *)
(***************************************************************************)
EXTENDS Replication, FiniteSetTheorems, SequenceTheorems, WellFoundedInduction, TLAPS

Terms == 1..MaxTerm
Batches == [entries : Seq(Terms), commit : OpTimes, term : 0..MaxTerm]
Roles == {"Secondary"} \cup Leading \cup RollingBack

-----------------------------------------------------------------------------
(* Types, by the parts of the state that actions leave alone together. *)

ElectionType ==
    /\ term \in [Server -> 0..MaxTerm]
    /\ lastVote \in [Server -> 0..MaxTerm]
    /\ role \in [Server -> Roles]
    /\ pendingTerm \in [Server -> 0..MaxTerm]

LogType ==
    /\ log \in [Server -> Seq(Terms)]
    /\ \A n \in Server : Len(log[n]) <= MaxLog

AppliedType ==
    /\ lastApplied \in [Server -> OpTimes]
    /\ lastDurable \in [Server -> OpTimes]

CommitType ==
    /\ lastCommitted \in [Server -> OpTimes]
    /\ published \subseteq OpTimes

StableType ==
    /\ stable \in [Server -> OpTimes]
    /\ candidates \in [Server -> SUBSET OpTimes]
    /\ waiting \in [Server -> SUBSET OpTimes]

PrimaryType ==
    /\ firstOp \in [Server -> OpTimes \cup {Infinity}]
    /\ reports \in [Server -> [Server -> OpTimes]]

SyncType ==
    /\ batch \in [Server -> Batches \cup {NoBatch}]
    /\ source \in [Server -> Server \cup {None}]

TypeInv ==
    /\ ElectionType
    /\ LogType
    /\ AppliedType
    /\ CommitType
    /\ StableType
    /\ PrimaryType
    /\ SyncType
    /\ restarts \in 0..MaxRestarts

\* What the role, the term, the vote and the batch of a member have to do with each other.
\* A batch of a new primary is emptied, or dropped, before the first entry of the term.
MemberInv(n) ==
    /\ isPrimary(n) => term[n] >= 1 /\ lastVote[n] = term[n]
    /\ lastVote[n] <= term[n]
    /\ firstOp[n] # Infinity => role[n] \in {"Master", "SteppingDown"}
    /\ batch[n] # NoBatch =>
        /\ Len(log[n]) + Len(batch[n].entries) <= MaxLog
        /\ role[n] \notin RollingBack
        /\ firstOp[n] # Infinity => batch[n].entries = <<>>

MembersInv == \A n \in Server : MemberInv(n)

-----------------------------------------------------------------------------
(* Optimes. *)

LEMMA OpTimeFacts ==
    /\ Null \in OpTimes
    /\ \A a \in OpTimes : /\ a.t \in 0..MaxTerm /\ a.i \in 0..MaxLog
                          /\ a.t \in Nat /\ a.i \in Nat
                          /\ a = [t |-> a.t, i |-> a.i]
  BY BoundAssumption DEF OpTimes, Null, OpTime

(* Optimes are in a total order. *)
LEMMA OpTimeOrder ==
    /\ \A a, b \in OpTimes : AtMost(a, b) \/ AtMost(b, a)
    /\ \A a, b \in OpTimes : Before(a, b) => ~AtMost(b, a)
    /\ \A a, b \in OpTimes : Before(a, b) <=> AtMost(a, b) /\ a # b
    /\ \A a, b, c \in OpTimes : AtMost(a, b) /\ AtMost(b, c) => AtMost(a, c)
    /\ \A a \in OpTimes : AtMost(a, a) /\ AtMost(Null, a)
  <1>1. \A a, b \in OpTimes : a.t = b.t /\ a.i = b.i => a = b
    BY OpTimeFacts
  <1>2. \A a \in OpTimes : a.t = 0 => a = Null
    BY BoundAssumption DEF OpTimes, Null, OpTime
  <1>3. Null.t = 0 /\ Null.i = 0
    BY DEF Null, OpTime
  <1> QED BY <1>1, <1>2, <1>3, OpTimeFacts DEF AtMost, Before

LEMMA MinMaxType ==
    ASSUME NEW a \in OpTimes, NEW b \in OpTimes
    PROVE  MinOp(a, b) \in OpTimes /\ MaxOp(a, b) \in OpTimes
  BY DEF MinOp, MaxOp

(* Every nonempty set of optimes has a least and a latest element: there are finitely many. *)
Rank(a) == a.t * (MaxLog + 1) + a.i

LEMMA RankFacts ==
    /\ \A a \in OpTimes : Rank(a) \in Nat /\ Rank(a) <= (MaxTerm + 1) * (MaxLog + 1)
    /\ \A a, b \in OpTimes : Before(a, b) => Rank(a) < Rank(b)
  <1> DEFINE W == MaxLog + 1
  <1>1. W \in Nat /\ MaxTerm \in Nat /\ W = MaxLog + 1 /\ MaxLog \in Nat
    BY BoundAssumption
  <1> HIDE DEF W
  <1>2. \A x, y \in Nat : x < y => x * W + W <= y * W
    <2>1. \A x, d \in Nat : (x + 1 + d) * W = x * W + W + d * W /\ d * W \in Nat
      BY <1>1
    <2>2. SUFFICES ASSUME NEW x \in Nat, NEW y \in Nat, x < y
                   PROVE  x * W + W <= y * W
      OBVIOUS
    <2>3. y - x - 1 \in Nat /\ y = x + 1 + (y - x - 1)
      BY <2>2
    <2>4. y * W = x * W + W + (y - x - 1) * W /\ (y - x - 1) * W \in Nat
      BY <2>1, <2>3
    <2>5. x * W \in Nat /\ y * W \in Nat
      BY <1>1
    <2> QED BY <1>1, <2>4, <2>5
  <1>3. \A x \in Nat : x * W \in Nat
    BY <1>1
  <1>4. ASSUME NEW a \in OpTimes
        PROVE  /\ Rank(a) \in Nat /\ Rank(a) = a.t * W + a.i
               /\ Rank(a) <= (MaxTerm + 1) * W
    <2>1. a.t \in Nat /\ a.i \in Nat /\ a.t < MaxTerm + 1 /\ a.i < W /\ MaxTerm + 1 \in Nat
      BY <1>1, OpTimeFacts
    <2>2. a.t * W \in Nat /\ a.t * W + W <= (MaxTerm + 1) * W /\ (MaxTerm + 1) * W \in Nat
      BY <1>2, <1>3, <2>1
    <2>3. Rank(a) = a.t * W + a.i
      BY DEF Rank, W
    <2> QED BY <1>1, <2>1, <2>2, <2>3
  <1>5. ASSUME NEW a \in OpTimes, NEW b \in OpTimes, Before(a, b)
        PROVE  Rank(a) < Rank(b)
    <2>1. /\ a.t \in Nat /\ a.i \in Nat /\ b.t \in Nat /\ b.i \in Nat /\ a.i < W
          /\ a.t < b.t \/ (a.t = b.t /\ a.i < b.i)
      BY <1>1, <1>5, OpTimeFacts DEF Before
    <2>2. Rank(a) = a.t * W + a.i /\ Rank(b) = b.t * W + b.i
      BY <1>4
    <2>3. a.t * W \in Nat /\ b.t * W \in Nat
      BY <1>3, <2>1
    <2>4. CASE a.t < b.t
      <3>1. a.t * W + W <= b.t * W
        BY <1>2, <2>1, <2>4
      <3> QED BY <1>1, <2>1, <2>2, <2>3, <3>1
    <2>5. CASE a.t = b.t /\ a.i < b.i
      BY <2>1, <2>2, <2>3, <2>5
    <2> QED BY <2>1, <2>4, <2>5
  <1> QED BY <1>4, <1>5 DEF W

LEMMA LeastExists ==
    ASSUME NEW S, S \subseteq OpTimes, S # {}
    PROVE  \E a \in S : \A b \in S : AtMost(a, b)
  <1> DEFINE T == {Rank(a) : a \in S}
  <1>1. T \subseteq Nat /\ T # {}
    BY RankFacts
  <1> DEFINE R == OpToRel(<, Nat)
  <1>2. IsWellFoundedOn(R, Nat)
    BY NatLessThanWellFounded, Zenon
  <1>3. \A x, y \in Nat : x < y => <<x, y>> \in R
    BY DEF OpToRel
  <1> HIDE DEF R
  <1>4. PICK x \in T : \A y \in T : ~(<<y, x>> \in R)
    BY <1>1, <1>2, WFMin
  <1>5. PICK a \in S : x = Rank(a)
    BY <1>4
  <1>6. \A b \in S : ~(Rank(b) < Rank(a))
    BY <1>1, <1>3, <1>4, <1>5
  <1>7. \A b \in S : ~Before(b, a)
    BY <1>6, RankFacts
  <1> QED BY <1>7, OpTimeOrder

LEMMA LatestFacts ==
    ASSUME NEW S, S \subseteq OpTimes, S # {}
    PROVE  /\ Latest(S) \in S
           /\ \A b \in S : AtMost(b, Latest(S))
           /\ Latest(S) \in OpTimes
  <1> DEFINE B == (MaxTerm + 1) * (MaxLog + 1)
  <1> DEFINE T == {B - Rank(a) : a \in S}
  <1>0. B \in Nat
    BY BoundAssumption
  <1>1. T \subseteq Nat /\ T # {}
    <2>1. \A a \in S : Rank(a) \in Nat /\ Rank(a) <= B
      BY RankFacts
    <2> HIDE DEF B
    <2> QED BY <1>0, <2>1
  <1> DEFINE R == OpToRel(<, Nat)
  <1>2. IsWellFoundedOn(R, Nat)
    BY NatLessThanWellFounded, Zenon
  <1>3. \A x, y \in Nat : x < y => <<x, y>> \in R
    BY DEF OpToRel
  <1> HIDE DEF R
  <1>4. PICK x \in T : \A y \in T : ~(<<y, x>> \in R)
    BY <1>1, <1>2, WFMin
  <1>5. PICK a \in S : x = B - Rank(a)
    BY <1>4
  <1>6. \A b \in S : ~(B - Rank(b) < B - Rank(a))
    BY <1>1, <1>3, <1>4, <1>5
  <1>7. \A b \in S : ~(Rank(a) < Rank(b))
    <2>1. \A b \in S : Rank(b) \in Nat
      BY RankFacts
    <2> HIDE DEF B
    <2> QED BY <1>0, <1>6, <2>1
  <1>8. \A b \in S : ~Before(a, b)
    BY <1>7, RankFacts
  <1>9. \A b \in S : AtMost(b, a)
    BY <1>8, OpTimeOrder
  <1> QED BY <1>9 DEF Latest

-----------------------------------------------------------------------------
(* Oplogs. *)

LEMMA PrefixOf ==
    ASSUME NEW S, NEW s \in Seq(S), NEW k \in 0..Len(s)
    PROVE  /\ SubSeq(s, 1, k) \in Seq(S)
           /\ Len(SubSeq(s, 1, k)) = k
           /\ \A i \in 1..k : SubSeq(s, 1, k)[i] = s[i]
  OBVIOUS

LEMMA LogFacts ==
    ASSUME LogType, NEW n \in Server
    PROVE  /\ log[n] \in Seq(Terms) /\ Len(log[n]) \in Nat /\ Len(log[n]) <= MaxLog
           /\ DOMAIN log[n] = 1..Len(log[n])
           /\ \A i \in 1..Len(log[n]) : log[n][i] \in Terms /\ log[n][i] \in Nat
  <1>1. log[n] \in Seq(Terms) /\ Len(log[n]) <= MaxLog
    BY DEF LogType
  <1>2. Len(log[n]) \in Nat /\ DOMAIN log[n] = 1..Len(log[n])
    BY <1>1, LenProperties
  <1>3. \A i \in 1..Len(log[n]) : log[n][i] \in Terms
    BY <1>1, ElementOfSeq
  <1> QED BY <1>1, <1>2, <1>3, BoundAssumption DEF Terms

LEMMA OpAtType ==
    ASSUME NEW l \in Seq(Terms), Len(l) <= MaxLog, NEW i \in 0..Len(l)
    PROVE  /\ OpAt(l, i) \in OpTimes
           /\ OpAt(l, i).i = i
           /\ OpAt(l, i).t = IF i = 0 THEN 0 ELSE l[i]
  <1>1. Len(l) \in Nat
    BY LenProperties
  <1>2. CASE i = 0
    BY <1>2, OpTimeFacts DEF OpAt, OpTime, Null
  <1>3. CASE i # 0
    <2>1. l[i] \in Terms /\ i \in 1..MaxLog
      BY <1>1, <1>3, BoundAssumption, ElementOfSeq
    <2> QED BY <1>3, <2>1 DEF OpAt, OpTime, OpTimes, Terms
  <1> QED BY <1>2, <1>3

LEMMA TopType ==
    ASSUME NEW l \in Seq(Terms), Len(l) <= MaxLog
    PROVE  /\ Top(l) \in OpTimes
           /\ Top(l).i = Len(l)
           /\ Top(l).t = IF Len(l) = 0 THEN 0 ELSE l[Len(l)]
  <1>1. Len(l) \in 0..Len(l)
    BY LenProperties
  <1> QED BY <1>1, OpAtType DEF Top

(* The common point of two oplogs is a position of the first. *)
LEMMA CommonPointFacts ==
    ASSUME LogType, NEW n \in Server, NEW l
    PROVE  commonPoint(log[n], l).i \in 0..Len(log[n])
  <1> DEFINE S == {Null} \cup {OpAt(log[n], i) :
                      i \in {j \in DOMAIN log[n] : Has(l, OpAt(log[n], j))}}
  <1>1. log[n] \in Seq(Terms) /\ Len(log[n]) <= MaxLog /\ DOMAIN log[n] = 1..Len(log[n])
        /\ Len(log[n]) \in Nat
    BY LogFacts
  <1>2. \A i \in DOMAIN log[n] : /\ OpAt(log[n], i) \in OpTimes /\ OpAt(log[n], i).i = i
    BY <1>1, OpAtType
  <1>3. S \subseteq OpTimes /\ S # {}
    BY <1>2, OpTimeFacts
  <1>4. Latest(S) \in S
    BY <1>3, LatestFacts
  <1>5. Null.i = 0
    BY DEF Null, OpTime
  <1>6. \A x \in S : x.i \in 0..Len(log[n])
    BY <1>1, <1>2, <1>5
  <1> QED BY <1>4, <1>6 DEF commonPoint

LEMMA LargerType ==
    ASSUME NEW a \in 0..MaxTerm, NEW b \in 0..MaxTerm
    PROVE  Larger(a, b) \in 0..MaxTerm /\ Larger(a, b) >= a /\ Larger(a, b) >= b
  BY BoundAssumption DEF Larger

Continues(n, m, b) == \A i \in 1..Len(b.entries) : b.entries[i] = log[m][Len(log[n]) + i]

(* A batch continues the oplog it is fetched for within the oplog of the source. *)
LEMMA BatchFacts ==
    ASSUME LogType, CommitType, ElectionType,
           NEW n \in Server, NEW m \in Server, NEW b \in batches(n, m)
    PROVE  /\ b \in Batches
           /\ Len(log[n]) + Len(b.entries) <= Len(log[m])
           /\ Len(log[n]) + Len(b.entries) <= MaxLog
           /\ Continues(n, m, b)
           /\ Has(log[m], Top(log[n]))
           /\ b.commit = lastCommitted[m] /\ b.term = term[m]
           /\ m # n /\ readable(m)
  <1>1. PICK k \in 0..MaxBatch :
          /\ b = [entries |-> SubSeq(log[m], Len(log[n]) + 1, Len(log[n]) + k),
                  commit |-> lastCommitted[m], term |-> term[m]]
          /\ m # n /\ readable(m) /\ Has(log[m], Top(log[n]))
          /\ Len(log[n]) + k <= Len(log[m])
    BY DEF batches
  <1> DEFINE e == SubSeq(log[m], Len(log[n]) + 1, Len(log[n]) + k)
  <1>2. /\ b.entries = e /\ b.commit = lastCommitted[m] /\ b.term = term[m]
        /\ b = [entries |-> e, commit |-> lastCommitted[m], term |-> term[m]]
    BY <1>1
  <1>3. /\ Len(log[n]) \in Nat /\ Len(log[m]) \in Nat /\ k \in Nat
        /\ \A i \in 1..Len(log[m]) : log[m][i] \in Terms
    BY LogFacts, BoundAssumption
  <1>4. \A i \in (Len(log[n]) + 1)..(Len(log[n]) + k) : log[m][i] \in Terms
    BY <1>1, <1>3
  <1>5. /\ e \in Seq(Terms) /\ Len(e) = k
        /\ \A i \in 1..k : e[i] = log[m][Len(log[n]) + i]
    <2>1. /\ e \in Seq(Terms)
          /\ Len(e) = IF Len(log[n]) + 1 <= Len(log[n]) + k
                      THEN Len(log[n]) + k - (Len(log[n]) + 1) + 1 ELSE 0
          /\ \A i \in 1..(Len(log[n]) + k - (Len(log[n]) + 1) + 1) :
                e[i] = log[m][Len(log[n]) + 1 + i - 1]
      <3>1. Len(log[n]) + 1 \in Int /\ Len(log[n]) + k \in Int
        BY <1>3
      <3> HIDE DEF e
      <3> QED BY <1>4, <3>1, SubSeqProperties DEF e
    <2> HIDE DEF e
    <2>2. Len(log[n]) + k - (Len(log[n]) + 1) + 1 = k
      BY <1>3
    <2>3. \A i \in 1..k : Len(log[n]) + 1 + i - 1 = Len(log[n]) + i
      BY <1>3
    <2> QED BY <1>3, <2>1, <2>2, <2>3
  <1> HIDE DEF e
  <1>6. lastCommitted[m] \in OpTimes /\ term[m] \in 0..MaxTerm
    BY DEF CommitType, ElectionType
  <1>7. b \in Batches
    BY <1>2, <1>5, <1>6 DEF Batches
  <1>8. Len(log[m]) <= MaxLog
    BY LogFacts
  <1>9. /\ Len(b.entries) = k
        /\ \A i \in 1..Len(b.entries) : b.entries[i] = log[m][Len(log[n]) + i]
    BY <1>2, <1>5
  <1>10. /\ Len(log[n]) + Len(b.entries) <= Len(log[m])
         /\ Len(log[n]) + Len(b.entries) <= MaxLog
    <2>1. Len(log[n]) + k <= Len(log[m])
      BY <1>1
    <2>2. Len(log[n]) + k <= MaxLog
      BY <1>3, <1>8, <2>1, BoundAssumption
    <2> QED BY <1>9, <2>1, <2>2
  <1>11. m # n /\ readable(m) /\ Has(log[m], Top(log[n]))
    BY <1>1
  <1> QED BY <1>2, <1>7, <1>9, <1>10, <1>11 DEF Continues

-----------------------------------------------------------------------------
(* Types of what the operators of the actions compute. *)

LEMMA AdvancedType ==
    ASSUME AppliedType, CommitType, NEW n \in Server, NEW c \in OpTimes, NEW src
    PROVE  advanced(n, c, src) \in OpTimes
  <1>1. lastApplied[n] \in OpTimes /\ lastCommitted[n] \in OpTimes
    BY DEF AppliedType, CommitType
  <1>2. MinOp(c, lastApplied[n]) \in OpTimes
    BY <1>1, MinMaxType
  <1>3. /\ MaxOp(lastCommitted[n], MinOp(c, lastApplied[n])) \in OpTimes
        /\ MaxOp(lastCommitted[n], c) \in OpTimes
    BY <1>1, <1>2, MinMaxType
  <1> QED BY <1>1, <1>3 DEF advanced

LEMMA SetStableType ==
    ASSUME StableType, NEW n \in Server, NEW c \in OpTimes,
           NEW cands \in SUBSET OpTimes, setStableTimestamp(n, c, cands)
    PROVE  StableType'
  <1> DEFINE eligible == {op \in cands : AtMost(op, c)}
  <1>1. CASE eligible = {}
    BY <1>1 DEF setStableTimestamp, StableType
  <1>2. CASE eligible # {}
    <2>1. Latest(eligible) \in OpTimes
      BY <1>2, LatestFacts
    <2>2. candidates' \in [Server -> SUBSET OpTimes]
      BY <1>2 DEF setStableTimestamp, StableType
    <2>3. stable' \in [Server -> OpTimes]
      BY <1>2, <2>1 DEF setStableTimestamp, StableType
    <2>4. waiting' \in [Server -> SUBSET OpTimes]
      BY <1>2 DEF setStableTimestamp, StableType
    <2> QED BY <2>2, <2>3, <2>4 DEF StableType
  <1> QED BY <1>1, <1>2

LEMMA AdvanceCommitType ==
    ASSUME CommitType, StableType, NEW n \in Server, NEW c \in OpTimes,
           advanceCommitPoint(n, c)
    PROVE  CommitType' /\ StableType'
  <1>1. CommitType'
    BY DEF advanceCommitPoint, CommitType
  <1>2. CASE c = lastCommitted[n]
    BY <1>1, <1>2 DEF advanceCommitPoint, stableVars, StableType
  <1>3. CASE c # lastCommitted[n]
    <2>1. setStableTimestamp(n, c, candidates[n]) /\ candidates[n] \in SUBSET OpTimes
      BY <1>3 DEF advanceCommitPoint, StableType
    <2> QED BY <1>1, <2>1, SetStableType
  <1> QED BY <1>2, <1>3

LEMMA AdvanceApplyType ==
    ASSUME CommitType, StableType, NEW n \in Server, NEW c \in OpTimes, NEW op \in OpTimes,
           advanceAndApply(n, c, op)
    PROVE  CommitType' /\ StableType'
  <1> DEFINE cands == candidates[n] \cup {op}
  <1>1. CommitType'
    BY DEF advanceAndApply, CommitType
  <1>2. cands \in SUBSET OpTimes
    BY DEF StableType
  <1>3. CASE c # lastCommitted[n] \/ AtMost(op, c)
    <2>1. setStableTimestamp(n, c, cands)
      BY <1>3 DEF advanceAndApply
    <2> HIDE DEF cands
    <2> QED BY <1>1, <1>2, <2>1, SetStableType
  <1>4. CASE ~(c # lastCommitted[n] \/ AtMost(op, c))
    BY <1>1, <1>2, <1>4 DEF advanceAndApply, StableType
  <1> QED BY <1>3, <1>4

(* The optimes of a majority include one that the majority has reached. *)
LEMMA MajorityOpFacts ==
    ASSUME NEW n \in Server, NEW md \in [Server -> OpTimes]
    PROVE  /\ majorityOp(md) \in OpTimes
           /\ IsMajority({m \in Server : AtMost(majorityOp(md), md[m])})
           /\ \E k \in Server : majorityOp(md) = md[k]
  <1> DEFINE all == {md[m] : m \in Server}
             good == {op \in all : IsMajority({m \in Server : AtMost(op, md[m])})}
  <1>1. all \subseteq OpTimes /\ all # {}
    OBVIOUS
  <1>2. PICK a \in all : \A b \in all : AtMost(a, b)
    BY <1>1, LeastExists
  <1>3. {m \in Server : AtMost(a, md[m])} = Server
    BY <1>2
  <1>4. IsMajority(Server)
    <2>1. Cardinality(Server) \in Nat /\ Cardinality(Server) # 0
      BY ServerAssumption, FS_CardinalityType, FS_EmptySet
    <2> QED BY <2>1 DEF IsMajority
  <1>5. a \in good
    BY <1>3, <1>4
  <1>6. good \subseteq OpTimes /\ good # {}
    BY <1>1, <1>5
  <1>7. Latest(good) \in good /\ Latest(good) \in OpTimes
    BY <1>6, LatestFacts
  <1> QED BY <1>7 DEF majorityOp

LEMMA UpdateLastCommittedType ==
    ASSUME TypeInv, NEW n \in Server, NEW op \in OpTimes, updateLastCommitted(n, op)
    PROVE  CommitType' /\ StableType'
  <1> DEFINE md == [reports[n] EXCEPT ![n] = op]
  <1>1. md \in [Server -> OpTimes]
    BY DEF TypeInv, PrimaryType
  <1>2. majorityOp(md) \in OpTimes
    <2> HIDE DEF md
    <2> QED BY <1>1, MajorityOpFacts
  <1>3. advanced(n, majorityOp(md), FALSE) \in OpTimes
    BY <1>2, AdvancedType DEF TypeInv
  <1>4. advanceCommitPoint(n, advanced(n, majorityOp(md), FALSE))
    BY DEF updateLastCommitted
  <1> HIDE DEF md
  <1> QED BY <1>3, <1>4, AdvanceCommitType DEF TypeInv

LEMMA UpdateTermType ==
    ASSUME ElectionType, NEW n \in Server, NEW t \in 0..MaxTerm, updateTerm(n, t),
           lastVote' = lastVote
    PROVE  ElectionType'
  <1>1. CASE t <= term[n] /\ UNCHANGED <<term, role, pendingTerm>>
    BY <1>1 DEF ElectionType
  <1>2. CASE /\ role' = [role EXCEPT ![n] = "SteppingDown"]
             /\ pendingTerm' = [pendingTerm EXCEPT ![n] = Larger(@, t)]
             /\ UNCHANGED term
    <2>1. Larger(pendingTerm[n], t) \in 0..MaxTerm
      BY LargerType DEF ElectionType
    <2> QED BY <1>2, <2>1 DEF ElectionType, Roles, Leading
  <1>3. CASE term' = [term EXCEPT ![n] = t] /\ UNCHANGED <<role, pendingTerm>>
    BY <1>3 DEF ElectionType
  <1> QED BY <1>1, <1>2, <1>3 DEF updateTerm

-----------------------------------------------------------------------------
(* The types after a write, a batch and each action. *)

LEMMA WriteFacts ==
    ASSUME TypeInv, NEW n \in Server, term[n] \in Terms, Len(log[n]) < MaxLog, write(n)
    PROVE  /\ LogType' /\ AppliedType' /\ CommitType'
           /\ log' = [log EXCEPT ![n] = Append(log[n], term[n])]
           /\ Top(Append(log[n], term[n])) \in OpTimes
           /\ log'[n] = Append(log[n], term[n])
           /\ stable' \in [Server -> OpTimes] /\ candidates' \in [Server -> SUBSET OpTimes]
           /\ lastApplied' = [lastApplied EXCEPT ![n] = Top(Append(log[n], term[n]))]
  <1> DEFINE l == Append(log[n], term[n])
  <1>1. log[n] \in Seq(Terms) /\ Len(log[n]) \in Nat
    BY LogFacts DEF TypeInv
  <1>2. l \in Seq(Terms) /\ Len(l) = Len(log[n]) + 1
    BY <1>1, AppendProperties
  <1>3. Len(l) <= MaxLog
    BY <1>1, <1>2, BoundAssumption
  <1>4. /\ log' = [log EXCEPT ![n] = l]
        /\ lastApplied' = [lastApplied EXCEPT ![n] = Top(l)]
        /\ candidates' = [candidates EXCEPT ![n] = @ \cup {Top(l)}]
        /\ UNCHANGED <<lastDurable, lastCommitted, published, stable>>
    BY DEF write
  <1> HIDE DEF l
  <1>5. Top(l) \in OpTimes
    BY <1>2, <1>3, TopType
  <1>6. LogType' /\ log'[n] = l
    BY <1>2, <1>3, <1>4 DEF TypeInv, LogType
  <1>7. AppliedType' /\ CommitType'
    BY <1>4, <1>5 DEF TypeInv, AppliedType, CommitType
  <1>8. stable' \in [Server -> OpTimes] /\ candidates' \in [Server -> SUBSET OpTimes]
    BY <1>4, <1>5 DEF TypeInv, StableType
  <1> QED BY <1>4, <1>5, <1>6, <1>7, <1>8 DEF l

LEMMA OnBatchFacts ==
    ASSUME TypeInv, NEW n \in Server, NEW b \in Batches,
           Len(log[n]) + Len(b.entries) <= MaxLog, onSuccessfulBatch(n, b)
    PROVE  /\ ElectionType' /\ LogType' /\ AppliedType' /\ CommitType' /\ StableType'
           /\ PrimaryType' /\ source' = source /\ restarts' = restarts
           /\ log' = [log EXCEPT ![n] = log[n] \o b.entries]
           /\ updateTerm(n, b.term) /\ lastVote' = lastVote /\ firstOp' = firstOp
  <1> DEFINE l == log[n] \o b.entries
             c == advanced(n, b.commit, TRUE)
  <1>1. log[n] \in Seq(Terms) /\ Len(log[n]) \in Nat
    BY LogFacts DEF TypeInv
  <1>2. b.entries \in Seq(Terms) /\ b.commit \in OpTimes /\ b.term \in 0..MaxTerm
    BY DEF Batches
  <1>3. l \in Seq(Terms) /\ Len(l) <= MaxLog
    BY <1>1, <1>2, ConcatProperties
  <1>4. Top(l) \in OpTimes
    BY <1>3, TopType
  <1>5. c \in OpTimes
    BY <1>2, AdvancedType DEF TypeInv
  <1>6. /\ updateTerm(n, b.term) /\ lastVote' = lastVote /\ lastDurable' = lastDurable
        /\ firstOp' = firstOp /\ reports' = reports /\ source' = source /\ restarts' = restarts
        /\ IF b.entries = <<>>
           THEN advanceCommitPoint(n, c) /\ UNCHANGED <<log, lastApplied>>
           ELSE /\ log' = [log EXCEPT ![n] = l]
                /\ lastApplied' = [lastApplied EXCEPT ![n] = Top(l)]
                /\ advanceAndApply(n, c, Top(l))
    BY DEF onSuccessfulBatch, primaryVars
  <1>7. ElectionType'
    BY <1>2, <1>6, UpdateTermType DEF TypeInv
  <1>8. log' = [log EXCEPT ![n] = l]
    <2>1. CASE b.entries = <<>>
      <3>1. l = log[n] /\ log' = log
        BY <1>1, <1>6, <2>1, ConcatEmptySeq
      <3> HIDE DEF l
      <3> QED BY <3>1 DEF TypeInv, LogType
    <2> QED BY <1>6, <2>1
  <1> HIDE DEF l, c
  <1>9. LogType'
    BY <1>3, <1>8 DEF TypeInv, LogType
  <1>10. AppliedType'
    BY <1>4, <1>6 DEF TypeInv, AppliedType
  <1>11. CommitType' /\ StableType'
    <2>1. CASE b.entries = <<>>
      BY <1>5, <1>6, <2>1, AdvanceCommitType DEF TypeInv
    <2>2. CASE b.entries # <<>>
      BY <1>4, <1>5, <1>6, <2>2, AdvanceApplyType DEF TypeInv
    <2> QED BY <2>1, <2>2
  <1>12. PrimaryType'
    BY <1>6 DEF TypeInv, PrimaryType
  <1> QED BY <1>6, <1>7, <1>8, <1>9, <1>10, <1>11, <1>12 DEF l

LEMMA PrimaryTerm ==
    ASSUME TypeInv, MembersInv, NEW n \in Server, isPrimary(n)
    PROVE  term[n] \in Terms /\ term[n] \in Nat /\ lastVote[n] = term[n]
  <1>1. term[n] \in 0..MaxTerm
    BY DEF TypeInv, ElectionType
  <1>2. term[n] >= 1 /\ lastVote[n] = term[n]
    BY DEF MembersInv, MemberInv
  <1> QED BY <1>1, <1>2, BoundAssumption DEF Terms

LEMMA InitType == Init => TypeInv /\ MembersInv
  <1> SUFFICES ASSUME Init PROVE TypeInv /\ MembersInv
    OBVIOUS
  <1>1. ElectionType
    BY BoundAssumption DEF Init, ElectionType, Roles
  <1>2. LogType /\ \A n \in Server : log[n] = <<>> /\ Len(log[n]) = 0
    BY BoundAssumption, EmptySeq DEF Init, LogType
  <1>3. AppliedType /\ CommitType
    BY OpTimeFacts DEF Init, AppliedType, CommitType
  <1>4. StableType /\ PrimaryType /\ SyncType
    BY OpTimeFacts DEF Init, StableType, PrimaryType, SyncType
  <1>5. restarts \in 0..MaxRestarts
    BY BoundAssumption DEF Init
  <1>6. MembersInv
    BY BoundAssumption DEF Init, MembersInv, MemberInv, isPrimary, Leading
  <1> QED BY <1>1, <1>2, <1>3, <1>4, <1>5, <1>6 DEF TypeInv

LEMMA NextType == TypeInv /\ MembersInv /\ [Next]_vars => TypeInv'
  <1> SUFFICES ASSUME TypeInv, MembersInv, [Next]_vars PROVE TypeInv'
    OBVIOUS
  <1> USE DEF TypeInv
  <1>1. ASSUME NEW n \in Server, NEW Q \in SUBSET (Server \ {n}), RunElection(n, Q)
        PROVE  TypeInv'
    <2>1. term[n] + 1 \in 0..MaxTerm
      BY <1>1, BoundAssumption DEF RunElection, ElectionType
    <2>2. ElectionType'
      BY <1>1, <2>1 DEF RunElection, ElectionType, Roles, Leading
    <2>3. AppliedType'
      BY <1>1 DEF RunElection, AppliedType
    <2> QED BY <1>1, <2>2, <2>3 DEF RunElection, LogType, CommitType, StableType, PrimaryType,
            SyncType, commitVars, stableVars, primaryVars, syncVars
  <1>2. ASSUME NEW n \in Server, SignalDrainComplete(n)
        PROVE  TypeInv'
    <2>1. term[n] \in Terms /\ write(n) /\ Len(log[n]) < MaxLog
      BY <1>2, PrimaryTerm DEF SignalDrainComplete, isPrimary, Leading
    <2>2. /\ LogType' /\ AppliedType' /\ CommitType'
          /\ Top(log'[n]) \in OpTimes
          /\ stable' \in [Server -> OpTimes] /\ candidates' \in [Server -> SUBSET OpTimes]
      BY <2>1, WriteFacts
    <2>3. ElectionType'
      BY <1>2 DEF SignalDrainComplete, ElectionType, Roles, Leading
    <2>4. StableType'
      BY <1>2, <2>2 DEF SignalDrainComplete, StableType
    <2>5. PrimaryType'
      BY <1>2, <2>2 DEF SignalDrainComplete, PrimaryType
    <2>6. SyncType'
      <3>1. ASSUME batch[n] # NoBatch
            PROVE  [batch[n] EXCEPT !.entries = <<>>] \in Batches
        <4>1. batch[n] \in Batches
          BY <3>1 DEF SyncType
        <4>2. <<>> \in Seq(Terms)
          BY EmptySeq
        <4> QED BY <4>1, <4>2 DEF Batches
      <3> QED BY <1>2, <3>1 DEF SignalDrainComplete, SyncType
    <2> QED BY <1>2, <2>2, <2>3, <2>4, <2>5, <2>6 DEF SignalDrainComplete
  <1>3. ASSUME NEW n \in Server, ClientWrite(n)
        PROVE  TypeInv'
    <2>1. term[n] \in Terms /\ write(n) /\ Len(log[n]) < MaxLog
      BY <1>3, PrimaryTerm DEF ClientWrite, isPrimary, Leading
    <2>2. /\ LogType' /\ AppliedType' /\ CommitType'
          /\ Top(log'[n]) \in OpTimes
          /\ stable' \in [Server -> OpTimes] /\ candidates' \in [Server -> SUBSET OpTimes]
      BY <2>1, WriteFacts
    <2>3. StableType'
      BY <1>3, <2>2 DEF ClientWrite, StableType
    <2> QED BY <1>3, <2>2, <2>3 DEF ClientWrite, ElectionType, PrimaryType, SyncType,
            electionVars, primaryVars, syncVars
  <1>4. ASSUME NEW n \in Server, FinishStepDown(n)
        PROVE  TypeInv'
    <2>1. Larger(term[n], pendingTerm[n]) \in 0..MaxTerm
      BY LargerType DEF ElectionType
    <2>2. ElectionType'
      BY <1>4, <2>1, BoundAssumption DEF FinishStepDown, ElectionType, Roles
    <2>3. PrimaryType' /\ StableType'
      BY <1>4, OpTimeFacts DEF FinishStepDown, PrimaryType, StableType
    <2> QED BY <1>4, <2>2, <2>3 DEF FinishStepDown, LogType, AppliedType, CommitType, SyncType,
            oplogVars, syncVars
  <1>5. ASSUME NEW n \in Server, JournalFlush(n)
        PROVE  TypeInv'
    <2>1. lastApplied[n] \in OpTimes
      BY DEF AppliedType
    <2>2. CommitType' /\ StableType'
      BY <1>5, <2>1, UpdateLastCommittedType DEF JournalFlush
    <2>3. AppliedType'
      BY <1>5, <2>1 DEF JournalFlush, setLastDurable, AppliedType
    <2> QED BY <1>5, <2>2, <2>3 DEF JournalFlush, ElectionType, LogType, PrimaryType, SyncType,
            electionVars, primaryVars, syncVars
  <1>6. ASSUME NEW n \in Server, UpdateCommitPoint(n)
        PROVE  TypeInv'
    <2>1. lastDurable[n] \in OpTimes
      BY DEF AppliedType
    <2>2. CommitType' /\ StableType'
      BY <1>6, <2>1, UpdateLastCommittedType DEF UpdateCommitPoint
    <2> QED BY <1>6, <2>2 DEF UpdateCommitPoint, ElectionType, LogType, AppliedType, PrimaryType,
            SyncType, electionVars, oplogVars, primaryVars, syncVars
  <1>7. ASSUME NEW n \in Server, ProcessBatch(n)
        PROVE  TypeInv'
    <2>1. batch[n] \in Batches /\ Len(log[n]) + Len(batch[n].entries) <= MaxLog
      BY <1>7 DEF ProcessBatch, SyncType, MembersInv, MemberInv
    <2>2. onSuccessfulBatch(n, batch[n]) /\ batch' = [batch EXCEPT ![n] = NoBatch]
      BY <1>7 DEF ProcessBatch
    <2>3. /\ ElectionType' /\ LogType' /\ AppliedType' /\ CommitType' /\ StableType'
          /\ PrimaryType' /\ source' = source /\ restarts' = restarts
      BY <2>1, <2>2, OnBatchFacts
    <2> QED BY <2>2, <2>3 DEF SyncType
  <1>8. ASSUME NEW n \in Server, TruncateOplog(n)
        PROVE  TypeInv'
    <2> DEFINE cp == commonPoint(log[n], log[source[n]])
    <2>1. cp.i \in 0..Len(log[n])
      BY CommonPointFacts DEF TypeInv
    <2>2. log' = [log EXCEPT ![n] = SubSeq(log[n], 1, cp.i)]
      BY <1>8 DEF TruncateOplog
    <2> HIDE DEF cp
    <2>3. /\ SubSeq(log[n], 1, cp.i) \in Seq(Terms)
          /\ Len(SubSeq(log[n], 1, cp.i)) <= MaxLog
      BY <2>1, LogFacts, PrefixOf, BoundAssumption
    <2>4. LogType'
      BY <2>2, <2>3 DEF LogType
    <2>5. ElectionType'
      BY <1>8 DEF TruncateOplog, ElectionType, Roles, RollingBack
    <2> QED BY <1>8, <2>4, <2>5 DEF TruncateOplog, AppliedType, CommitType, StableType, PrimaryType,
            SyncType, commitVars, stableVars, primaryVars, syncVars
  <1>9. ASSUME NEW n \in Server, FinishRollback(n)
        PROVE  TypeInv'
    <2>1. Top(log[n]) \in OpTimes
      BY LogFacts, TopType
    <2>2. AppliedType'
      BY <1>9, <2>1 DEF FinishRollback, AppliedType
    <2>3. resetCandidates(n, Top(log[n])) \subseteq candidates[n] \cup {Top(log[n])}
      BY DEF resetCandidates
    <2>4. eraseCandidates(resetCandidates(n, Top(log[n])), Top(log[n])) \in SUBSET OpTimes
      BY <2>1, <2>3 DEF eraseCandidates, TypeInv, StableType
    <2>5. StableType'
      BY <1>9, <2>4 DEF FinishRollback, StableType
    <2>6. ElectionType' /\ SyncType'
      BY <1>9 DEF FinishRollback, ElectionType, SyncType, Roles
    <2> QED BY <1>9, <2>2, <2>5, <2>6 DEF FinishRollback, LogType, CommitType, PrimaryType,
            primaryVars
  <1>10. ASSUME NEW n \in Server, AbandonRollback(n)
         PROVE  TypeInv'
    <2>1. ElectionType' /\ SyncType'
      BY <1>10 DEF AbandonRollback, ElectionType, SyncType, Roles
    <2> QED BY <1>10, <2>1 DEF AbandonRollback, LogType, AppliedType, CommitType, StableType,
            PrimaryType, oplogVars, commitVars, stableVars, primaryVars
  <1>11. ASSUME NEW n \in Server, Restart(n)
         PROVE  TypeInv'
    <2>1. PICK len \in (IF role[n] = "Truncated" THEN Len(log[n]) ELSE lastDurable[n].i)
                       .. Len(log[n]) :
            LET l == SubSeq(log[n], 1, len)
                checkpoint == IF stable[n].i <= len THEN stable[n] ELSE Null
            IN
            /\ log' = [log EXCEPT ![n] = l]
            /\ lastApplied' = [lastApplied EXCEPT ![n] = Top(l)]
            /\ lastDurable' = [lastDurable EXCEPT ![n] = Top(l)]
            /\ candidates' = [candidates EXCEPT ![n] = {Top(l)}]
            /\ stable' = [stable EXCEPT ![n] = checkpoint]
            /\ term' = [term EXCEPT ![n] = Larger(lastVote[n], Top(l).t)]
      BY <1>11 DEF Restart
    <2> DEFINE l == SubSeq(log[n], 1, len)
               checkpoint == IF stable[n].i <= len THEN stable[n] ELSE Null
    <2>2. len \in 0..Len(log[n])
      <3>1. lastDurable[n].i \in Nat /\ Len(log[n]) \in Nat
        BY OpTimeFacts, LogFacts DEF AppliedType
      <3> QED BY <3>1
    <2>3. l \in Seq(Terms) /\ Len(l) <= MaxLog
      BY <2>2, LogFacts, PrefixOf, BoundAssumption
    <2>4. /\ log' = [log EXCEPT ![n] = l]
          /\ lastApplied' = [lastApplied EXCEPT ![n] = Top(l)]
          /\ lastDurable' = [lastDurable EXCEPT ![n] = Top(l)]
          /\ candidates' = [candidates EXCEPT ![n] = {Top(l)}]
          /\ stable' = [stable EXCEPT ![n] = checkpoint]
          /\ term' = [term EXCEPT ![n] = Larger(lastVote[n], Top(l).t)]
      BY <2>1
    <2>5. checkpoint \in OpTimes
      BY OpTimeFacts DEF StableType
    <2> HIDE DEF l, checkpoint
    <2>6. Top(l) \in OpTimes /\ Top(l).t \in 0..MaxTerm
      BY <2>3, TopType, OpTimeFacts
    <2>7. Larger(lastVote[n], Top(l).t) \in 0..MaxTerm
      BY <2>6, LargerType DEF ElectionType
    <2>8. ElectionType'
      BY <1>11, <2>4, <2>7, BoundAssumption DEF Restart, ElectionType, Roles
    <2>9. LogType'
      BY <2>3, <2>4 DEF LogType
    <2>10. AppliedType'
      BY <2>4, <2>6 DEF AppliedType
    <2>11. StableType'
      BY <1>11, <2>4, <2>5, <2>6 DEF Restart, StableType
    <2>12. CommitType' /\ PrimaryType' /\ SyncType'
      BY <1>11, OpTimeFacts DEF Restart, CommitType, PrimaryType, SyncType
    <2>13. restarts' \in 0..MaxRestarts
      BY <1>11, BoundAssumption DEF Restart
    <2> QED BY <2>8, <2>9, <2>10, <2>11, <2>12, <2>13
  <1>12. ASSUME NEW n \in Server, NEW c \in published, HeartbeatCommitPoint(n, c)
         PROVE  TypeInv'
    <2>1. c \in OpTimes
      BY DEF CommitType
    <2>2. advanced(n, c, FALSE) \in OpTimes /\ advanceCommitPoint(n, advanced(n, c, FALSE))
      BY <1>12, <2>1, AdvancedType DEF HeartbeatCommitPoint
    <2>3. CommitType' /\ StableType'
      BY <2>2, AdvanceCommitType
    <2> QED BY <1>12, <2>3 DEF HeartbeatCommitPoint, ElectionType, LogType, AppliedType, PrimaryType,
            SyncType, electionVars, oplogVars, primaryVars, syncVars
  <1>13. ASSUME NEW n \in Server, NEW m \in Server, LearnTerm(n, m)
         PROVE  TypeInv'
    <2>1. term[m] \in 0..MaxTerm /\ updateTerm(n, term[m]) /\ lastVote' = lastVote
      BY <1>13 DEF LearnTerm, ElectionType
    <2>2. ElectionType'
      BY <2>1, UpdateTermType
    <2> QED BY <1>13, <2>2 DEF LearnTerm, LogType, AppliedType, CommitType, StableType, PrimaryType,
            SyncType, oplogVars, commitVars, stableVars, primaryVars, syncVars
  <1>14. ASSUME NEW m \in Server, NEW n \in Server, ReportPosition(m, n)
         PROVE  TypeInv'
    <2>1. term[m] \in 0..MaxTerm /\ updateTerm(n, term[m]) /\ lastVote' = lastVote
      BY <1>14 DEF ReportPosition, ElectionType
    <2>2. ElectionType'
      BY <2>1, UpdateTermType
    <2>3. lastApplied[m] \in OpTimes
      BY DEF AppliedType
    <2>4. AppliedType'
      BY <1>14, <2>3 DEF ReportPosition, setLastDurable, AppliedType
    <2>5. PrimaryType'
      BY <1>14, <2>3 DEF ReportPosition, PrimaryType
    <2> QED BY <1>14, <2>2, <2>4, <2>5 DEF ReportPosition, LogType, CommitType, StableType,
            SyncType, commitVars, stableVars, syncVars
  <1>15. ASSUME NEW n \in Server, NEW m \in Server, Sync(n, m)
         PROVE  TypeInv'
    <2>1. PICK b \in batches(n, m) : onSuccessfulBatch(n, b)
      BY <1>15 DEF Sync
    <2>2. b \in Batches /\ Len(log[n]) + Len(b.entries) <= MaxLog
      BY BatchFacts
    <2>3. /\ ElectionType' /\ LogType' /\ AppliedType' /\ CommitType' /\ StableType'
          /\ PrimaryType' /\ source' = source /\ restarts' = restarts
      BY <2>1, <2>2, OnBatchFacts
    <2> QED BY <1>15, <2>3 DEF Sync, SyncType
  <1>16. ASSUME NEW n \in Server, NEW m \in Server, FetchBatch(n, m)
         PROVE  TypeInv'
    <2>1. PICK b \in batches(n, m) : batch' = [batch EXCEPT ![n] = b]
      BY <1>16 DEF FetchBatch
    <2>2. b \in Batches
      BY BatchFacts
    <2>3. SyncType'
      BY <1>16, <2>1, <2>2 DEF FetchBatch, SyncType
    <2> QED BY <1>16, <2>3 DEF FetchBatch, ElectionType, LogType, AppliedType, CommitType,
            StableType, PrimaryType, electionVars, oplogVars, commitVars, stableVars, primaryVars
  <1>17. ASSUME NEW n \in Server, NEW m \in Server, EnterRollback(n, m)
         PROVE  TypeInv'
    <2>1. ElectionType' /\ SyncType'
      BY <1>17 DEF EnterRollback, ElectionType, SyncType, Roles, RollingBack
    <2> QED BY <1>17, <2>1 DEF EnterRollback, LogType, AppliedType, CommitType, StableType,
            PrimaryType, oplogVars, commitVars, stableVars, primaryVars
  <1>18. CASE UNCHANGED vars
    BY <1>18 DEF vars, electionVars, oplogVars, commitVars, stableVars, primaryVars, syncVars,
       ElectionType, LogType, AppliedType, CommitType, StableType, PrimaryType, SyncType
  <1> QED BY <1>1, <1>2, <1>3, <1>4, <1>5, <1>6, <1>7, <1>8, <1>9, <1>10, <1>11, <1>12, <1>13,
             <1>14, <1>15, <1>16, <1>17, <1>18 DEF Next

-----------------------------------------------------------------------------
(* Roles, votes and batches. *)

\* How most steps treat a member: a primary may begin to step down, a member that is no
\* primary may learn of a term, and a batch stays in front of an oplog of the same length.
SmallStep(k) ==
    /\ \/ role'[k] = role[k]
       \/ isPrimary(k) /\ role'[k] = "SteppingDown"
       \/ /\ role'[k] \in {"Secondary"} \cup RollingBack
          /\ firstOp'[k] = Infinity
          /\ role'[k] \in RollingBack => batch'[k] = NoBatch
    /\ \/ term'[k] = term[k]
       \/ role'[k] \notin Leading /\ term'[k] >= term[k]
    /\ lastVote'[k] = lastVote[k]
    /\ firstOp'[k] = firstOp[k] \/ firstOp'[k] = Infinity
    /\ \/ batch'[k] = NoBatch
       \/ batch'[k] = batch[k] /\ Len(log'[k]) <= Len(log[k])

LEMMA SmallStepMember ==
    ASSUME TypeInv, TypeInv', NEW k \in Server, MemberInv(k), SmallStep(k)
    PROVE  MemberInv(k)'
  <1>1. /\ term[k] \in Nat /\ term'[k] \in Nat /\ lastVote[k] \in Nat
        /\ Len(log[k]) \in Nat /\ Len(log'[k]) \in Nat
    <2>1. LogType /\ LogType'
      BY DEF TypeInv
    <2>2. Len(log[k]) \in Nat
      BY <2>1, LogFacts
    <2>3. Len(log'[k]) \in Nat
      BY <2>1, LenProperties DEF LogType
    <2> QED BY <2>2, <2>3, BoundAssumption DEF TypeInv, ElectionType
  <1>2. isPrimary(k)' => isPrimary(k) /\ term'[k] = term[k]
    BY DEF SmallStep, isPrimary, Leading, RollingBack
  <1>3. (isPrimary(k) => term[k] >= 1 /\ lastVote[k] = term[k])' /\ lastVote'[k] <= term'[k]
    BY <1>1, <1>2 DEF SmallStep, MemberInv
  <1>4. firstOp'[k] # Infinity => role'[k] \in {"Master", "SteppingDown"}
    BY DEF SmallStep, MemberInv
  <1>5. batch'[k] # NoBatch =>
          /\ batch'[k] = batch[k]
          /\ Len(log'[k]) + Len(batch'[k].entries) <= MaxLog
          /\ role'[k] \notin RollingBack
          /\ firstOp'[k] # Infinity => batch'[k].entries = <<>>
    <2> SUFFICES ASSUME batch'[k] # NoBatch
                 PROVE  /\ batch'[k] = batch[k]
                        /\ Len(log'[k]) + Len(batch'[k].entries) <= MaxLog
                        /\ role'[k] \notin RollingBack
                        /\ firstOp'[k] # Infinity => batch'[k].entries = <<>>
      OBVIOUS
    <2>1. batch'[k] = batch[k] /\ Len(log'[k]) <= Len(log[k])
      BY DEF SmallStep
    <2>2. batch[k] \in Batches
      BY <2>1 DEF TypeInv, SyncType
    <2>3. Len(batch[k].entries) \in Nat
      BY <2>2, LenProperties DEF Batches
    <2>4. Len(log[k]) + Len(batch[k].entries) <= MaxLog
      BY <2>1 DEF MemberInv
    <2>5. Len(log'[k]) + Len(batch[k].entries) <= MaxLog
      <3>1. \A a, b, c, d \in Nat : a <= b /\ b + c <= d => a + c <= d
        OBVIOUS
      <3> QED BY <1>1, <2>1, <2>3, <2>4, <3>1, BoundAssumption
    <2>6. role'[k] \notin RollingBack
      BY <2>1 DEF SmallStep, MemberInv, RollingBack
    <2>7. firstOp'[k] # Infinity => batch[k].entries = <<>>
      BY <2>1 DEF SmallStep, MemberInv
    <2> QED BY <2>1, <2>5, <2>6, <2>7
  <1> QED BY <1>3, <1>4, <1>5 DEF MemberInv

LEMMA UpdateTermSmall ==
    ASSUME TypeInv, NEW n \in Server, NEW t \in 0..MaxTerm, updateTerm(n, t), NEW k \in Server
    PROVE  /\ role'[k] = role[k] \/ (isPrimary(k) /\ role'[k] = "SteppingDown")
           /\ term'[k] = term[k] \/ (role'[k] \notin Leading /\ term'[k] >= term[k])
  <1>1. term[n] \in Nat /\ t \in Nat
    BY BoundAssumption DEF TypeInv, ElectionType
  <1> QED BY <1>1 DEF TypeInv, ElectionType, updateTerm, isPrimary

LEMMA NextMembers == TypeInv /\ TypeInv' /\ MembersInv /\ [Next]_vars => MembersInv'
  <1> SUFFICES ASSUME TypeInv, TypeInv', MembersInv, [Next]_vars, NEW k \in Server
               PROVE  MemberInv(k)'
    BY DEF MembersInv
  <1>0. /\ MemberInv(k) /\ \A n \in Server : MemberInv(n)
        /\ SmallStep(k) => MemberInv(k)'
    BY SmallStepMember DEF MembersInv
  <1>a. /\ ElectionType /\ LogType /\ PrimaryType /\ SyncType
        /\ LogType' /\ SyncType' /\ ElectionType'
        /\ \A n \in Server : Len(log[n]) \in Nat /\ term[n] \in Nat
    BY BoundAssumption, LogFacts DEF TypeInv, ElectionType
  <1>1. ASSUME NEW n \in Server, NEW Q \in SUBSET (Server \ {n}), RunElection(n, Q)
        PROVE  MemberInv(k)'
    <2>1. UNCHANGED <<log, batch, firstOp>> /\ role[n] = "Secondary" /\ term[n] + 1 <= MaxTerm
      BY <1>1 DEF RunElection, primaryVars, syncVars
    <2>2. firstOp[n] = Infinity
      BY <1>0, <2>1 DEF MemberInv
    <2>3. CASE k \notin Q \cup {n}
      BY <1>0, <1>1, <1>a, <2>1, <2>3 DEF RunElection, SmallStep, ElectionType
    <2>4. CASE k \in Q
      <3>1. ~isPrimary(k) /\ role'[k] = role[k] /\ term'[k] = lastVote'[k]
        BY <1>1, <1>a, <2>4 DEF RunElection, mayVote, ElectionType
      <3>2. ~isPrimary(k)' /\ lastVote'[k] <= term'[k]
        BY <1>a, <3>1 DEF isPrimary, ElectionType
      <3> QED BY <1>0, <2>1, <3>1, <3>2 DEF MemberInv
    <2>5. CASE k = n
      <3>1. term'[k] = lastVote'[k] /\ term'[k] = term[n] + 1 /\ term[n] \in Nat
        BY <1>1, <1>a, <2>5 DEF RunElection
      <3>2. role'[k] \notin RollingBack
        BY <1>1, <1>a, <2>1, <2>5 DEF RunElection, ElectionType, RollingBack
      <3>3. term'[k] >= 1 /\ lastVote'[k] <= term'[k]
        BY <3>1
      <3> QED BY <1>0, <2>1, <2>2, <2>5, <3>1, <3>2, <3>3 DEF MemberInv
    <2> QED BY <2>3, <2>4, <2>5
  <1>2. ASSUME NEW n \in Server, SignalDrainComplete(n)
        PROVE  MemberInv(k)'
    <2>1. /\ UNCHANGED <<term, lastVote>> /\ role[n] = "LeaderElect" /\ Len(log[n]) < MaxLog
          /\ role' = [role EXCEPT ![n] = "Master"]
          /\ \E x : firstOp' = [firstOp EXCEPT ![n] = x]
          /\ \E x : log' = [log EXCEPT ![n] = x]
          /\ \E x : batch' = [batch EXCEPT ![n] = x]
      BY <1>2 DEF SignalDrainComplete, write
    <2>2. CASE k # n
      <3>1. role'[k] = role[k] /\ firstOp'[k] = firstOp[k] /\ log'[k] = log[k] /\ batch'[k] = batch[k]
        BY <1>a, <2>1, <2>2 DEF ElectionType, LogType, PrimaryType, SyncType
      <3> QED BY <1>0, <1>a, <2>1, <3>1 DEF SmallStep
    <2>3. CASE k = n
      <3>1. role'[k] = "Master"
        BY <1>a, <2>1, <2>3 DEF ElectionType
      <3>2. isPrimary(n)
        BY <2>1 DEF isPrimary, Leading
      <3>3. term'[k] >= 1 /\ lastVote'[k] = term'[k] /\ lastVote'[k] <= term'[k]
        BY <1>0, <2>1, <2>3, <3>2 DEF MemberInv
      <3>4. batch'[k] # NoBatch => batch'[k].entries = <<>>
        <4>1. batch[k] # NoBatch => batch[k] \in Batches
          BY <1>a DEF SyncType
        <4>2. batch[k] # NoBatch => [batch[k] EXCEPT !.entries = <<>>].entries = <<>>
          BY <4>1 DEF Batches
        <4> QED BY <1>2, <1>a, <2>3, <4>2 DEF SignalDrainComplete, SyncType
      <3>5. Len(log'[k]) <= MaxLog /\ Len(log'[k]) \in Nat
        BY <1>a, LenProperties DEF LogType
      <3>6. batch'[k] # NoBatch => Len(log'[k]) + Len(batch'[k].entries) <= MaxLog
        <4>1. Len(<<>>) = 0
          BY EmptySeq
        <4>2. batch'[k] # NoBatch => Len(batch'[k].entries) = 0
          BY <3>4, <4>1
        <4>3. Len(log'[k]) + 0 = Len(log'[k])
          BY <3>5
        <4> QED BY <3>5, <4>2, <4>3
      <3> QED BY <3>1, <3>3, <3>4, <3>6 DEF MemberInv, RollingBack
    <2> QED BY <2>2, <2>3
  <1>3. ASSUME NEW n \in Server, ClientWrite(n)
        PROVE  MemberInv(k)'
    <2>1. /\ UNCHANGED <<term, lastVote, role, firstOp, batch>> /\ firstOp[n] # Infinity
          /\ \E x : log' = [log EXCEPT ![n] = x]
      BY <1>3 DEF ClientWrite, write, electionVars, primaryVars, syncVars
    <2>2. CASE k # n
      <3>1. log'[k] = log[k]
        BY <1>a, <2>1, <2>2 DEF LogType
      <3> QED BY <1>0, <1>a, <2>1, <3>1 DEF SmallStep
    <2>3. CASE k = n
      <3>1. batch'[k] # NoBatch => batch'[k].entries = <<>>
        BY <1>0, <2>1, <2>3 DEF MemberInv
      <3>2. Len(log'[k]) <= MaxLog /\ Len(log'[k]) \in Nat
        BY <1>a, LenProperties DEF LogType
      <3>3. batch'[k] # NoBatch => Len(log'[k]) + Len(batch'[k].entries) <= MaxLog
        <4>1. Len(<<>>) = 0
          BY EmptySeq
        <4>2. batch'[k] # NoBatch => Len(batch'[k].entries) = 0
          BY <3>1, <4>1
        <4>3. Len(log'[k]) + 0 = Len(log'[k])
          BY <3>2
        <4> QED BY <3>2, <4>2, <4>3
      <3> QED BY <1>0, <2>1, <3>1, <3>3 DEF MemberInv, isPrimary
    <2> QED BY <2>2, <2>3
  <1>4. ASSUME NEW n \in Server, FinishStepDown(n)
        PROVE  MemberInv(k)'
    <2>1. Larger(term[n], pendingTerm[n]) >= term[n]
      BY <1>a, LargerType DEF ElectionType
    <2>2. SmallStep(k)
      BY <1>4, <1>a, <2>1 DEF FinishStepDown, SmallStep, ElectionType, PrimaryType, oplogVars,
         syncVars, Leading, RollingBack
    <2> QED BY <1>0, <2>2
  <1>5. ASSUME NEW n \in Server, JournalFlush(n) \/ UpdateCommitPoint(n)
        PROVE  MemberInv(k)'
    BY <1>0, <1>5, <1>a DEF JournalFlush, UpdateCommitPoint, SmallStep, electionVars, oplogVars,
       primaryVars, syncVars
  <1>6. ASSUME NEW n \in Server, ProcessBatch(n)
        PROVE  MemberInv(k)'
    <2>1. batch[n] \in Batches /\ Len(log[n]) + Len(batch[n].entries) <= MaxLog
      BY <1>0, <1>6, <1>a DEF ProcessBatch, SyncType, MemberInv
    <2>2. onSuccessfulBatch(n, batch[n]) /\ batch' = [batch EXCEPT ![n] = NoBatch]
      BY <1>6 DEF ProcessBatch
    <2>3. /\ log' = [log EXCEPT ![n] = log[n] \o batch[n].entries]
          /\ updateTerm(n, batch[n].term) /\ lastVote' = lastVote /\ firstOp' = firstOp
          /\ batch[n].term \in 0..MaxTerm
      BY <2>1, <2>2, OnBatchFacts DEF Batches
    <2>4. /\ role'[k] = role[k] \/ (isPrimary(k) /\ role'[k] = "SteppingDown")
          /\ term'[k] = term[k] \/ (role'[k] \notin Leading /\ term'[k] >= term[k])
      BY <2>3, UpdateTermSmall
    <2>5. batch'[k] = NoBatch \/ (batch'[k] = batch[k] /\ Len(log'[k]) <= Len(log[k]))
      BY <1>a, <2>2, <2>3 DEF LogType, SyncType
    <2> QED BY <1>0, <2>3, <2>4, <2>5 DEF SmallStep
  <1>7. ASSUME NEW n \in Server, TruncateOplog(n)
        PROVE  MemberInv(k)'
    <2>1. /\ role[n] = "Rollback" /\ role' = [role EXCEPT ![n] = "Truncated"]
          /\ UNCHANGED <<term, lastVote, firstOp, batch>>
          /\ \E x : log' = [log EXCEPT ![n] = x]
      BY <1>7 DEF TruncateOplog, primaryVars, syncVars
    <2>2. batch[n] = NoBatch /\ firstOp[n] = Infinity
      BY <1>0, <2>1 DEF MemberInv, RollingBack
    <2>3. CASE k # n
      <3>1. log'[k] = log[k] /\ role'[k] = role[k]
        BY <1>a, <2>1, <2>3 DEF LogType, ElectionType
      <3> QED BY <1>0, <1>a, <2>1, <3>1 DEF SmallStep
    <2>4. CASE k = n
      BY <1>0, <1>a, <2>1, <2>2, <2>4 DEF SmallStep, ElectionType, RollingBack
    <2> QED BY <2>3, <2>4
  <1>8. ASSUME NEW n \in Server, FinishRollback(n) \/ AbandonRollback(n)
        PROVE  MemberInv(k)'
    <2>1. /\ role[n] \in RollingBack /\ role' = [role EXCEPT ![n] = "Secondary"]
          /\ UNCHANGED <<term, lastVote, firstOp, batch, log>>
      BY <1>8 DEF FinishRollback, AbandonRollback, RollingBack, primaryVars, oplogVars
    <2>2. firstOp[n] = Infinity
      BY <1>0, <2>1 DEF MemberInv, RollingBack
    <2> QED BY <1>0, <1>a, <2>1, <2>2 DEF SmallStep, ElectionType, RollingBack
  <1>9. ASSUME NEW n \in Server, Restart(n)
        PROVE  MemberInv(k)'
    <2>1. /\ role' = [role EXCEPT ![n] = "Secondary"] /\ lastVote' = lastVote
          /\ firstOp' = [firstOp EXCEPT ![n] = Infinity]
          /\ batch' = [batch EXCEPT ![n] = NoBatch]
          /\ \E x : log' = [log EXCEPT ![n] = x]
      BY <1>9 DEF Restart
    <2>2. PICK l \in Seq(Terms) : /\ Len(l) <= MaxLog
                                  /\ term' = [term EXCEPT ![n] = Larger(lastVote[n], Top(l).t)]
      <3>1. PICK len :
              /\ log' = [log EXCEPT ![n] = SubSeq(log[n], 1, len)]
              /\ term' = [term EXCEPT ![n] = Larger(lastVote[n], Top(SubSeq(log[n], 1, len)).t)]
        BY <1>9 DEF Restart
      <3>2. SubSeq(log[n], 1, len) = log'[n] /\ log'[n] \in Seq(Terms) /\ Len(log'[n]) <= MaxLog
        BY <1>a, <3>1 DEF LogType
      <3> QED BY <3>1, <3>2
    <2>3. Larger(lastVote[n], Top(l).t) >= lastVote[n]
      BY <1>a, <2>2, TopType, OpTimeFacts, LargerType DEF ElectionType
    <2>4. CASE k # n
      <3>1. /\ role'[k] = role[k] /\ firstOp'[k] = firstOp[k] /\ batch'[k] = batch[k]
            /\ log'[k] = log[k] /\ term'[k] = term[k]
        BY <1>a, <2>1, <2>2, <2>4 DEF ElectionType, LogType, PrimaryType, SyncType
      <3> QED BY <1>0, <1>a, <2>1, <3>1 DEF SmallStep
    <2>5. CASE k = n
      <3>1. /\ role'[k] = "Secondary" /\ firstOp'[k] = Infinity /\ batch'[k] = NoBatch
            /\ term'[k] = Larger(lastVote[n], Top(l).t) /\ lastVote'[k] = lastVote[n]
        BY <1>a, <2>1, <2>2, <2>5 DEF ElectionType, PrimaryType, SyncType
      <3>2. lastVote'[k] <= term'[k]
        BY <1>a, <2>3, <2>5, <3>1 DEF ElectionType
      <3> QED BY <3>1, <3>2 DEF MemberInv, isPrimary, Leading
    <2> QED BY <2>4, <2>5
  <1>10. ASSUME NEW n \in Server, NEW c \in published, HeartbeatCommitPoint(n, c)
         PROVE  MemberInv(k)'
    BY <1>0, <1>10, <1>a DEF HeartbeatCommitPoint, SmallStep, electionVars, oplogVars,
       primaryVars, syncVars
  <1>11. ASSUME NEW n \in Server, NEW m \in Server, LearnTerm(n, m) \/ ReportPosition(m, n)
         PROVE  MemberInv(k)'
    <2>1. /\ updateTerm(n, term[m]) /\ term[m] \in 0..MaxTerm
          /\ UNCHANGED <<lastVote, log, firstOp, batch>>
      BY <1>11, <1>a DEF LearnTerm, ReportPosition, ElectionType, oplogVars, primaryVars, syncVars
    <2>2. /\ role'[k] = role[k] \/ (isPrimary(k) /\ role'[k] = "SteppingDown")
          /\ term'[k] = term[k] \/ (role'[k] \notin Leading /\ term'[k] >= term[k])
      BY <2>1, UpdateTermSmall
    <2> QED BY <1>0, <1>a, <2>1, <2>2 DEF SmallStep
  <1>12. ASSUME NEW n \in Server, NEW m \in Server, Sync(n, m)
         PROVE  MemberInv(k)'
    <2>1. PICK b \in batches(n, m) : onSuccessfulBatch(n, b)
      BY <1>12 DEF Sync
    <2>2. b \in Batches /\ Len(log[n]) + Len(b.entries) <= MaxLog /\ b.term \in 0..MaxTerm
      BY BatchFacts DEF TypeInv, Batches
    <2>3. /\ log' = [log EXCEPT ![n] = log[n] \o b.entries]
          /\ updateTerm(n, b.term) /\ lastVote' = lastVote /\ firstOp' = firstOp
          /\ batch' = batch /\ batch[n] = NoBatch
      BY <1>12, <2>1, <2>2, OnBatchFacts DEF Sync
    <2>4. /\ role'[k] = role[k] \/ (isPrimary(k) /\ role'[k] = "SteppingDown")
          /\ term'[k] = term[k] \/ (role'[k] \notin Leading /\ term'[k] >= term[k])
      BY <2>2, <2>3, UpdateTermSmall
    <2>5. batch'[k] = NoBatch \/ (batch'[k] = batch[k] /\ Len(log'[k]) <= Len(log[k]))
      BY <1>a, <2>3 DEF LogType
    <2> QED BY <1>0, <2>3, <2>4, <2>5 DEF SmallStep
  <1>13. ASSUME NEW n \in Server, NEW m \in Server, FetchBatch(n, m)
         PROVE  MemberInv(k)'
    <2>1. PICK b \in batches(n, m) : batch' = [batch EXCEPT ![n] = b]
      BY <1>13 DEF FetchBatch
    <2>2. Len(log[n]) + Len(b.entries) <= MaxLog
      BY BatchFacts DEF TypeInv
    <2>3. UNCHANGED <<term, lastVote, role, firstOp, log>> /\ role[n] = "LeaderElect"
      BY <1>13 DEF FetchBatch, electionVars, oplogVars, primaryVars
    <2>4. CASE k # n
      BY <1>0, <1>a, <2>1, <2>3, <2>4 DEF SmallStep, SyncType
    <2>5. CASE k = n
      <3>1. firstOp[k] = Infinity /\ batch'[k] = b
        BY <1>0, <1>a, <2>1, <2>3, <2>5 DEF MemberInv, SyncType
      <3> QED BY <1>0, <2>2, <2>3, <2>5, <3>1 DEF MemberInv, isPrimary, RollingBack
    <2> QED BY <2>4, <2>5
  <1>14. ASSUME NEW n \in Server, NEW m \in Server, EnterRollback(n, m)
         PROVE  MemberInv(k)'
    <2>1. /\ role[n] = "Secondary" /\ role' = [role EXCEPT ![n] = "Rollback"]
          /\ UNCHANGED <<term, lastVote, firstOp, batch, log>> /\ batch[n] = NoBatch
      BY <1>14 DEF EnterRollback, primaryVars, oplogVars
    <2>2. firstOp[n] = Infinity
      BY <1>0, <2>1 DEF MemberInv
    <2> QED BY <1>0, <1>a, <2>1, <2>2 DEF SmallStep, ElectionType, RollingBack
  <1>15. CASE UNCHANGED vars
    BY <1>0, <1>15, <1>a DEF vars, electionVars, oplogVars, primaryVars, syncVars, SmallStep
  <1> QED BY <1>1, <1>2, <1>3, <1>4, <1>5, <1>6, <1>7, <1>8, <1>9, <1>10, <1>11, <1>12, <1>13,
             <1>14, <1>15 DEF Next

-----------------------------------------------------------------------------
(* The oplogs agree. *)

\* The oplog of a member with the batch it has fetched and not yet applied.
Fetched(n) == IF batch[n] = NoBatch THEN log[n] ELSE log[n] \o batch[n].entries

StartsWith(q, s) == Len(s) <= Len(q) /\ \A i \in 1..Len(s) : s[i] = q[i]

Voted(t) == {v \in Server : lastVote[v] >= t}

\* An entry determines everything before it.
MatchInv ==
    \A m, n \in Server : \A i \in 1..Len(Fetched(m)) :
        i <= Len(Fetched(n)) /\ Fetched(m)[i] = Fetched(n)[i]
            => \A j \in 1..i : Fetched(m)[j] = Fetched(n)[j]

\* A primary was elected by a majority, alone in its term, and has every entry of the term.
LeaderInv ==
    \A n \in Server : isPrimary(n) =>
        /\ IsMajority(Voted(term[n]))
        /\ \A m \in Server : isPrimary(m) /\ term[m] = term[n] => m = n
        /\ \A m \in Server : \A i \in 1..Len(Fetched(m)) :
            Fetched(m)[i] = term[n] => i <= Len(log[n]) /\ log[n][i] = term[n]

\* Entries are of terms that somebody was elected in.
ElectedInv ==
    \A m \in Server : \A i \in 1..Len(Fetched(m)) : IsMajority(Voted(Fetched(m)[i]))

LogInv == MatchInv /\ LeaderInv /\ ElectedInv

LEMMA MajorityGrows ==
    ASSUME NEW A, NEW B \in SUBSET Server, A \subseteq B, IsMajority(A)
    PROVE  IsMajority(B)
  <1>1. IsFiniteSet(B) /\ Cardinality(B) \in Nat
    BY ServerAssumption, FS_Subset, FS_CardinalityType
  <1>2. Cardinality(A) <= Cardinality(B) /\ Cardinality(A) \in Nat
    BY <1>1, FS_Subset, FS_CardinalityType
  <1>3. Cardinality(Server) \in Nat
    BY ServerAssumption, FS_CardinalityType
  <1> QED BY <1>1, <1>2, <1>3 DEF IsMajority

LEMMA MajoritiesMeet ==
    ASSUME NEW A \in SUBSET Server, NEW B \in SUBSET Server, IsMajority(A), IsMajority(B)
    PROVE  \E v \in Server : v \in A /\ v \in B
  <1> SUFFICES ASSUME A \cap B = {} PROVE FALSE
    OBVIOUS
  <1>1. /\ IsFiniteSet(A) /\ IsFiniteSet(B) /\ Cardinality(Server) \in Nat
        /\ Cardinality(A) \in Nat /\ Cardinality(B) \in Nat
    BY ServerAssumption, FS_Subset, FS_CardinalityType
  <1>2. Cardinality(A \cup B) = Cardinality(A) + Cardinality(B) - Cardinality(A \cap B)
    BY <1>1, FS_Union
  <1>3. Cardinality(A \cap B) = 0
    BY FS_EmptySet
  <1>4. Cardinality(A \cup B) <= Cardinality(Server) /\ Cardinality(A \cup B) \in Nat
    <2>1. A \cup B \in SUBSET Server
      OBVIOUS
    <2>2. IsFiniteSet(A \cup B) /\ Cardinality(A \cup B) <= Cardinality(Server)
      BY <2>1, ServerAssumption, FS_Subset
    <2> QED BY <2>2, FS_CardinalityType
  <1> QED BY <1>1, <1>2, <1>3, <1>4 DEF IsMajority

\* The facts of arithmetic about oplogs that the proofs need.
OplogView(n) ==
    /\ log[n] \in Seq(Terms) /\ Len(log[n]) \in Nat
    /\ Fetched(n) \in Seq(Terms) /\ Len(Fetched(n)) \in Nat /\ Len(Fetched(n)) <= MaxLog
    /\ StartsWith(Fetched(n), log[n])
    /\ \A i \in 1..Len(Fetched(n)) : Fetched(n)[i] \in Nat
    /\ term[n] \in Nat /\ lastVote[n] \in Nat

OplogViews == \A n \in Server : OplogView(n)

LEMMA StartsAt ==
    ASSUME NEW q, NEW s, Len(q) \in Nat, Len(s) \in Nat, StartsWith(q, s), NEW i \in 1..Len(s)
    PROVE  i \in 1..Len(q) /\ q[i] = s[i] /\ i \in Nat /\ i >= 1 /\ i <= Len(q)
  <1> DEFINE a == Len(q)
             b == Len(s)
  <1>1. a \in Nat /\ b \in Nat /\ b <= a /\ i \in 1..b
    BY DEF StartsWith
  <1>2. q[i] = s[i]
    BY DEF StartsWith
  <1> HIDE DEF a, b
  <1>3. i \in 1..a /\ i \in Nat /\ i >= 1 /\ i <= a
    BY <1>1
  <1> QED BY <1>2, <1>3 DEF a

LEMMA Within ==
    ASSUME NEW a \in Nat, NEW b \in Nat, NEW i \in 1..a, i <= b
    PROVE  i \in 1..b /\ \A j \in 1..i : j \in 1..a /\ j \in 1..b
  OBVIOUS

LEMMA ViewsHold == TypeInv /\ MembersInv => OplogViews
  <1> SUFFICES ASSUME TypeInv, MembersInv, NEW n \in Server PROVE OplogView(n)
    BY DEF OplogViews
  <1>1. log[n] \in Seq(Terms) /\ Len(log[n]) \in Nat /\ Len(log[n]) <= MaxLog
    BY LogFacts DEF TypeInv
  <1>2. term[n] \in Nat /\ lastVote[n] \in Nat
    BY BoundAssumption DEF TypeInv, ElectionType
  <1>3. \A q \in Seq(Terms) : \A i \in 1..Len(q) : q[i] \in Nat
    BY ElementOfSeq, BoundAssumption DEF Terms
  <1>4. CASE batch[n] = NoBatch
    <2>1. Fetched(n) = log[n]
      BY <1>4 DEF Fetched
    <2>2. StartsWith(Fetched(n), log[n])
      BY <1>1, <2>1 DEF StartsWith
    <2> QED BY <1>1, <1>2, <1>3, <2>1, <2>2 DEF OplogView
  <1>5. CASE batch[n] # NoBatch
    <2> DEFINE e == batch[n].entries
               f == log[n] \o e
               N == Len(log[n])
               K == Len(e)
    <2>1. e \in Seq(Terms) /\ N + K <= MaxLog
      BY <1>5 DEF TypeInv, SyncType, Batches, MembersInv, MemberInv
    <2>2. K \in Nat /\ N \in Nat
      BY <1>1, <2>1, LenProperties
    <2>3. /\ f \in Seq(Terms) /\ Len(f) = N + K
          /\ \A i \in 1..N + K : f[i] = IF i <= N THEN log[n][i] ELSE e[i - N]
      BY <1>1, <2>1, ConcatProperties
    <2>4. Fetched(n) = f
      BY <1>5 DEF Fetched
    <2>5. Len(log[n]) = N
      OBVIOUS
    <2> HIDE DEF e, f, N, K
    <2>6. \A i \in 1..N : i \in 1..N + K /\ i <= N
      BY <2>2
    <2>7. N <= N + K /\ N + K \in Nat
      BY <2>2
    <2>8. \A i \in 1..N : log[n][i] = f[i]
      BY <2>3, <2>6
    <2>9. StartsWith(Fetched(n), log[n])
      BY <2>3, <2>4, <2>5, <2>7, <2>8 DEF StartsWith
    <2>10. Len(f) \in Nat /\ Len(f) <= MaxLog
      BY <2>1, <2>3, <2>7
    <2> QED BY <1>1, <1>2, <1>3, <2>3, <2>4, <2>9, <2>10 DEF OplogView
  <1> QED BY <1>4, <1>5

LEMMA NextViewsHold == TypeInv' /\ MembersInv' => OplogViews'
  BY ViewsHold, PTL

LEMMA VotedGrows ==
    ASSUME TypeInv, TypeInv', \A v \in Server : lastVote'[v] >= lastVote[v],
           NEW t \in Nat, IsMajority(Voted(t))
    PROVE  IsMajority({v \in Server : lastVote'[v] >= t})
  <1>1. \A v \in Server : lastVote[v] \in Nat /\ lastVote'[v] \in Nat
    BY BoundAssumption DEF TypeInv, ElectionType
  <1>2. Voted(t) \subseteq {v \in Server : lastVote'[v] >= t}
    BY <1>1 DEF Voted
  <1> QED BY <1>2, MajorityGrows

\* The term of n is new: elected by a majority, without entries and without other primaries.
FreshTerm(n) ==
    /\ IsMajority({v \in Server : lastVote'[v] >= term'[n]})
    /\ \A m \in Server \ {n} : isPrimary(m)' => term'[m] # term'[n]
    /\ \A m \in Server : \A i \in 1..Len(Fetched(m)) : Fetched(m)[i] # term'[n]

(* Steps that only copy and cut oplogs, and elections. *)
LEMMA CopyingKeeps ==
    ASSUME TypeInv, TypeInv', MembersInv, MembersInv', LogInv,
           \A k \in Server : \E m \in Server : StartsWith(Fetched(m), Fetched(k)'),
           \A v \in Server : lastVote'[v] >= lastVote[v],
           \A n \in Server : isPrimary(n)' =>
                \/ isPrimary(n) /\ term'[n] = term[n] /\ StartsWith(log'[n], log[n])
                \/ FreshTerm(n)
    PROVE  LogInv'
  <1>1. \A k \in Server : /\ Len(Fetched(k)) \in Nat /\ Len(log[k]) \in Nat /\ term[k] \in Nat
                          /\ \A i \in 1..Len(Fetched(k)) : Fetched(k)[i] \in Nat
    BY ViewsHold DEF OplogViews, OplogView
  <1>2. \A k \in Server : Len(Fetched(k)') \in Nat /\ Len(log'[k]) \in Nat
    BY NextViewsHold DEF OplogViews, OplogView
  <1>3. MatchInv'
    <2> SUFFICES ASSUME NEW m \in Server, NEW n \in Server, NEW i \in 1..Len(Fetched(m)'),
                        i <= Len(Fetched(n)'), Fetched(m)'[i] = Fetched(n)'[i],
                        NEW j \in 1..i
                 PROVE  Fetched(m)'[j] = Fetched(n)'[j]
      BY DEF MatchInv
    <2>1. PICK m2 \in Server : StartsWith(Fetched(m2), Fetched(m)')
      OBVIOUS
    <2>2. PICK n2 \in Server : StartsWith(Fetched(n2), Fetched(n)')
      OBVIOUS
    <2>a. /\ Len(Fetched(m)') \in Nat /\ Len(Fetched(n)') \in Nat
          /\ Len(Fetched(m2)) \in Nat /\ Len(Fetched(n2)) \in Nat
      BY <1>1, <1>2
    <2>3. i \in 1..Len(Fetched(n)') /\ j \in 1..Len(Fetched(m)') /\ j \in 1..Len(Fetched(n)')
      BY <2>a, Within
    <2>4. /\ i \in 1..Len(Fetched(m2)) /\ i <= Len(Fetched(n2))
          /\ Fetched(m2)[i] = Fetched(m)'[i] /\ Fetched(n2)[i] = Fetched(n)'[i]
          /\ Fetched(m2)[j] = Fetched(m)'[j] /\ Fetched(n2)[j] = Fetched(n)'[j]
      BY <2>a, <2>1, <2>2, <2>3, StartsAt
    <2>5. Fetched(m2)[j] = Fetched(n2)[j]
      BY <2>3, <2>4 DEF LogInv, MatchInv
    <2> QED BY <2>4, <2>5
  <1>4. ElectedInv'
    <2> SUFFICES ASSUME NEW m \in Server, NEW i \in 1..Len(Fetched(m)')
                 PROVE  IsMajority({v \in Server : lastVote'[v] >= Fetched(m)'[i]})
      BY DEF ElectedInv, Voted
    <2>1. PICK m2 \in Server : StartsWith(Fetched(m2), Fetched(m)')
      OBVIOUS
    <2>2. i \in 1..Len(Fetched(m2)) /\ Fetched(m2)[i] = Fetched(m)'[i]
      <3>1. Len(Fetched(m)') \in Nat /\ Len(Fetched(m2)) \in Nat
        BY <1>1, <1>2
      <3> QED BY <2>1, <3>1, StartsAt
    <2>3. IsMajority(Voted(Fetched(m2)[i])) /\ Fetched(m2)[i] \in Nat
      BY <1>1, <2>2 DEF LogInv, ElectedInv
    <2> QED BY <2>2, <2>3, VotedGrows
  <1>5. LeaderInv'
    <2> SUFFICES ASSUME NEW n \in Server, isPrimary(n)'
                 PROVE  /\ IsMajority({v \in Server : lastVote'[v] >= term'[n]})
                        /\ \A m \in Server : isPrimary(m)' /\ term'[m] = term'[n] => m = n
                        /\ \A m \in Server : \A i \in 1..Len(Fetched(m)') :
                            Fetched(m)'[i] = term'[n] => i <= Len(log'[n]) /\ log'[n][i] = term'[n]
      BY DEF LeaderInv, Voted
    <2>0. ASSUME NEW m \in Server, NEW i \in 1..Len(Fetched(m)')
          PROVE  \E m2 \in Server : i \in 1..Len(Fetched(m2)) /\ Fetched(m2)[i] = Fetched(m)'[i]
      <3>1. PICK m2 \in Server : StartsWith(Fetched(m2), Fetched(m)')
        OBVIOUS
      <3>2. Len(Fetched(m)') \in Nat /\ Len(Fetched(m2)) \in Nat
        BY <1>1, <1>2
      <3> QED BY <3>1, <3>2, StartsAt
    <2>1. CASE FreshTerm(n)
      BY <2>0, <2>1 DEF FreshTerm
    <2>2. CASE isPrimary(n) /\ term'[n] = term[n] /\ StartsWith(log'[n], log[n])
      <3>1. IsMajority(Voted(term[n])) /\ term[n] \in Nat
        BY <1>1, <2>2 DEF LogInv, LeaderInv
      <3>2. IsMajority({v \in Server : lastVote'[v] >= term'[n]})
        BY <2>2, <3>1, VotedGrows
      <3>3. ASSUME NEW m \in Server, isPrimary(m)', term'[m] = term'[n]
            PROVE  m = n
        <4>1. CASE FreshTerm(m)
          BY <3>3, <4>1 DEF FreshTerm
        <4>2. CASE isPrimary(m) /\ term'[m] = term[m]
          BY <2>2, <3>3, <4>2 DEF LogInv, LeaderInv
        <4> QED BY <3>3, <4>1, <4>2
      <3>4. ASSUME NEW m \in Server, NEW i \in 1..Len(Fetched(m)'), Fetched(m)'[i] = term'[n]
            PROVE  i <= Len(log'[n]) /\ log'[n][i] = term'[n]
        <4>1. PICK m2 \in Server : i \in 1..Len(Fetched(m2)) /\ Fetched(m2)[i] = Fetched(m)'[i]
          BY <2>0
        <4>2. i <= Len(log[n]) /\ log[n][i] = term[n]
          BY <2>2, <3>4, <4>1 DEF LogInv, LeaderInv
        <4>3. Len(log[n]) \in Nat /\ Len(log'[n]) \in Nat /\ Len(Fetched(m2)) \in Nat
          BY <1>1, <1>2
        <4>4. i \in 1..Len(log[n])
          BY <4>1, <4>2, <4>3, Within
        <4>5. i <= Len(log'[n]) /\ log'[n][i] = log[n][i]
          BY <2>2, <4>3, <4>4, StartsAt
        <4> QED BY <2>2, <4>2, <4>5
      <3> QED BY <3>2, <3>3, <3>4
    <2> QED BY <2>1, <2>2
  <1> QED BY <1>3, <1>4, <1>5 DEF LogInv

(* The primary writes the next entry of its term: nobody else has an entry there of that  *)
(* term.                                                                                   *)
LEMMA WritingKeeps ==
    ASSUME TypeInv, TypeInv', MembersInv, MembersInv', LogInv, NEW p \in Server, isPrimary(p),
           Fetched(p)' = Append(log[p], term[p]), log'[p] = Append(log[p], term[p]),
           \A k \in Server \ {p} : Fetched(k)' = Fetched(k) /\ log'[k] = log[k],
           term' = term, lastVote' = lastVote,
           \A k \in Server : isPrimary(k)' <=> isPrimary(k)
    PROVE  LogInv'
  <1> DEFINE l == Append(log[p], term[p])
             N == Len(log[p])
  <1>1. \A k \in Server : /\ Len(Fetched(k)) \in Nat /\ Len(log[k]) \in Nat /\ term[k] \in Nat
                          /\ StartsWith(Fetched(k), log[k])
                          /\ \A i \in 1..Len(Fetched(k)) : Fetched(k)[i] \in Nat
    BY ViewsHold DEF OplogViews, OplogView
  <1>2. /\ N \in Nat /\ Len(l) = N + 1 /\ l[N + 1] = term[p]
        /\ \A i \in 1..N : l[i] = log[p][i] /\ l[i] = Fetched(p)[i] /\ i \in 1..Len(Fetched(p))
        /\ term[p] \in Nat
    <2>1. log[p] \in Seq(Terms) /\ term[p] \in Terms
      BY LogFacts, PrimaryTerm DEF TypeInv
    <2>2. /\ Len(l) = N + 1 /\ l[N + 1] = term[p]
          /\ \A i \in 1..N : l[i] = log[p][i]
      BY <2>1, AppendProperties
    <2> HIDE DEF l
    <2> QED BY <1>1, <2>2 DEF StartsWith
  <1>3. \A m \in Server \ {p} : \A i \in 1..Len(Fetched(m)) :
            Fetched(m)[i] = term[p] => i <= N /\ log[p][i] = term[p]
    BY DEF LogInv, LeaderInv
  <1>4. Fetched(p)' = l /\ log'[p] = l
    OBVIOUS
  <1> HIDE DEF l, N
  <1>5. \A m \in Server \ {p} : \A i \in 1..Len(Fetched(m)) :
            i <= N + 1 /\ Fetched(m)[i] = l[i] =>
                i <= N /\ \A j \in 1..i : Fetched(m)[j] = l[j] /\ j \in 1..Len(Fetched(m))
    <2> SUFFICES ASSUME NEW m \in Server \ {p}, NEW i \in 1..Len(Fetched(m)),
                        i <= N + 1, Fetched(m)[i] = l[i], NEW j \in 1..i
                 PROVE  i <= N /\ Fetched(m)[j] = l[j] /\ j \in 1..Len(Fetched(m))
      OBVIOUS
    <2>1. i <= N
      BY <1>1, <1>2, <1>3
    <2>2. i \in 1..N /\ j \in 1..N /\ j \in 1..Len(Fetched(m))
      BY <1>1, <1>2, <2>1
    <2>3. i \in 1..Len(Fetched(p)) /\ Fetched(m)[i] = Fetched(p)[i]
      BY <1>2, <2>2
    <2>4. Fetched(m)[j] = Fetched(p)[j]
      BY <1>1, <2>3 DEF LogInv, MatchInv
    <2> QED BY <1>2, <2>1, <2>2, <2>4
  <1>6. MatchInv'
    <2> SUFFICES ASSUME NEW m \in Server, NEW n \in Server, NEW i \in 1..Len(Fetched(m)'),
                        i <= Len(Fetched(n)'), Fetched(m)'[i] = Fetched(n)'[i],
                        NEW j \in 1..i
                 PROVE  Fetched(m)'[j] = Fetched(n)'[j]
      BY DEF MatchInv
    <2>1. CASE m = p /\ n = p
      BY <2>1
    <2>2. CASE m # p /\ n # p
      BY <2>2 DEF LogInv, MatchInv
    <2>3. CASE m # p /\ n = p
      <3>1. i \in 1..Len(Fetched(m)) /\ i <= N + 1 /\ Fetched(m)[i] = l[i]
        BY <1>2, <1>4, <2>3
      <3> QED BY <1>4, <1>5, <2>3, <3>1
    <2>4. CASE m = p /\ n # p
      <3>1. i \in 1..Len(Fetched(n)) /\ i <= N + 1 /\ Fetched(n)[i] = l[i]
        BY <1>1, <1>2, <1>4, <2>4
      <3> QED BY <1>4, <1>5, <2>4, <3>1
    <2> QED BY <2>1, <2>2, <2>3, <2>4
  <1>7. ElectedInv'
    <2> SUFFICES ASSUME NEW m \in Server, NEW i \in 1..Len(Fetched(m)')
                 PROVE  IsMajority(Voted(Fetched(m)'[i]))
      BY DEF ElectedInv, Voted
    <2>1. CASE m # p
      BY <2>1 DEF LogInv, ElectedInv
    <2>2. CASE m = p /\ i <= N
      <3>1. i \in 1..N /\ Fetched(m)'[i] = Fetched(p)[i] /\ i \in 1..Len(Fetched(p))
        BY <1>2, <1>4, <2>2
      <3> QED BY <3>1 DEF LogInv, ElectedInv
    <2>3. CASE m = p /\ ~(i <= N)
      <3>1. Fetched(m)'[i] = term[p]
        BY <1>2, <1>4, <2>3
      <3> QED BY <3>1 DEF LogInv, LeaderInv
    <2> QED BY <2>1, <2>2, <2>3
  <1>8. LeaderInv'
    <2> SUFFICES ASSUME NEW n \in Server, isPrimary(n)
                 PROVE  /\ IsMajority(Voted(term[n]))
                        /\ \A m \in Server : isPrimary(m) /\ term[m] = term[n] => m = n
                        /\ \A m \in Server : \A i \in 1..Len(Fetched(m)') :
                            Fetched(m)'[i] = term[n] => i <= Len(log'[n]) /\ log'[n][i] = term[n]
      BY DEF LeaderInv, Voted
    <2>1. /\ IsMajority(Voted(term[n]))
          /\ \A m \in Server : isPrimary(m) /\ term[m] = term[n] => m = n
      BY DEF LogInv, LeaderInv
    <2>2. ASSUME NEW m \in Server, NEW i \in 1..Len(Fetched(m)'), Fetched(m)'[i] = term[n]
          PROVE  i <= Len(log'[n]) /\ log'[n][i] = term[n]
      <3>1. ASSUME NEW m2 \in Server, i \in 1..Len(Fetched(m2)), Fetched(m2)[i] = term[n]
            PROVE  i <= Len(log'[n]) /\ log'[n][i] = term[n]
        <4>1. i <= Len(log[n]) /\ log[n][i] = term[n] /\ i \in Nat /\ i >= 1
          BY <1>1, <3>1 DEF LogInv, LeaderInv
        <4>2. CASE n # p
          BY <4>1, <4>2
        <4>3. CASE n = p
          BY <1>1, <1>2, <1>4, <4>1, <4>3 DEF N
        <4> QED BY <4>2, <4>3
      <3>2. CASE m # p
        BY <2>2, <3>1, <3>2
      <3>3. CASE m = p /\ i <= N
        <4>1. i \in 1..N /\ Fetched(m)'[i] = Fetched(p)[i] /\ i \in 1..Len(Fetched(p))
          BY <1>2, <1>4, <2>2, <3>3
        <4> QED BY <2>2, <3>1, <4>1
      <3>4. CASE m = p /\ ~(i <= N)
        <4>1. i = N + 1 /\ Fetched(m)'[i] = term[p]
          BY <1>2, <1>4, <2>2, <3>4
        <4>2. n = p
          BY <2>1, <2>2, <4>1
        <4> QED BY <1>2, <1>4, <4>1, <4>2
      <3> QED BY <3>2, <3>3, <3>4
    <2> QED BY <2>1, <2>2
  <1> QED BY <1>6, <1>7, <1>8 DEF LogInv

-----------------------------------------------------------------------------
LEMMA ElectionKeeps ==
    ASSUME TypeInv, TypeInv', MembersInv, MembersInv', LogInv,
           NEW n \in Server, NEW Q \in SUBSET (Server \ {n}), RunElection(n, Q)
    PROVE  LogInv'
  <1> DEFINE t == term[n] + 1
             V == Q \cup {n}
  <1>1. /\ \A v \in Q : ~isPrimary(v) /\ lastVote[v] < t
        /\ term' = [v \in Server |-> IF v \in V THEN t ELSE term[v]]
        /\ lastVote' = [v \in Server |-> IF v \in V THEN t ELSE lastVote[v]]
        /\ role' = [role EXCEPT ![n] = IF IsMajority(V) THEN "LeaderElect" ELSE @]
        /\ role[n] = "Secondary" /\ log' = log /\ batch' = batch
    BY DEF RunElection, mayVote, syncVars
  <1>2. /\ \A k \in Server : /\ term[k] \in Nat /\ lastVote[k] \in Nat
                             /\ Len(Fetched(k)) \in Nat /\ Len(log[k]) \in Nat
                             /\ \A i \in 1..Len(Fetched(k)) : Fetched(k)[i] \in Nat
        /\ t \in Nat
    BY ViewsHold DEF OplogViews, OplogView
  <1>3. \A v \in V : lastVote[v] < t
    <2>1. lastVote[n] <= term[n]
      BY DEF MembersInv, MemberInv
    <2>2. lastVote[n] < t
      BY <1>2, <2>1
    <2> QED BY <1>1, <2>2
  <1> HIDE DEF t
  <1>4. \A v \in Server : lastVote'[v] >= lastVote[v]
    BY <1>1, <1>2, <1>3
  <1>5. \A k \in Server : StartsWith(Fetched(k), Fetched(k)') /\ Fetched(k)' = Fetched(k)
    BY <1>1, <1>2 DEF Fetched, StartsWith
  <1>6. \A k \in Server : isPrimary(k)' =>
            (isPrimary(k) /\ term'[k] = term[k]) \/ (k = n /\ IsMajority(V))
    <2> SUFFICES ASSUME NEW k \in Server, isPrimary(k)', k # n \/ ~IsMajority(V)
                 PROVE  isPrimary(k) /\ term'[k] = term[k]
      OBVIOUS
    <2>1. role'[k] = role[k]
      BY <1>1 DEF TypeInv, ElectionType
    <2>2. isPrimary(k)
      BY <2>1 DEF isPrimary
    <2>3. k \notin V
      BY <1>1, <2>2 DEF isPrimary, Leading
    <2> QED BY <1>1, <2>2, <2>3
  <1>7. ASSUME IsMajority(V) PROVE FreshTerm(n)
    <2>1. \A t2 \in Nat : t2 >= t => ~IsMajority(Voted(t2))
      <3> SUFFICES ASSUME NEW t2 \in Nat, t2 >= t, IsMajority(Voted(t2)) PROVE FALSE
        OBVIOUS
      <3>1. V \in SUBSET Server /\ Voted(t2) \in SUBSET Server
        BY DEF Voted
      <3>2. PICK v \in Server : v \in V /\ v \in Voted(t2)
        BY <1>7, <3>1, MajoritiesMeet
      <3>3. lastVote[v] >= t2 /\ lastVote[v] < t
        BY <1>3, <3>2 DEF Voted
      <3> QED BY <1>2, <3>3
    <2>2. term'[n] = t
      BY <1>1
    <2>3. IsMajority({v \in Server : lastVote'[v] >= term'[n]})
      <3>1. V \subseteq {v \in Server : lastVote'[v] >= term'[n]}
        BY <1>1, <1>2, <2>2
      <3> QED BY <1>7, <3>1, MajorityGrows
    <2>4. \A m \in Server : \A i \in 1..Len(Fetched(m)) : Fetched(m)[i] # term'[n]
      <3>1. \A m \in Server : \A i \in 1..Len(Fetched(m)) : IsMajority(Voted(Fetched(m)[i]))
        BY DEF LogInv, ElectedInv
      <3> QED BY <1>2, <2>1, <2>2, <3>1
    <2>5. \A m \in Server \ {n} : isPrimary(m)' => term'[m] # term'[n]
      <3>1. \A m \in Server : isPrimary(m) => IsMajority(Voted(term[m]))
        BY DEF LogInv, LeaderInv
      <3> QED BY <1>2, <1>6, <2>1, <2>2, <3>1
    <2> QED BY <2>3, <2>4, <2>5 DEF FreshTerm
  <1>8. \A k \in Server : isPrimary(k)' =>
            \/ isPrimary(k) /\ term'[k] = term[k] /\ StartsWith(log'[k], log[k])
            \/ FreshTerm(k)
    <2>1. \A k \in Server : StartsWith(log'[k], log[k])
      BY <1>1, <1>2 DEF StartsWith
    <2> QED BY <1>6, <1>7, <2>1
  <1> QED BY <1>4, <1>5, <1>8, CopyingKeeps

(* The batch continues the oplog it was fetched for: together they are how the oplog of    *)
(* the source begins.                                                                      *)
LEMMA BatchContinues ==
    ASSUME TypeInv, MembersInv, LogInv, NEW n \in Server, NEW m \in Server,
           NEW b \in batches(n, m)
    PROVE  /\ StartsWith(Fetched(m), log[n] \o b.entries)
           /\ Len(log[n] \o b.entries) \in Nat
  <1> DEFINE N == Len(log[n])
             K == Len(b.entries)
             f == log[n] \o b.entries
  <1>1. /\ b \in Batches /\ N + K <= Len(log[m])
        /\ \A i \in 1..K : b.entries[i] = log[m][N + i]
        /\ Has(log[m], Top(log[n]))
    <2>1. LogType /\ CommitType /\ ElectionType
      BY DEF TypeInv
    <2>2. /\ b \in Batches
          /\ Len(log[n]) + Len(b.entries) <= Len(log[m])
          /\ \A i \in 1..Len(b.entries) : b.entries[i] = log[m][Len(log[n]) + i]
          /\ Has(log[m], Top(log[n]))
      <3>1. /\ b \in Batches /\ Has(log[m], Top(log[n]))
            /\ Len(log[n]) + Len(b.entries) <= Len(log[m])
        BY <2>1, BatchFacts
      <3>2. Continues(n, m, b)
        BY <2>1, BatchFacts
      <3> QED BY <3>1, <3>2 DEF Continues
    <2> QED BY <2>2, Zenon
  <1>2. /\ log[n] \in Seq(Terms) /\ N \in Nat /\ Len(log[m]) \in Nat
        /\ Len(Fetched(m)) \in Nat /\ Len(Fetched(n)) \in Nat
        /\ StartsWith(Fetched(m), log[m]) /\ StartsWith(Fetched(n), log[n])
    BY ViewsHold DEF OplogViews, OplogView
  <1>3. b.entries \in Seq(Terms) /\ K \in Nat
    BY <1>1, LenProperties DEF Batches
  <1>4. /\ Len(f) = N + K
        /\ \A i \in 1..N + K : f[i] = IF i <= N THEN log[n][i] ELSE b.entries[i - N]
    BY <1>2, <1>3, ConcatProperties
  <1>5. N # 0 => N <= Len(log[m]) /\ log[m][N] = log[n][N]
    <2>1. Top(log[n]) = [t |-> IF N = 0 THEN 0 ELSE log[n][N], i |-> N]
      BY DEF Top, OpAt, OpTime
    <2>2. Top(log[n]).i = N /\ Top(log[n]).t = IF N = 0 THEN 0 ELSE log[n][N]
      BY <2>1
    <2>3. OpAt(log[m], N).t = IF N = 0 THEN 0 ELSE log[m][N]
      BY DEF OpAt, OpTime
    <2>4. Top(log[n]).i <= Len(log[m]) /\ OpAt(log[m], Top(log[n]).i) = Top(log[n])
      BY <1>1 DEF Has
    <2>5. N <= Len(log[m]) /\ OpAt(log[m], N) = Top(log[n])
      BY <2>2, <2>4
    <2> HIDE DEF N
    <2> QED BY <2>2, <2>3, <2>5
  <1> HIDE DEF f, N, K
  <1>6. ASSUME NEW i \in 1..N PROVE log[n][i] = Fetched(m)[i]
    <2>1. N \in 1..Len(log[n]) /\ N \in 1..Len(log[m]) /\ i \in 1..Len(log[n]) /\ log[m][N] = log[n][N]
      BY <1>2, <1>5 DEF N
    <2>2. /\ N \in 1..Len(Fetched(n)) /\ Fetched(n)[N] = log[n][N] /\ Fetched(n)[i] = log[n][i]
          /\ N <= Len(Fetched(m)) /\ Fetched(m)[N] = log[m][N]
      <3>1. Len(log[n]) \in Nat
        BY <1>2 DEF N
      <3> QED BY <1>2, <2>1, <3>1, StartsAt
    <2>3. Fetched(n)[i] = Fetched(m)[i]
      BY <2>1, <2>2 DEF LogInv, MatchInv
    <2> QED BY <2>2, <2>3
  <1>7. ASSUME NEW i \in 1..N + K PROVE f[i] = Fetched(m)[i]
    <2>1. CASE i <= N
      <3>1. i \in 1..N
        BY <1>2, <2>1
      <3> QED BY <1>4, <1>6, <2>1, <3>1
    <2>2. CASE ~(i <= N)
      <3>1. i - N \in 1..K /\ N + (i - N) = i /\ i \in 1..Len(log[m])
        BY <1>1, <1>2, <1>3, <2>2
      <3>2. f[i] = b.entries[i - N]
        BY <1>4, <2>2
      <3>3. b.entries[i - N] = log[m][i]
        BY <1>1, <3>1
      <3>4. log[m][i] = Fetched(m)[i]
        BY <1>2, <3>1, StartsAt
      <3> QED BY <3>2, <3>3, <3>4
    <2> QED BY <2>1, <2>2
  <1>8. Len(f) \in Nat /\ Len(f) <= Len(Fetched(m))
    <2>1. Len(log[m]) <= Len(Fetched(m))
      BY <1>2 DEF StartsWith
    <2>2. \A a, c, x, y \in Nat : a + c <= x /\ x <= y => a + c \in Nat /\ a + c <= y
      OBVIOUS
    <2>3. N + K \in Nat /\ N + K <= Len(Fetched(m))
      BY <1>1, <1>2, <1>3, <2>1, <2>2
    <2> QED BY <1>4, <2>3
  <1>9. StartsWith(Fetched(m), f)
    BY <1>4, <1>7, <1>8 DEF StartsWith
  <1> QED BY <1>8, <1>9 DEF f

-----------------------------------------------------------------------------
LEMMA InitLog == Init => LogInv
  <1> SUFFICES ASSUME Init PROVE LogInv
    OBVIOUS
  <1>1. \A n \in Server : Fetched(n) = <<>> /\ Len(Fetched(n)) = 0 /\ ~isPrimary(n)
    BY EmptySeq DEF Init, Fetched, isPrimary, Leading
  <1>2. \A n \in Server : 1..Len(Fetched(n)) = {}
    BY <1>1
  <1> QED BY <1>1, <1>2 DEF LogInv, MatchInv, LeaderInv, ElectedInv

\* Only the oplog and the batch of n change.
OnlyOplogOf(n) ==
    \A k \in Server \ {n} : log'[k] = log[k] /\ batch'[k] = batch[k]

(* Steps that leave the primaries and the votes, and at most copy, cut or apply what one   *)
(* member has.                                                                             *)
LEMMA OneCopyKeeps ==
    ASSUME TypeInv, TypeInv', MembersInv, MembersInv', LogInv, NEW n \in Server,
           OnlyOplogOf(n), lastVote' = lastVote,
           NEW m \in Server, StartsWith(Fetched(m), Fetched(n)'),
           \A k \in Server : isPrimary(k)' => isPrimary(k) /\ term'[k] = term[k],
           isPrimary(n)' => StartsWith(log'[n], log[n])
    PROVE  LogInv'
  <1>1. \A k \in Server : /\ Len(Fetched(k)) \in Nat /\ Len(log[k]) \in Nat /\ lastVote[k] \in Nat
    BY ViewsHold DEF OplogViews, OplogView
  <1>2. ASSUME NEW k \in Server PROVE \E k2 \in Server : StartsWith(Fetched(k2), Fetched(k)')
    <2>1. CASE k = n
      BY <2>1
    <2>2. CASE k # n
      <3>1. Fetched(k)' = Fetched(k)
        BY <2>2 DEF OnlyOplogOf, Fetched
      <3>2. StartsWith(Fetched(k), Fetched(k)')
        BY <1>1, <3>1 DEF StartsWith
      <3> QED BY <3>2
    <2> QED BY <2>1, <2>2
  <1>3. ASSUME NEW k \in Server, isPrimary(k)'
        PROVE  isPrimary(k) /\ term'[k] = term[k] /\ StartsWith(log'[k], log[k])
    <2>1. CASE k = n
      BY <1>3, <2>1
    <2>2. CASE k # n
      <3>1. log'[k] = log[k]
        BY <2>2 DEF OnlyOplogOf
      <3>2. StartsWith(log'[k], log[k])
        BY <1>1, <3>1 DEF StartsWith
      <3> QED BY <1>3, <3>2
    <2> QED BY <2>1, <2>2
  <1>4. \A v \in Server : lastVote'[v] >= lastVote[v]
    BY <1>1
  <1> QED BY <1>2, <1>3, <1>4, CopyingKeeps

(* A part of an oplog is what the oplog starts with. *)
LEMMA CutStarts ==
    ASSUME TypeInv, MembersInv, NEW n \in Server, NEW k \in 0..Len(log[n])
    PROVE  StartsWith(Fetched(n), SubSeq(log[n], 1, k))
  <1>1. /\ log[n] \in Seq(Terms) /\ Len(log[n]) \in Nat /\ Len(Fetched(n)) \in Nat
        /\ StartsWith(Fetched(n), log[n])
    BY ViewsHold DEF OplogViews, OplogView
  <1> DEFINE s == SubSeq(log[n], 1, k)
  <1>2. Len(s) = k /\ \A i \in 1..k : s[i] = log[n][i]
    BY <1>1, PrefixOf
  <1> HIDE DEF s
  <1>3. k \in Nat /\ k <= Len(log[n]) /\ \A i \in 1..k : i \in 1..Len(log[n])
    BY <1>1
  <1>4. \A i \in 1..k : log[n][i] = Fetched(n)[i]
    BY <1>1, <1>3, StartsAt
  <1>5. Len(log[n]) <= Len(Fetched(n))
    BY <1>1 DEF StartsWith
  <1>6. k <= Len(Fetched(n))
    BY <1>1, <1>3, <1>5
  <1> QED BY <1>2, <1>4, <1>6 DEF StartsWith, s

(* What most steps do to roles: nobody becomes primary, and a primary keeps its term. *)
LEMMA UpdateTermPrimaries ==
    ASSUME TypeInv, NEW n \in Server, NEW t \in 0..MaxTerm, updateTerm(n, t), NEW k \in Server,
           isPrimary(k)'
    PROVE  isPrimary(k) /\ term'[k] = term[k]
  <1>1. /\ role'[k] = role[k] \/ (isPrimary(k) /\ role'[k] = "SteppingDown")
        /\ term'[k] = term[k] \/ (role'[k] \notin Leading /\ term'[k] >= term[k])
    BY UpdateTermSmall
  <1> QED BY <1>1 DEF isPrimary

LEMMA NextLog ==
    TypeInv /\ TypeInv' /\ MembersInv /\ MembersInv' /\ LogInv /\ [Next]_vars => LogInv'
  <1> SUFFICES ASSUME TypeInv, TypeInv', MembersInv, MembersInv', LogInv, [Next]_vars
               PROVE  LogInv'
    OBVIOUS
  <1>0. \A n \in Server : /\ log[n] \in Seq(Terms) /\ Len(log[n]) \in Nat
                          /\ Len(Fetched(n)) \in Nat
                          /\ StartsWith(Fetched(n), log[n]) /\ StartsWith(log[n], log[n])
                          /\ StartsWith(Fetched(n), Fetched(n))
    BY ViewsHold DEF OplogViews, OplogView, StartsWith
  <1>a. ElectionType /\ LogType /\ SyncType
    BY DEF TypeInv
  <1>b. ASSUME UNCHANGED <<log, batch, lastVote>>, NEW n \in Server,
               \A k \in Server : isPrimary(k)' => isPrimary(k) /\ term'[k] = term[k]
        PROVE  LogInv'
    <2>1. OnlyOplogOf(n) /\ Fetched(n)' = Fetched(n)
      BY <1>b DEF OnlyOplogOf, Fetched
    <2>2. StartsWith(Fetched(n), Fetched(n)') /\ StartsWith(log'[n], log[n])
      BY <1>0, <1>b, <2>1
    <2> QED BY <1>b, <2>1, <2>2, OneCopyKeeps
  <1>1. ASSUME NEW n \in Server, NEW Q \in SUBSET (Server \ {n}), RunElection(n, Q)
        PROVE  LogInv'
    BY <1>1, ElectionKeeps
  <1>2. ASSUME NEW n \in Server, SignalDrainComplete(n) \/ ClientWrite(n)
        PROVE  LogInv'
    <2>1. /\ role[n] \in Leading /\ write(n) /\ Len(log[n]) < MaxLog
          /\ term' = term /\ lastVote' = lastVote
          /\ role' = role \/ role' = [role EXCEPT ![n] = "Master"]
          /\ batch' = batch \/ \E x : batch' = [batch EXCEPT ![n] = x]
      BY <1>2 DEF SignalDrainComplete, ClientWrite, Leading, electionVars, syncVars
    <2>2. isPrimary(n) /\ term[n] \in Terms
      BY <2>1, PrimaryTerm DEF isPrimary
    <2>3. log' = [log EXCEPT ![n] = Append(log[n], term[n])]
      BY <2>1, <2>2, WriteFacts
    <2>4. log'[n] = Append(log[n], term[n]) /\ OnlyOplogOf(n)
      BY <1>a, <2>1, <2>3 DEF OnlyOplogOf, LogType, SyncType
    <2>5. \A k \in Server : isPrimary(k)' <=> isPrimary(k)
      BY <1>a, <2>1 DEF isPrimary, ElectionType, Leading
    <2>6. \A k \in Server \ {n} : Fetched(k)' = Fetched(k) /\ log'[k] = log[k]
      BY <2>4 DEF OnlyOplogOf, Fetched
    <2>7. batch'[n] # NoBatch => batch'[n].entries = <<>>
      <3>1. CASE SignalDrainComplete(n)
        <4>1. batch[n] # NoBatch => [batch[n] EXCEPT !.entries = <<>>].entries = <<>>
          BY <1>a DEF SyncType, Batches
        <4> QED BY <1>a, <3>1, <4>1 DEF SignalDrainComplete, SyncType
      <3>2. CASE ClientWrite(n)
        BY <3>2 DEF ClientWrite, syncVars, MembersInv, MemberInv
      <3> QED BY <1>2, <3>1, <3>2
    <2>8. Fetched(n)' = log'[n]
      <3>1. CASE batch'[n] = NoBatch
        BY <3>1 DEF Fetched
      <3>2. CASE batch'[n] # NoBatch
        <4>1. Fetched(n)' = log'[n] \o <<>>
          BY <2>7, <3>2 DEF Fetched
        <4>2. log'[n] \in Seq(Terms)
          BY DEF TypeInv, LogType
        <4> QED BY <4>1, <4>2, ConcatEmptySeq
      <3> QED BY <3>1, <3>2
    <2> QED BY <2>1, <2>2, <2>4, <2>5, <2>6, <2>8, WritingKeeps
  <1>3. ASSUME NEW n \in Server, FinishStepDown(n)
        PROVE  LogInv'
    <2>1. UNCHANGED <<log, batch, lastVote>>
      BY <1>3 DEF FinishStepDown, oplogVars, syncVars
    <2>2. \A k \in Server : isPrimary(k)' => isPrimary(k) /\ term'[k] = term[k]
      BY <1>3, <1>a DEF FinishStepDown, isPrimary, ElectionType, Leading
    <2> QED BY <1>b, <2>1, <2>2
  <1>4. ASSUME NEW n \in Server, JournalFlush(n) \/ UpdateCommitPoint(n)
        PROVE  LogInv'
    <2>1. UNCHANGED <<log, batch, lastVote, role, term>>
      BY <1>4 DEF JournalFlush, UpdateCommitPoint, electionVars, oplogVars, syncVars
    <2> QED BY <1>b, <2>1 DEF isPrimary
  <1>5. ASSUME NEW n \in Server, ProcessBatch(n)
        PROVE  LogInv'
    <2>1. batch[n] \in Batches /\ Len(log[n]) + Len(batch[n].entries) <= MaxLog
      BY <1>5, <1>a DEF ProcessBatch, SyncType, MembersInv, MemberInv
    <2>2. onSuccessfulBatch(n, batch[n]) /\ batch' = [batch EXCEPT ![n] = NoBatch]
          /\ batch[n] # NoBatch
      BY <1>5 DEF ProcessBatch
    <2>3. /\ log' = [log EXCEPT ![n] = log[n] \o batch[n].entries]
          /\ updateTerm(n, batch[n].term) /\ lastVote' = lastVote
          /\ batch[n].term \in 0..MaxTerm
      BY <2>1, <2>2, OnBatchFacts DEF Batches
    <2>4. /\ log'[n] = Fetched(n) /\ Fetched(n)' = Fetched(n) /\ OnlyOplogOf(n)
      BY <1>a, <2>2, <2>3 DEF Fetched, OnlyOplogOf, LogType, SyncType
    <2>5. \A k \in Server : isPrimary(k)' => isPrimary(k) /\ term'[k] = term[k]
      BY <2>3, UpdateTermPrimaries
    <2>6. StartsWith(Fetched(n), Fetched(n)') /\ StartsWith(log'[n], log[n])
      BY <1>0, <2>4
    <2> QED BY <2>3, <2>4, <2>5, <2>6, OneCopyKeeps
  <1>6. ASSUME NEW n \in Server, NEW k \in 0..Len(log[n]),
               log' = [log EXCEPT ![n] = SubSeq(log[n], 1, k)],
               batch'[n] = NoBatch, \A j \in Server \ {n} : batch'[j] = batch[j],
               lastVote' = lastVote, ~isPrimary(n)',
               \A j \in Server : isPrimary(j)' => isPrimary(j) /\ term'[j] = term[j]
        PROVE  LogInv'
    <2>1. OnlyOplogOf(n) /\ Fetched(n)' = SubSeq(log[n], 1, k)
      BY <1>6, <1>a DEF OnlyOplogOf, Fetched, LogType
    <2>2. StartsWith(Fetched(n), Fetched(n)')
      BY <2>1, CutStarts
    <2> QED BY <1>6, <2>1, <2>2, OneCopyKeeps
  <1>7. ASSUME NEW n \in Server, TruncateOplog(n)
        PROVE  LogInv'
    <2> DEFINE cp == commonPoint(log[n], log[source[n]])
    <2>1. cp.i \in 0..Len(log[n])
      BY CommonPointFacts DEF TypeInv
    <2>2. /\ log' = [log EXCEPT ![n] = SubSeq(log[n], 1, cp.i)]
          /\ role[n] = "Rollback" /\ role' = [role EXCEPT ![n] = "Truncated"]
          /\ batch' = batch /\ lastVote' = lastVote /\ term' = term
      BY <1>7 DEF TruncateOplog, syncVars
    <2>3. batch[n] = NoBatch
      BY <2>2 DEF MembersInv, MemberInv, RollingBack
    <2>4. ~isPrimary(n)' /\ \A j \in Server : isPrimary(j)' => isPrimary(j) /\ term'[j] = term[j]
      BY <1>a, <2>2 DEF isPrimary, ElectionType, Leading
    <2> HIDE DEF cp
    <2> QED BY <1>6, <2>1, <2>2, <2>3, <2>4
  <1>8. ASSUME NEW n \in Server, FinishRollback(n) \/ AbandonRollback(n)
        PROVE  LogInv'
    <2>1. /\ UNCHANGED <<log, batch, lastVote, term>>
          /\ role' = [role EXCEPT ![n] = "Secondary"]
      BY <1>8 DEF FinishRollback, AbandonRollback, oplogVars
    <2>2. \A k \in Server : isPrimary(k)' => isPrimary(k) /\ term'[k] = term[k]
      BY <1>a, <2>1 DEF isPrimary, ElectionType, Leading
    <2> QED BY <1>b, <2>1, <2>2
  <1>9. ASSUME NEW n \in Server, Restart(n)
        PROVE  LogInv'
    <2>1. PICK len \in (IF role[n] = "Truncated" THEN Len(log[n]) ELSE lastDurable[n].i)
                       .. Len(log[n]) :
            /\ log' = [log EXCEPT ![n] = SubSeq(log[n], 1, len)]
            /\ term' = [term EXCEPT ![n] = Larger(lastVote[n], Top(SubSeq(log[n], 1, len)).t)]
      BY <1>9 DEF Restart
    <2>2. len \in 0..Len(log[n])
      <3>1. lastDurable[n].i \in Nat /\ Len(log[n]) \in Nat
        BY OpTimeFacts, LogFacts DEF TypeInv, AppliedType
      <3> QED BY <3>1
    <2>3. /\ role' = [role EXCEPT ![n] = "Secondary"] /\ lastVote' = lastVote
          /\ batch' = [batch EXCEPT ![n] = NoBatch]
      BY <1>9 DEF Restart
    <2>4. ~isPrimary(n)' /\ \A j \in Server : isPrimary(j)' => isPrimary(j) /\ term'[j] = term[j]
      BY <1>a, <2>1, <2>3 DEF isPrimary, ElectionType, Leading
    <2>5. batch'[n] = NoBatch /\ \A j \in Server \ {n} : batch'[j] = batch[j]
      BY <1>a, <2>3 DEF SyncType
    <2> QED BY <1>6, <2>1, <2>2, <2>3, <2>4, <2>5
  <1>10. ASSUME NEW n \in Server, NEW c \in published, HeartbeatCommitPoint(n, c)
         PROVE  LogInv'
    <2>1. UNCHANGED <<log, batch, lastVote, role, term>>
      BY <1>10 DEF HeartbeatCommitPoint, electionVars, oplogVars, syncVars
    <2> QED BY <1>b, <2>1 DEF isPrimary
  <1>11. ASSUME NEW n \in Server, NEW m \in Server, LearnTerm(n, m) \/ ReportPosition(m, n)
         PROVE  LogInv'
    <2>1. /\ updateTerm(n, term[m]) /\ term[m] \in 0..MaxTerm
          /\ UNCHANGED <<lastVote, log, batch>>
      BY <1>11, <1>a DEF LearnTerm, ReportPosition, ElectionType, oplogVars, syncVars
    <2>2. \A k \in Server : isPrimary(k)' => isPrimary(k) /\ term'[k] = term[k]
      BY <2>1, UpdateTermPrimaries
    <2> QED BY <1>b, <2>1, <2>2
  <1>12. ASSUME NEW n \in Server, NEW m \in Server, Sync(n, m)
         PROVE  LogInv'
    <2>1. PICK b \in batches(n, m) : onSuccessfulBatch(n, b)
      BY <1>12 DEF Sync
    <2>2. b \in Batches /\ Len(log[n]) + Len(b.entries) <= MaxLog /\ b.term \in 0..MaxTerm
      BY BatchFacts DEF TypeInv, Batches
    <2>3. /\ log' = [log EXCEPT ![n] = log[n] \o b.entries]
          /\ updateTerm(n, b.term) /\ lastVote' = lastVote
          /\ batch' = batch /\ batch[n] = NoBatch /\ role[n] = "Secondary"
      BY <1>12, <2>1, <2>2, OnBatchFacts DEF Sync
    <2>4. OnlyOplogOf(n) /\ Fetched(n)' = log[n] \o b.entries
      BY <1>a, <2>3 DEF Fetched, OnlyOplogOf, LogType
    <2>5. StartsWith(Fetched(m), Fetched(n)')
      BY <2>4, BatchContinues
    <2>6. \A k \in Server : isPrimary(k)' => isPrimary(k) /\ term'[k] = term[k]
      BY <2>2, <2>3, UpdateTermPrimaries
    <2>7. ~isPrimary(n)'
      BY <2>3, <2>6 DEF isPrimary, Leading
    <2> QED BY <2>3, <2>4, <2>5, <2>6, <2>7, OneCopyKeeps
  <1>13. ASSUME NEW n \in Server, NEW m \in Server, FetchBatch(n, m)
         PROVE  LogInv'
    <2>1. PICK b \in batches(n, m) : batch' = [batch EXCEPT ![n] = b]
      BY <1>13 DEF FetchBatch
    <2>2. UNCHANGED <<term, lastVote, role, log>>
      BY <1>13 DEF FetchBatch, electionVars, oplogVars
    <2>3. /\ OnlyOplogOf(n) /\ batch'[n] = b
      BY <1>a, <2>1, <2>2 DEF OnlyOplogOf, SyncType
    <2>4. StartsWith(Fetched(m), log[n] \o b.entries)
      BY BatchContinues
    <2>5. \A k \in Server : isPrimary(k)' => isPrimary(k) /\ term'[k] = term[k]
      BY <2>2 DEF isPrimary
    <2>6. CASE b # NoBatch
      <3>1. Fetched(n)' = log[n] \o b.entries
        BY <2>2, <2>3, <2>6 DEF Fetched
      <3> QED BY <1>0, <2>2, <2>3, <2>4, <2>5, <3>1, OneCopyKeeps
    <2>7. CASE b = NoBatch
      <3>1. Fetched(n)' = log[n]
        BY <2>2, <2>3, <2>7 DEF Fetched
      <3> QED BY <1>0, <2>2, <2>3, <2>5, <3>1, OneCopyKeeps
    <2> QED BY <2>6, <2>7
  <1>14. ASSUME NEW n \in Server, NEW m \in Server, EnterRollback(n, m)
         PROVE  LogInv'
    <2>1. /\ UNCHANGED <<log, batch, lastVote, term>>
          /\ role' = [role EXCEPT ![n] = "Rollback"]
      BY <1>14 DEF EnterRollback, oplogVars
    <2>2. \A k \in Server : isPrimary(k)' => isPrimary(k) /\ term'[k] = term[k]
      BY <1>a, <2>1 DEF isPrimary, ElectionType, Leading
    <2> QED BY <1>b, <2>1, <2>2
  <1>15. CASE UNCHANGED vars
    <2>1. UNCHANGED <<log, batch, lastVote, role, term>>
      BY <1>15 DEF vars, electionVars, oplogVars, syncVars
    <2>2. CASE Server = {}
      BY <2>2 DEF LogInv, MatchInv, LeaderInv, ElectedInv
    <2>3. CASE Server # {}
      BY <1>b, <2>1, <2>3 DEF isPrimary
    <2> QED BY <2>2, <2>3
  <1> QED BY <1>1, <1>2, <1>3, <1>4, <1>5, <1>7, <1>8, <1>9, <1>10, <1>11, <1>12, <1>13,
             <1>14, <1>15 DEF Next

-----------------------------------------------------------------------------
(* Theorems. *)

Inv == TypeInv /\ MembersInv /\ LogInv

LEMMA Invariance == Spec => []Inv
  <1>1. Init => Inv
    BY InitType, InitLog DEF Inv
  <1>2. Inv /\ [Next]_vars => Inv'
    BY NextType, NextMembers, NextLog DEF Inv
  <1> QED BY <1>1, <1>2, PTL DEF Spec

(* Every reachable state is well typed: optimes are those of entries within the bounds, *)
(* terms and oplogs stay within theirs.                                                  *)
THEOREM TypeCorrect == Spec => []TypeOK
  <1>1. TypeInv => TypeOK
    <2> SUFFICES ASSUME TypeInv PROVE TypeOK
      OBVIOUS
    <2>1. /\ term \in [Server -> 0..MaxTerm] /\ lastVote \in [Server -> 0..MaxTerm]
          /\ role \in [Server -> {"Secondary"} \cup Leading \cup RollingBack]
          /\ pendingTerm \in [Server -> 0..MaxTerm]
      BY DEF TypeInv, ElectionType, Roles
    <2>2. \A n \in Server : log[n] \in Seq(1..MaxTerm) /\ Len(log[n]) <= MaxLog
      BY DEF TypeInv, LogType, Terms
    <2>3. \A n \in Server : batch[n] # NoBatch =>
            /\ batch[n].entries \in Seq(1..MaxTerm)
            /\ batch[n].commit \in OpTimes
            /\ batch[n].term \in 0..MaxTerm
      BY DEF TypeInv, SyncType, Batches, Terms
    <2>4. source \in [Server -> Server \cup {None}] /\ restarts \in 0..MaxRestarts
      BY DEF TypeInv, SyncType
    <2>5. AppliedType /\ CommitType /\ StableType /\ PrimaryType
      BY DEF TypeInv
    <2> QED BY <2>1, <2>2, <2>3, <2>4, <2>5 DEF TypeOK, AppliedType, CommitType, StableType,
               PrimaryType
  <1> QED BY <1>1, Invariance, PTL DEF Inv

(* Oplogs that share an entry share everything before it, through elections, concurrent   *)
(* primaries, catch-up, late batches, roll backs and crashes: one optime of the sync       *)
(* source is enough for checkRemoteOplogStart and syncRollBackLocalOperations to look at.  *)
THEOREM OplogsMatch == Spec => []LogMatching
  <1>1. Inv => LogMatching
    <2> SUFFICES ASSUME Inv, NEW m \in Server, NEW n \in Server, NEW i \in DOMAIN log[m],
                        Has(log[n], OpAt(log[m], i))
                 PROVE  SubSeq(log[m], 1, i) = SubSeq(log[n], 1, i)
      BY DEF LogMatching
    <2>1. \A k \in Server : /\ log[k] \in Seq(Terms) /\ Len(log[k]) \in Nat
                            /\ Len(Fetched(k)) \in Nat /\ StartsWith(Fetched(k), log[k])
      BY ViewsHold DEF Inv, OplogViews, OplogView
    <2>2. i \in 1..Len(log[m]) /\ i # 0
      BY <2>1, LenProperties
    <2>3. i <= Len(log[n]) /\ log[n][i] = log[m][i]
      <3>1. OpAt(log[m], i).i = i /\ OpAt(log[m], i).t = log[m][i]
        BY <2>2 DEF OpAt, OpTime
      <3>2. OpAt(log[n], i).t = log[n][i]
        BY <2>2 DEF OpAt, OpTime
      <3>3. /\ OpAt(log[m], i).i <= Len(log[n])
            /\ OpAt(log[n], OpAt(log[m], i).i) = OpAt(log[m], i)
        BY DEF Has
      <3>4. i <= Len(log[n]) /\ OpAt(log[n], i) = OpAt(log[m], i)
        BY <3>1, <3>3
      <3> QED BY <3>1, <3>2, <3>4
    <2>4. i \in 1..Len(log[n]) /\ \A j \in 1..i : j \in 1..Len(log[m]) /\ j \in 1..Len(log[n])
      BY <2>1, <2>2, <2>3, Within
    <2>5. /\ i \in 1..Len(Fetched(m)) /\ i <= Len(Fetched(n))
          /\ Fetched(m)[i] = Fetched(n)[i]
      <3>1. i \in 1..Len(Fetched(m)) /\ Fetched(m)[i] = log[m][i]
        BY <2>1, <2>2, StartsAt
      <3>2. i <= Len(Fetched(n)) /\ Fetched(n)[i] = log[n][i]
        BY <2>1, <2>4, StartsAt
      <3> QED BY <2>3, <3>1, <3>2
    <2>6. \A j \in 1..i : Fetched(m)[j] = Fetched(n)[j]
      BY <2>5 DEF Inv, LogInv, MatchInv
    <2>7. \A j \in 1..i : log[m][j] = log[n][j]
      <3>1. \A j \in 1..i : Fetched(m)[j] = log[m][j]
        BY <2>1, <2>4, StartsAt
      <3>2. \A j \in 1..i : Fetched(n)[j] = log[n][j]
        BY <2>1, <2>4, StartsAt
      <3> QED BY <2>6, <3>1, <3>2
    <2> DEFINE a == SubSeq(log[m], 1, i)
               b == SubSeq(log[n], 1, i)
    <2>8. i \in 0..Len(log[m]) /\ i \in 0..Len(log[n]) /\ i \in Nat
      BY <2>1, <2>2, <2>4
    <2>9. /\ a \in Seq(Terms) /\ Len(a) = i /\ \A j \in 1..i : a[j] = log[m][j]
          /\ b \in Seq(Terms) /\ Len(b) = i /\ \A j \in 1..i : b[j] = log[n][j]
      BY <2>1, <2>8, PrefixOf
    <2> HIDE DEF a, b
    <2>10. a = b
      BY <2>7, <2>9, SeqEqual
    <2> QED BY <2>10 DEF a, b
  <1> QED BY <1>1, Invariance, PTL
=============================================================================
