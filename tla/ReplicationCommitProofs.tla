---------------------- MODULE ReplicationCommitProofs ----------------------
(***************************************************************************)
(* What is majority committed is never lost: theorems about Replication,   *)
(* for any number of members, terms, entries, batch sizes and restarts,    *)
(* without the late batches of LateBatches and the stale roll backs of     *)
(* StaleRollbacks, with either of which committed entries are lost.        *)
(***************************************************************************)
EXTENDS ReplicationProofs

-----------------------------------------------------------------------------
(* The invariant. *)

\* The entry c is on the oplog of n; or on it, or in the batch that n is about to append.
Holds(n, c) == c.i \in 1..Len(log[n]) /\ log[n][c.i] = c.t
Got(n, c) == c.i \in 1..Len(Fetched(n)) /\ Fetched(n)[c.i] = c.t

\* The terms of an oplog do not decrease.
SortedInv ==
    \A n \in Server : \A j \in 1..Len(Fetched(n)) : \A i \in 1..j :
        Fetched(n)[i] <= Fetched(n)[j]

\* The entries of one term are on one branch.
OneBranchInv ==
    \A m, n \in Server : \A i \in 1..Len(Fetched(m)) : \A j \in 1..Len(Fetched(n)) :
        i <= j /\ Fetched(m)[i] = Fetched(n)[j] => Fetched(n)[i] = Fetched(n)[j]

ShapeInv == SortedInv /\ OneBranchInv

\* The entries of n that a crash does not take away.
DurableLen(n) == IF role[n] = "Truncated" THEN Len(log[n]) ELSE lastDurable[n].i
Durable(n, c) == Holds(n, c) /\ c.i <= DurableLen(n)

\* What a member says of its oplog.  While it rolls back it may speak of entries it has
\* dropped already.
Says(n) ==
    /\ role[n] # "Truncated" =>
        lastApplied[n] = Top(log[n]) /\ Has(log[n], lastDurable[n])
    /\ role[n] = "Truncated" => AtMost(Top(log[n]), lastApplied[n])
    /\ role[n] = "Rollback" => source[n] \in Server

\* c, which is or was an entry, is of a term that somebody was elected in, and the primary
\* of this term has it.
Led(c) ==
    /\ IsMajority(Voted(c.t))
    /\ \A p \in Server : isPrimary(p) /\ term[p] = c.t => Holds(p, c)

AppliedInv == \A n \in Server : Says(n) /\ Led(lastApplied[n])

\* The roles in which a member takes the positions of others into account.
Counting == {"LeaderElect", "Master"}

Ahead(p) == {v \in Server : reports[p][v].t > term[p]}

\* What a primary has heard.  A member that speaks of a later term, without having joined it,
\* is too late: a majority that had not spoken of it has joined a later term.
Heard(p) ==
    /\ ~isPrimary(p) => firstOp[p] = Infinity /\ \A v \in Server : reports[p][v] = Null
    /\ reports[p][p] = Null
    /\ firstOp[p] # Infinity =>
        /\ batch[p] = NoBatch
        /\ firstOp[p].t = term[p] /\ Top(log[p]).t = term[p]

ReportInv ==
    \A p \in Server :
        /\ Heard(p)
        /\ role[p] \in Counting =>
            /\ \A v \in Server : reports[p][v].t = term[p] => Holds(p, reports[p][v])
            /\ Ahead(p) # {} =>
                IsMajority({v \in Server : lastVote[v] > term[p] /\ v \notin Ahead(p)})

\* v has told the primary of c's term that it has c made durable.
Reported(v, c) ==
    \E p \in Server : role[p] \in Counting /\ term[p] = c.t /\ AtMost(c, reports[p][v])

\* c can no longer become committed by its primary.
Blocked(c) == IsMajority({v \in Server : lastVote[v] > c.t /\ ~Reported(v, c)})

Entry(c) == c \in OpTimes /\ c # Null
Exists(c) == Entry(c) /\ \E n \in Server : Got(n, c)

\* Members that have moved on to a later term have c, and so do the primaries of such terms;
\* a member that rolls back did not drop c. Or else B.
Fate(c, B) ==
    \A n \in Server :
        /\ Top(Fetched(n)).t > c.t => Got(n, c) \/ B
        /\ isPrimary(n) /\ term[n] > c.t => Holds(n, c) \/ B
        /\ role[n] = "Truncated" /\ Before(Top(log[n]), c) /\ AtMost(c, lastApplied[n]) => B

FateInv ==
    \A c \in OpTimes : Exists(c) =>
        /\ Fate(c, Blocked(c))
        /\ \A v \in Server : Reported(v, c) => Durable(v, c) \/ Blocked(c)

Decided(d) ==
    /\ Entry(d)
    /\ IsMajority({v \in Server : Durable(v, d)})
    /\ Fate(d, FALSE)

Under(c, d) == c.i <= d.i /\ \E v \in Server : Holds(v, d) /\ Holds(v, c)

Committed(c) == c = Null \/ (Entry(c) /\ \E d \in OpTimes : Decided(d) /\ Under(c, d))

\* What n has up to its commit point is committed, and so is what is in its batch, up to the
\* commit point that came with it.
CommitOf(n) ==
    /\ lastCommitted[n] \in published
    /\ lastCommitted[n].t <= Top(log[n]).t
    /\ \A e \in OpTimes : Entry(e) /\ Holds(n, e) /\ AtMost(e, lastCommitted[n]) => Committed(e)
    /\ batch[n] # NoBatch =>
        /\ batch[n].commit \in published
        /\ \A e \in OpTimes : Entry(e) /\ Got(n, e) /\ AtMost(e, batch[n].commit) => Committed(e)

CommitInv ==
    /\ Null \in published
    /\ \A c \in published : Committed(c)
    /\ \A n \in Server : CommitOf(n)

\* The stable timestamp is on the oplog, committed, and not after the candidates, which are
\* on the oplog too.
StableOf(n) ==
    /\ Committed(stable[n]) /\ Has(log[n], stable[n])
    /\ \E c \in published : AtMost(stable[n], c)
    /\ \A x \in candidates[n] :
        /\ AtMost(stable[n], x)
        /\ role[n] # "Truncated" \/ Before(x, Top(log[n])) => Has(log[n], x)
    /\ waiting[n] # {} => isPrimary(n)
    /\ \A w \in waiting[n] : Holds(n, w)

StableInv == \A n \in Server : StableOf(n)

SafeInv == ShapeInv /\ AppliedInv /\ ReportInv /\ FateInv /\ CommitInv /\ StableInv

-----------------------------------------------------------------------------
(* Oplogs and their entries. *)

LEMMA AtMostMeans ==
    \A a, b \in OpTimes :
        /\ AtMost(a, b) <=> a.t < b.t \/ (a.t = b.t /\ a.i <= b.i)
        /\ Before(a, b) <=> a.t < b.t \/ (a.t = b.t /\ a.i < b.i)
        /\ a.t \in Nat /\ a.i \in Nat /\ b.t \in Nat /\ b.i \in Nat
  <1>1. \A a, b \in OpTimes : a.t = b.t /\ a.i = b.i => a = b
    BY OpTimeFacts
  <1> QED BY <1>1, OpTimeFacts DEF AtMost, Before

LEMMA EntryFacts ==
    ASSUME NEW c, Entry(c)
    PROVE  /\ c \in OpTimes /\ c.t \in 1..MaxTerm /\ c.i \in 1..MaxLog
           /\ c.t \in Nat /\ c.i \in Nat /\ c.t >= 1 /\ c.i >= 1
           /\ c = OpTime(c.t, c.i)
  BY BoundAssumption DEF Entry, OpTimes, Null, OpTime

LEMMA EntryType ==
    ASSUME NEW t \in 1..MaxTerm, NEW i \in 1..MaxLog
    PROVE  /\ Entry(OpTime(t, i)) /\ OpTime(t, i).t = t /\ OpTime(t, i).i = i
  BY BoundAssumption DEF Entry, OpTimes, Null, OpTime

(* A position of an oplog is the beginning, or an entry. *)
LEMMA OpAtEntry ==
    ASSUME NEW l \in Seq(Terms), Len(l) <= MaxLog, NEW i \in 1..Len(l)
    PROVE  /\ Entry(OpAt(l, i)) /\ OpAt(l, i).i = i /\ OpAt(l, i).t = l[i]
           /\ OpAt(l, i) = OpTime(l[i], i)
  <1>1. Len(l) \in Nat /\ l[i] \in Terms
    BY LenProperties, ElementOfSeq
  <1>2. i \in 1..MaxLog /\ i # 0 /\ i \in 0..Len(l)
    BY <1>1, BoundAssumption
  <1>3. OpAt(l, i) = OpTime(l[i], i)
    BY <1>2 DEF OpAt
  <1> QED BY <1>1, <1>2, <1>3, EntryType DEF Terms

LEMMA HasTop ==
    ASSUME NEW l, Len(l) \in Nat
    PROVE  Has(l, Top(l)) /\ Top(l).i = Len(l)
  <1>1. Top(l).i = Len(l)
    BY DEF Top, OpAt, OpTime
  <1> QED BY <1>1 DEF Has, Top

LEMMA HasLonger ==
    ASSUME NEW q, NEW s, Len(q) \in Nat, Len(s) \in Nat, StartsWith(q, s),
           NEW op \in OpTimes, Has(s, op)
    PROVE  Has(q, op)
  <1>1. op.i \in Nat /\ op.i <= Len(s) /\ OpAt(s, op.i) = op
    BY OpTimeFacts DEF Has
  <1>2. op.i <= Len(q)
    BY <1>1 DEF StartsWith
  <1>3. op.i # 0 => s[op.i] = q[op.i]
    BY <1>1 DEF StartsWith
  <1>4. OpAt(q, op.i) = op
    BY <1>1, <1>3 DEF OpAt
  <1> QED BY <1>2, <1>4 DEF Has

\* What the proofs use of oplogs: the order of their entries, what members have in common.
OplogFacts ==
    /\ \A n \in Server :
        /\ Top(log[n]) \in OpTimes /\ Top(Fetched(n)) \in OpTimes
        /\ Top(log[n]) # Null => Holds(n, Top(log[n]))
        /\ Top(log[n]).t <= Top(Fetched(n)).t
        /\ Top(log[n]).i = Len(log[n])
        /\ Top(Fetched(n)) # Null => Got(n, Top(Fetched(n)))
        /\ Top(Fetched(n)).i = Len(Fetched(n))
    /\ \A c \in OpTimes : c # Null => \A n \in Server :
        /\ Holds(n, c) => Got(n, c) /\ AtMost(c, Top(log[n])) /\ c.i <= Len(log[n])
        /\ Got(n, c) => AtMost(c, Top(Fetched(n)))
        /\ Got(n, c) /\ c.t < Top(log[n]).t => Holds(n, c)
        /\ Got(n, c) /\ c.i <= Len(log[n]) => Holds(n, c)
    /\ \A c, e \in OpTimes : c # Null /\ e # Null => \A m, n \in Server :
        /\ Got(n, c) /\ Got(n, e) => (AtMost(c, e) <=> c.i <= e.i)
        /\ Got(m, c) /\ Got(n, e) /\ c.t = e.t /\ c.i <= e.i => Got(n, c)
        /\ Got(m, c) /\ Got(n, c) /\ Got(m, e) /\ e.i <= c.i => Got(n, e)
        /\ Got(n, c) /\ Holds(n, e) /\ c.i <= e.i => Holds(n, c)

LEMMA OplogFactsHold == TypeInv /\ MembersInv /\ LogInv /\ ShapeInv => OplogFacts
  <1> SUFFICES ASSUME TypeInv, MembersInv, LogInv, ShapeInv PROVE OplogFacts
    OBVIOUS
  <1>1. \A n \in Server :
          /\ log[n] \in Seq(Terms) /\ Len(log[n]) \in Nat /\ Len(log[n]) <= MaxLog
          /\ Fetched(n) \in Seq(Terms) /\ Len(Fetched(n)) \in Nat /\ Len(Fetched(n)) <= MaxLog
          /\ Len(log[n]) <= Len(Fetched(n))
          /\ \A i \in 1..Len(log[n]) : log[n][i] = Fetched(n)[i]
          /\ \A i \in 1..Len(Fetched(n)) : Fetched(n)[i] \in Nat /\ Fetched(n)[i] >= 1
    <2> SUFFICES ASSUME NEW n \in Server
                 PROVE  /\ log[n] \in Seq(Terms) /\ Len(log[n]) \in Nat /\ Len(log[n]) <= MaxLog
                        /\ Fetched(n) \in Seq(Terms) /\ Len(Fetched(n)) \in Nat
                        /\ Len(Fetched(n)) <= MaxLog /\ Len(log[n]) <= Len(Fetched(n))
                        /\ \A i \in 1..Len(log[n]) : log[n][i] = Fetched(n)[i]
                        /\ \A i \in 1..Len(Fetched(n)) :
                            Fetched(n)[i] \in Nat /\ Fetched(n)[i] >= 1
      OBVIOUS
    <2>1. OplogView(n)
      BY ViewsHold DEF OplogViews
    <2>2. Fetched(n) \in Seq(Terms)
      BY <2>1 DEF OplogView
    <2>3. \A i \in 1..Len(Fetched(n)) : Fetched(n)[i] \in Terms
      BY <2>2, ElementOfSeq
    <2>4. \A i \in 1..Len(Fetched(n)) : Fetched(n)[i] \in Nat /\ Fetched(n)[i] >= 1
      BY <2>3, BoundAssumption DEF Terms
    <2>5. Len(log[n]) <= MaxLog
      BY LogFacts DEF TypeInv
    <2> QED BY <2>1, <2>4, <2>5 DEF OplogView, StartsWith
  <1>2. \A n \in Server :
          /\ Top(log[n]) \in OpTimes /\ Top(log[n]).i = Len(log[n])
          /\ Top(log[n]).t = IF Len(log[n]) = 0 THEN 0 ELSE log[n][Len(log[n])]
          /\ Top(Fetched(n)) \in OpTimes /\ Top(Fetched(n)).i = Len(Fetched(n))
          /\ Top(Fetched(n)).t = IF Len(Fetched(n)) = 0 THEN 0
                                 ELSE Fetched(n)[Len(Fetched(n))]
    BY <1>1, TopType
  <1>3. \A c \in OpTimes : c.t \in Nat /\ c.i \in Nat /\ (c # Null => c.t >= 1 /\ c.i >= 1)
    BY EntryFacts, OpTimeFacts DEF Entry
  <1>4. Null.i = 0 /\ Null.t = 0
    BY DEF Null, OpTime
  <1>5. \A n \in Server : \A j \in 1..Len(Fetched(n)) : \A i \in 1..j :
            Fetched(n)[i] <= Fetched(n)[j]
    BY DEF ShapeInv, SortedInv
  <1>6. \A n \in Server :
        /\ Top(log[n]) # Null => Holds(n, Top(log[n]))
        /\ Top(log[n]).t <= Top(Fetched(n)).t
        /\ Top(Fetched(n)) # Null => Got(n, Top(Fetched(n)))
    <2> SUFFICES ASSUME NEW n \in Server
                 PROVE  /\ Top(log[n]) # Null => Holds(n, Top(log[n]))
                        /\ Top(log[n]).t <= Top(Fetched(n)).t
                        /\ Top(Fetched(n)) # Null => Got(n, Top(Fetched(n)))
      OBVIOUS
    <2> DEFINE N == Len(log[n])
               M == Len(Fetched(n))
    <2>1. N \in Nat /\ M \in Nat /\ N <= M
      BY <1>1
    <2>2. Top(log[n]) # Null => Holds(n, Top(log[n]))
      BY <1>2, <1>3, <1>4, <2>1 DEF Holds
    <2>3. Top(Fetched(n)) # Null => Got(n, Top(Fetched(n)))
      BY <1>2, <1>3, <1>4, <2>1 DEF Got
    <2>4. CASE N = 0
      BY <1>1, <1>2, <1>3, <2>1, <2>2, <2>3, <2>4
    <2>5. CASE N # 0
      <3>1. N \in 1..N /\ N \in 1..M /\ M \in 1..M /\ M # 0
        BY <2>1, <2>5
      <3>2. Fetched(n)[N] <= Fetched(n)[M] /\ log[n][N] = Fetched(n)[N]
        BY <1>1, <1>5, <3>1
      <3> QED BY <1>2, <2>2, <2>3, <2>5, <3>1, <3>2
    <2> QED BY <2>2, <2>3, <2>4, <2>5
  <1>7. ASSUME NEW c \in OpTimes, c # Null, NEW n \in Server
        PROVE /\ Holds(n, c) => Got(n, c) /\ AtMost(c, Top(log[n])) /\ c.i <= Len(log[n])
              /\ Got(n, c) => AtMost(c, Top(Fetched(n)))
              /\ Got(n, c) /\ c.t < Top(log[n]).t => Holds(n, c)
              /\ Got(n, c) /\ c.i <= Len(log[n]) => Holds(n, c)
    <2> DEFINE N == Len(log[n])
               M == Len(Fetched(n))
    <2>1. N \in Nat /\ M \in Nat /\ N <= M /\ c.i \in Nat /\ c.i >= 1 /\ c.t \in Nat
      BY <1>1, <1>3, <1>7
    <2>2. Got(n, c) => AtMost(c, Top(Fetched(n)))
      <3> SUFFICES ASSUME Got(n, c) PROVE AtMost(c, Top(Fetched(n)))
        OBVIOUS
      <3>1. c.i \in 1..M /\ Fetched(n)[c.i] = c.t
        BY DEF Got
      <3>2. M \in 1..M /\ M # 0 /\ c.i <= M
        BY <2>1, <3>1
      <3>3. c.t <= Fetched(n)[M]
        BY <1>5, <3>1, <3>2
      <3>4. Top(Fetched(n)).t = Fetched(n)[M] /\ Top(Fetched(n)).i = M
        BY <1>2, <3>2
      <3>5. Top(Fetched(n)).t \in Nat
        BY <1>2, <1>3
      <3> QED BY <1>2, <2>1, <3>2, <3>3, <3>4, <3>5, AtMostMeans
    <2>3. Holds(n, c) => Got(n, c) /\ c.i <= N
      BY <1>1, <2>1 DEF Holds, Got
    <2>4. Got(n, c) /\ c.i <= N => Holds(n, c)
      BY <1>1, <2>1 DEF Holds, Got
    <2>5. Got(n, c) /\ c.t < Top(log[n]).t => Holds(n, c)
      <3> SUFFICES ASSUME Got(n, c), c.t < Top(log[n]).t, ~(c.i <= N) PROVE FALSE
        BY <2>4
      <3>1. c.i \in 1..M /\ Fetched(n)[c.i] = c.t
        BY DEF Got
      <3>2. N # 0 /\ Top(log[n]).t = log[n][N]
        BY <1>2, <2>1
      <3>3. N \in 1..N /\ N \in 1..c.i /\ N \in 1..M
        BY <2>1, <3>1, <3>2
      <3>4. Fetched(n)[N] <= c.t /\ Fetched(n)[N] = log[n][N] /\ Fetched(n)[N] \in Nat
        BY <1>1, <1>5, <3>1, <3>3
      <3> QED BY <2>1, <3>2, <3>4
    <2>6. Holds(n, c) => AtMost(c, Top(log[n]))
      <3> SUFFICES ASSUME Holds(n, c) PROVE AtMost(c, Top(log[n]))
        OBVIOUS
      <3>1. c.i \in 1..N /\ log[n][c.i] = c.t
        BY DEF Holds
      <3>2. N \in 1..N /\ N # 0 /\ c.i <= N /\ N \in 1..M /\ c.i \in 1..M
        BY <2>1, <3>1
      <3>3. c.t <= log[n][N]
        BY <1>1, <1>5, <3>1, <3>2
      <3>4. Top(log[n]).t = log[n][N] /\ Top(log[n]).i = N
        BY <1>2, <3>2
      <3>5. Top(log[n]).t \in Nat
        BY <1>2, <1>3
      <3> QED BY <1>2, <2>1, <3>2, <3>3, <3>4, <3>5, AtMostMeans
    <2> QED BY <2>2, <2>3, <2>4, <2>5, <2>6
  <1>8. ASSUME NEW c \in OpTimes, NEW e \in OpTimes, c # Null, e # Null,
               NEW m \in Server, NEW n \in Server
        PROVE /\ Got(n, c) /\ Got(n, e) => (AtMost(c, e) <=> c.i <= e.i)
              /\ Got(m, c) /\ Got(n, e) /\ c.t = e.t /\ c.i <= e.i => Got(n, c)
              /\ Got(m, c) /\ Got(n, c) /\ Got(m, e) /\ e.i <= c.i => Got(n, e)
              /\ Got(n, c) /\ Holds(n, e) /\ c.i <= e.i => Holds(n, c)
    <2>0. /\ c.t \in Nat /\ c.i \in Nat /\ c.i >= 1 /\ e.t \in Nat /\ e.i \in Nat /\ e.i >= 1
          /\ Len(Fetched(n)) \in Nat /\ Len(Fetched(m)) \in Nat /\ Len(log[n]) \in Nat
      BY <1>1, <1>3, <1>8
    <2>1. Got(n, c) /\ Got(n, e) => (AtMost(c, e) <=> c.i <= e.i)
      <3> SUFFICES ASSUME Got(n, c), Got(n, e) PROVE AtMost(c, e) <=> c.i <= e.i
        OBVIOUS
      <3>1. /\ c.i \in 1..Len(Fetched(n)) /\ Fetched(n)[c.i] = c.t
            /\ e.i \in 1..Len(Fetched(n)) /\ Fetched(n)[e.i] = e.t
        BY DEF Got
      <3>2. c.i <= e.i => c.t <= e.t
        BY <1>5, <2>0, <3>1
      <3>3. e.i <= c.i => e.t <= c.t
        BY <1>5, <2>0, <3>1
      <3> QED BY <2>0, <3>1, <3>2, <3>3, AtMostMeans
    <2>2. Got(m, c) /\ Got(n, e) /\ c.t = e.t /\ c.i <= e.i => Got(n, c)
      <3> SUFFICES ASSUME Got(m, c), Got(n, e), c.t = e.t, c.i <= e.i PROVE Got(n, c)
        OBVIOUS
      <3>1. /\ c.i \in 1..Len(Fetched(m)) /\ Fetched(m)[c.i] = c.t
            /\ e.i \in 1..Len(Fetched(n)) /\ Fetched(n)[e.i] = e.t
        BY DEF Got
      <3>2. Fetched(n)[c.i] = Fetched(n)[e.i]
        BY <3>1 DEF ShapeInv, OneBranchInv
      <3> QED BY <2>0, <3>1, <3>2 DEF Got
    <2>3. Got(m, c) /\ Got(n, c) /\ Got(m, e) /\ e.i <= c.i => Got(n, e)
      <3> SUFFICES ASSUME Got(m, c), Got(n, c), Got(m, e), e.i <= c.i PROVE Got(n, e)
        OBVIOUS
      <3>1. /\ c.i \in 1..Len(Fetched(m)) /\ Fetched(m)[c.i] = c.t
            /\ c.i \in 1..Len(Fetched(n)) /\ Fetched(n)[c.i] = c.t
            /\ e.i \in 1..Len(Fetched(m)) /\ Fetched(m)[e.i] = e.t
        BY DEF Got
      <3>2. e.i \in 1..c.i
        BY <2>0
      <3>3. Fetched(n)[e.i] = Fetched(m)[e.i]
        BY <3>1, <3>2 DEF LogInv, MatchInv
      <3> QED BY <2>0, <3>1, <3>3 DEF Got
    <2>4. Got(n, c) /\ Holds(n, e) /\ c.i <= e.i => Holds(n, c)
      BY <1>7, <2>0, <1>8 DEF Holds
    <2> QED BY <2>1, <2>2, <2>3, <2>4
  <1> QED BY <1>2, <1>6, <1>7, <1>8 DEF OplogFacts

LEMMA NextOplogFacts == TypeInv' /\ MembersInv' /\ LogInv' /\ ShapeInv' => OplogFacts'
  BY OplogFactsHold, PTL

-----------------------------------------------------------------------------
(* Steps.  All but the writes of a primary copy and cut oplogs. *)

\* A majority votes for n in a new term.
Wins(n) ==
    /\ role[n] = "Secondary"
    /\ log'[n] = log[n] /\ reports'[n] = reports[n]
    /\ \E W \in SUBSET Server :
        /\ IsMajority(W)
        /\ \A v \in W : /\ lastVote'[v] = term'[n] /\ lastVote[v] < term'[n]
                        /\ AtMost(lastApplied[v], Top(log[n]))

\* n drops what it does not share with a member that is ahead of it.
Cuts(n) ==
    /\ role[n] = "Rollback" /\ role'[n] = "Truncated"
    /\ lastApplied'[n] = lastApplied[n] /\ batch[n] = NoBatch
    /\ StartsWith(log[n], log'[n])
    /\ \E s \in Server :
        /\ AtMost(Top(log[n]), Top(log[s]))
        /\ \A c \in OpTimes : Entry(c) /\ Holds(n, c) /\ Holds(s, c) => Holds(n, c)'

\* v tells p, which has not heard of a later term, how far it is.
Reports(v, p) ==
    /\ reports'[p][v] = lastApplied[v] /\ role'[v] = role[v] /\ log'[v] = log[v]
    /\ lastDurable'[v] = lastApplied[v]
    /\ lastVote[v] <= term[p]

MemberStep(k) ==
    /\ \E m \in Server : StartsWith(Fetched(m), Fetched(k)')
    /\ StartsWith(log'[k], log[k]) \/ StartsWith(log[k], log'[k])
    /\ lastVote'[k] >= lastVote[k]
    /\ isPrimary(k)' =>
        \/ isPrimary(k) /\ term'[k] = term[k] /\ StartsWith(log'[k], log[k])
        \/ Wins(k)
    /\ role'[k] = "Truncated" =>
        \/ role[k] = "Truncated" /\ log'[k] = log[k] /\ lastApplied'[k] = lastApplied[k]
        \/ Cuts(k)
    /\ (\A c \in OpTimes : Entry(c) /\ Durable(k, c) => Durable(k, c)') \/ Cuts(k)
    /\ role'[k] \in Counting =>
        \/ Wins(k)
        \/ /\ role[k] \in Counting
           /\ \A v \in Server : reports'[k][v] = reports[k][v] \/ Reports(v, k)
    /\ Says(k)' /\ Heard(k)'

\* The step is of no concern to k, but for its term and its role as a follower.
SameMember(k) ==
    /\ log'[k] = log[k] /\ batch'[k] = batch[k] /\ lastVote'[k] = lastVote[k]
    /\ role'[k] = role[k] /\ term'[k] = term[k]
    /\ lastApplied'[k] = lastApplied[k] /\ lastDurable'[k] = lastDurable[k]
    /\ source'[k] = source[k] /\ firstOp'[k] = firstOp[k] /\ reports'[k] = reports[k]

LEMMA SameMemberSteps ==
    ASSUME TypeInv, MembersInv, NEW k \in Server, Says(k), Heard(k), SameMember(k)
    PROVE  MemberStep(k)
  <1>1. /\ Len(log[k]) \in Nat /\ Len(Fetched(k)) \in Nat /\ lastVote[k] \in Nat
    BY ViewsHold DEF OplogViews, OplogView
  <1>2. Fetched(k)' = Fetched(k)
    BY DEF SameMember, Fetched
  <1>3. StartsWith(Fetched(k), Fetched(k)') /\ StartsWith(log'[k], log[k])
    BY <1>1, <1>2 DEF SameMember, StartsWith
  <1>4. isPrimary(k)' <=> isPrimary(k)
    BY DEF SameMember, isPrimary
  <1>5. \A c \in OpTimes : Durable(k, c) => Durable(k, c)'
    BY DEF SameMember, Durable, DurableLen, Holds
  <1>6. Says(k)'
    BY DEF SameMember, Says
  <1>7. Heard(k)'
    BY <1>4 DEF SameMember, Heard
  <1>8. lastVote'[k] >= lastVote[k]
    BY <1>1 DEF SameMember
  <1> QED BY <1>3, <1>4, <1>5, <1>6, <1>7, <1>8 DEF MemberStep, SameMember

(* A member keeps its oplog. *)
LEMMA LogStays ==
    ASSUME TypeInv, MembersInv, TypeInv', NEW k \in Server,
           log'[k] = log[k], batch'[k] = batch[k], lastVote'[k] >= lastVote[k],
           isPrimary(k)' => isPrimary(k) /\ term'[k] = term[k],
           role'[k] = "Truncated" => role[k] = "Truncated" /\ lastApplied'[k] = lastApplied[k],
           DurableLen(k)' >= DurableLen(k),
           role'[k] \in Counting => /\ role[k] \in Counting
                                    /\ \A v \in Server : \/ reports'[k][v] = reports[k][v]
                                                         \/ Reports(v, k),
           Says(k)', Heard(k)'
    PROVE  MemberStep(k)
  <1>1. Len(log[k]) \in Nat /\ Len(Fetched(k)) \in Nat
    BY ViewsHold DEF OplogViews, OplogView
  <1>2. Fetched(k)' = Fetched(k)
    BY DEF Fetched
  <1>3. StartsWith(Fetched(k), Fetched(k)') /\ StartsWith(log'[k], log[k])
    BY <1>1, <1>2 DEF StartsWith
  <1>4. DurableLen(k) \in Nat /\ DurableLen(k)' \in Nat
    <2>1. lastDurable[k] \in OpTimes /\ lastDurable'[k] \in OpTimes
      BY DEF TypeInv, AppliedType
    <2> QED BY <1>1, <2>1, OpTimeFacts DEF DurableLen
  <1>5. \A c \in OpTimes : Durable(k, c) => Durable(k, c)'
    <2> SUFFICES ASSUME NEW c \in OpTimes, Durable(k, c) PROVE Durable(k, c)'
      OBVIOUS
    <2>1. c.i \in Nat /\ c.i <= DurableLen(k) /\ Holds(k, c)
      BY OpTimeFacts DEF Durable
    <2>2. c.i <= DurableLen(k)'
      BY <1>4, <2>1
    <2>3. Holds(k, c)'
      BY <2>1 DEF Holds
    <2> QED BY <2>2, <2>3 DEF Durable
  <1> QED BY <1>3, <1>5 DEF MemberStep

\* What the steps of one member say of it.
OnlyMember(n) == \A k \in Server \ {n} : SameMember(k)

LEMMA OnlyMemberSteps ==
    ASSUME TypeInv, MembersInv, \A k \in Server : Says(k) /\ Heard(k),
           NEW n \in Server, OnlyMember(n), MemberStep(n)
    PROVE  \A k \in Server : MemberStep(k)
  BY SameMemberSteps DEF OnlyMember

Followers == {"Secondary"} \cup RollingBack

LEMMA RoleFacts ==
    ASSUME TypeInv, NEW n \in Server
    PROVE  /\ role[n] \in Roles
           /\ ~isPrimary(n) <=> role[n] \in Followers
           /\ role[n] \in Counting => isPrimary(n)
           /\ lastDurable[n] \in OpTimes /\ lastApplied[n] \in OpTimes
           /\ DurableLen(n) \in Nat /\ Len(log[n]) \in Nat
  <1>1. Len(log[n]) \in Nat
    BY LogFacts DEF TypeInv
  <1>2. lastDurable[n] \in OpTimes /\ lastApplied[n] \in OpTimes
    BY DEF TypeInv, AppliedType
  <1>3. DurableLen(n) \in Nat
    BY <1>1, <1>2, OpTimeFacts DEF DurableLen
  <1>4. role[n] \in Roles
    BY DEF TypeInv, ElectionType
  <1> QED BY <1>1, <1>2, <1>3, <1>4
          DEF Roles, Leading, RollingBack, Counting, isPrimary, Followers

LEMMA StepDownSteps ==
    ASSUME TypeInv, TypeInv', MembersInv, \A k \in Server : Says(k) /\ Heard(k),
           NEW n \in Server, FinishStepDown(n)
    PROVE  \A k \in Server : MemberStep(k)
  <1>1. ElectionType /\ LogType /\ PrimaryType /\ SyncType
    BY DEF TypeInv
  <1>2. /\ UNCHANGED <<lastVote, log, lastApplied, lastDurable, batch, source>>
        /\ role' = [role EXCEPT ![n] = "Secondary"] /\ isPrimary(n)
        /\ firstOp' = [firstOp EXCEPT ![n] = Infinity]
        /\ reports' = [reports EXCEPT ![n] = [m \in Server |-> Null]]
        /\ \A k \in Server \ {n} : term'[k] = term[k]
    BY <1>1 DEF FinishStepDown, oplogVars, syncVars, ElectionType
  <1>3. OnlyMember(n)
    BY <1>1, <1>2 DEF OnlyMember, SameMember, ElectionType, PrimaryType
  <1>4. role'[n] = "Secondary" /\ ~isPrimary(n)' /\ role[n] # "Truncated"
    BY <1>1, <1>2 DEF ElectionType, isPrimary, Leading
  <1>5. firstOp'[n] = Infinity /\ \A v \in Server : reports'[n][v] = Null
    BY <1>1, <1>2 DEF PrimaryType
  <1>6. Says(n)' /\ Heard(n)'
    BY <1>2, <1>4, <1>5 DEF Says, Heard
  <1>7. DurableLen(n)' = DurableLen(n) /\ DurableLen(n) \in Nat /\ lastVote[n] \in Nat
    BY <1>1, <1>2, <1>4, RoleFacts, BoundAssumption DEF DurableLen, ElectionType
  <1>8. MemberStep(n)
    BY <1>2, <1>4, <1>6, <1>7, LogStays DEF Counting
  <1> QED BY <1>3, <1>8, OnlyMemberSteps

LEMMA CommitPointSteps ==
    ASSUME TypeInv, TypeInv', MembersInv, \A k \in Server : Says(k) /\ Heard(k),
           NEW n \in Server, UpdateCommitPoint(n) \/ \E c \in published : HeartbeatCommitPoint(n, c)
    PROVE  \A k \in Server : MemberStep(k)
  <1>1. UNCHANGED <<electionVars, oplogVars, primaryVars, syncVars>>
    BY DEF UpdateCommitPoint, HeartbeatCommitPoint
  <1>2. \A k \in Server : SameMember(k)
    BY <1>1 DEF SameMember, electionVars, oplogVars, primaryVars, syncVars
  <1> QED BY <1>2, SameMemberSteps

LEMMA JournalSteps ==
    ASSUME TypeInv, TypeInv', MembersInv, \A k \in Server : Says(k) /\ Heard(k),
           NEW n \in Server, JournalFlush(n)
    PROVE  \A k \in Server : MemberStep(k)
  <1>1. /\ UNCHANGED <<electionVars, log, lastApplied, primaryVars, syncVars>>
        /\ lastDurable' = [lastDurable EXCEPT ![n] = lastApplied[n]]
        /\ role[n] \in Counting
    BY DEF JournalFlush, setLastDurable, updateLastCommitted, Counting
  <1>2. lastDurable'[n] = lastApplied[n] /\ \A k \in Server \ {n} : lastDurable'[k] = lastDurable[k]
    BY <1>1 DEF TypeInv, AppliedType
  <1>3. OnlyMember(n)
    BY <1>1, <1>2 DEF OnlyMember, SameMember, electionVars, primaryVars, syncVars
  <1>4. role[n] # "Truncated" /\ isPrimary(n) /\ (isPrimary(n)' <=> isPrimary(n))
        /\ role'[n] = role[n]
    BY <1>1, RoleFacts DEF Counting, isPrimary, electionVars
  <1>5. /\ lastApplied[n] = Top(log[n]) /\ lastDurable[n].i <= Len(log[n])
        /\ Top(log[n]).i = Len(log[n]) /\ Len(log[n]) \in Nat /\ lastDurable[n].i \in Nat
    BY <1>4, TopType, LogFacts, RoleFacts, OpTimeFacts DEF Says, TypeInv, Has
  <1>6. Says(n)'
    BY <1>1, <1>2, <1>4, <1>5, HasTop DEF Says, syncVars, electionVars
  <1>7. Heard(n)'
    BY <1>1, <1>4 DEF Heard, syncVars, electionVars, primaryVars
  <1>8. DurableLen(n)' >= DurableLen(n)
    BY <1>2, <1>4, <1>5 DEF DurableLen
  <1>9. lastVote'[n] >= lastVote[n] /\ log'[n] = log[n] /\ batch'[n] = batch[n]
        /\ term'[n] = term[n] /\ reports' = reports
    <2>1. lastVote[n] \in Nat
      BY BoundAssumption DEF TypeInv, ElectionType
    <2> QED BY <1>1, <2>1 DEF electionVars, syncVars, primaryVars
  <1>10. MemberStep(n)
    BY <1>1, <1>4, <1>6, <1>7, <1>8, <1>9, LogStays
  <1> QED BY <1>3, <1>10, OnlyMemberSteps

LEMMA UpdateTermFacts ==
    ASSUME TypeInv, NEW n \in Server, NEW t \in 0..MaxTerm, updateTerm(n, t)
    PROVE  /\ \A k \in Server \ {n} : role'[k] = role[k] /\ term'[k] = term[k]
           /\ isPrimary(n)' <=> isPrimary(n)
           /\ isPrimary(n) => term'[n] = term[n]
           /\ ~isPrimary(n) => role'[n] = role[n]
           /\ role'[n] \in Counting => role[n] \in Counting /\ t <= term[n]
           /\ (role'[n] \in RollingBack \/ role[n] \in RollingBack) => role'[n] = role[n]
  <1>1. ElectionType /\ term[n] \in Nat /\ t \in Nat
    BY BoundAssumption DEF TypeInv, ElectionType
  <1>2. CASE t <= term[n] /\ UNCHANGED <<term, role, pendingTerm>>
    BY <1>2 DEF isPrimary
  <1>3. CASE /\ t > term[n] /\ isPrimary(n) /\ UNCHANGED term
             /\ role' = [role EXCEPT ![n] = "SteppingDown"]
    BY <1>1, <1>3 DEF isPrimary, ElectionType, Leading, Counting, RollingBack
  <1>4. CASE /\ t > term[n] /\ ~isPrimary(n) /\ UNCHANGED role
             /\ term' = [term EXCEPT ![n] = t]
    BY <1>1, <1>4 DEF isPrimary, ElectionType, Leading, Counting
  <1> QED BY <1>2, <1>3, <1>4 DEF updateTerm

LEMMA LearnTermSteps ==
    ASSUME TypeInv, TypeInv', MembersInv, \A k \in Server : Says(k) /\ Heard(k),
           NEW n \in Server, NEW m \in Server, LearnTerm(n, m)
    PROVE  \A k \in Server : MemberStep(k)
  <1>1. /\ UNCHANGED <<lastVote, oplogVars, primaryVars, syncVars>>
        /\ updateTerm(n, term[m]) /\ term[m] \in 0..MaxTerm
    BY DEF LearnTerm, TypeInv, ElectionType
  <1>2. UNCHANGED <<lastVote, log, lastApplied, lastDurable, firstOp, reports, batch, source>>
    BY <1>1 DEF oplogVars, primaryVars, syncVars
  <1>3. /\ \A k \in Server \ {n} : role'[k] = role[k] /\ term'[k] = term[k]
        /\ isPrimary(n)' <=> isPrimary(n)
        /\ isPrimary(n) => term'[n] = term[n]
        /\ ~isPrimary(n) => role'[n] = role[n]
        /\ role'[n] \in Counting => role[n] \in Counting
        /\ (role'[n] \in RollingBack \/ role[n] \in RollingBack) => role'[n] = role[n]
    BY <1>1, UpdateTermFacts
  <1>4. OnlyMember(n)
    BY <1>2, <1>3 DEF OnlyMember, SameMember
  <1>5. Says(n)'
    BY <1>2, <1>3 DEF Says, RollingBack
  <1>6. Heard(n)'
    <2>1. firstOp[n] # Infinity => isPrimary(n)
      BY DEF Heard
    <2> QED BY <1>2, <1>3, <2>1 DEF Heard
  <1>7. DurableLen(n)' = DurableLen(n) /\ DurableLen(n) \in Nat /\ lastVote[n] \in Nat
    <2>1. DurableLen(n)' = DurableLen(n)
      BY <1>2, <1>3, RoleFacts DEF DurableLen, RollingBack
    <2>2. DurableLen(n) \in Nat /\ lastVote[n] \in Nat
      BY RoleFacts, BoundAssumption DEF DurableLen, TypeInv, ElectionType
    <2> QED BY <2>1, <2>2
  <1>8. MemberStep(n)
    BY <1>2, <1>3, <1>5, <1>6, <1>7, LogStays DEF RollingBack
  <1> QED BY <1>4, <1>8, OnlyMemberSteps

LEMMA EnterRollbackSteps ==
    ASSUME TypeInv, TypeInv', MembersInv, \A k \in Server : Says(k) /\ Heard(k),
           NEW n \in Server, (\E m \in Server : EnterRollback(n, m)) \/ AbandonRollback(n)
    PROVE  \A k \in Server : MemberStep(k)
  <1>1. /\ UNCHANGED <<term, lastVote, log, lastApplied, lastDurable, firstOp, reports, batch>>
        /\ role[n] \in {"Secondary", "Rollback"}
    BY DEF EnterRollback, AbandonRollback, oplogVars, primaryVars
  <1>2. /\ \A k \in Server \ {n} : role'[k] = role[k] /\ source'[k] = source[k]
        /\ \/ role'[n] = "Rollback" /\ source'[n] \in Server
           \/ role'[n] = "Secondary"
    BY DEF EnterRollback, AbandonRollback, TypeInv, ElectionType, SyncType
  <1>3. OnlyMember(n)
    BY <1>1, <1>2 DEF OnlyMember, SameMember
  <1>4. ~isPrimary(n) /\ ~isPrimary(n)'
    BY <1>1, <1>2 DEF isPrimary, Leading
  <1>5. Says(n)'
    BY <1>1, <1>2 DEF Says
  <1>6. Heard(n)'
    BY <1>1, <1>4 DEF Heard
  <1>7. DurableLen(n)' = DurableLen(n) /\ DurableLen(n) \in Nat /\ lastVote[n] \in Nat
    BY <1>1, <1>2, RoleFacts, BoundAssumption DEF DurableLen, TypeInv, ElectionType
  <1>8. MemberStep(n)
    BY <1>1, <1>2, <1>4, <1>5, <1>6, <1>7, LogStays DEF Counting
  <1> QED BY <1>3, <1>8, OnlyMemberSteps

LEMMA FinishRollbackSteps ==
    ASSUME TypeInv, TypeInv', MembersInv, \A k \in Server : Says(k) /\ Heard(k),
           NEW n \in Server, FinishRollback(n)
    PROVE  \A k \in Server : MemberStep(k)
  <1>0. ElectionType /\ AppliedType /\ SyncType
    BY DEF TypeInv
  <1>1. /\ UNCHANGED <<term, lastVote, log, firstOp, reports, batch>>
        /\ role[n] = "Truncated"
    BY DEF FinishRollback, primaryVars
  <1>2. /\ \A k \in Server \ {n} : /\ role'[k] = role[k] /\ source'[k] = source[k]
                                   /\ lastApplied'[k] = lastApplied[k]
                                   /\ lastDurable'[k] = lastDurable[k]
        /\ role'[n] = "Secondary"
        /\ lastApplied'[n] = Top(log[n]) /\ lastDurable'[n] = Top(log[n])
    BY <1>0 DEF FinishRollback, ElectionType, SyncType, AppliedType
  <1>3. OnlyMember(n)
    BY <1>1, <1>2 DEF OnlyMember, SameMember
  <1>4. ~isPrimary(n) /\ ~isPrimary(n)'
    BY <1>1, <1>2 DEF isPrimary, Leading
  <1>5. Top(log[n]).i = Len(log[n]) /\ Len(log[n]) \in Nat /\ lastVote[n] \in Nat
    BY TopType, LogFacts, BoundAssumption DEF TypeInv, ElectionType
  <1>6. Says(n)'
    BY <1>1, <1>2, <1>5, HasTop DEF Says
  <1>7. Heard(n)'
    BY <1>1, <1>4 DEF Heard
  <1>8. DurableLen(n)' >= DurableLen(n)
    BY <1>1, <1>2, <1>5 DEF DurableLen
  <1>9. MemberStep(n)
    BY <1>1, <1>2, <1>4, <1>5, <1>6, <1>7, <1>8, LogStays DEF Counting
  <1> QED BY <1>3, <1>9, OnlyMemberSteps

LEMMA ReportSteps ==
    ASSUME TypeInv, TypeInv', MembersInv, \A k \in Server : Says(k) /\ Heard(k),
           NEW n \in Server, NEW m \in Server, ReportPosition(m, n)
    PROVE  \A k \in Server : MemberStep(k)
  <1>0. ElectionType /\ AppliedType /\ PrimaryType
    BY DEF TypeInv
  <1>1. /\ UNCHANGED <<lastVote, log, lastApplied, firstOp, batch, source>>
        /\ updateTerm(n, term[m]) /\ term[m] \in 0..MaxTerm
        /\ ~isPrimary(m) /\ role[n] \in Counting
        /\ lastDurable' = [lastDurable EXCEPT ![m] = lastApplied[m]]
        /\ reports' = [reports EXCEPT ![n][m] = lastApplied[m]]
    BY <1>0 DEF ReportPosition, setLastDurable, ElectionType, syncVars, Counting
  <1>2. /\ \A k \in Server \ {n} : role'[k] = role[k] /\ term'[k] = term[k]
        /\ isPrimary(n)' <=> isPrimary(n)
        /\ isPrimary(n) => term'[n] = term[n]
        /\ role'[n] \in Counting => term[m] <= term[n]
        /\ (role'[n] \in RollingBack \/ role[n] \in RollingBack) => role'[n] = role[n]
    BY <1>1, UpdateTermFacts
  <1>3. isPrimary(n) /\ n # m
    BY <1>1, RoleFacts
  <1>4. /\ lastDurable'[m] = lastApplied[m]
        /\ \A k \in Server \ {m} : lastDurable'[k] = lastDurable[k]
        /\ reports'[n][m] = lastApplied[m]
        /\ \A v \in Server \ {m} : reports'[n][v] = reports[n][v]
        /\ \A k \in Server \ {n} : reports'[k] = reports[k]
    BY <1>0, <1>1 DEF AppliedType, PrimaryType
  <1>5. \A k \in Server \ {n, m} : SameMember(k)
    BY <1>1, <1>2, <1>4 DEF SameMember
  <1>6. /\ lastVote[n] \in Nat /\ lastVote[m] \in Nat /\ term[m] \in Nat /\ term[n] \in Nat
        /\ lastVote[m] <= term[m]
    <2>1. lastVote[m] <= term[m]
      BY DEF MembersInv, MemberInv
    <2> QED BY <1>0, <2>1, BoundAssumption DEF ElectionType
  <1>7. MemberStep(n)
    <2>1. Says(n)'
      BY <1>1, <1>2, <1>3, <1>4 DEF Says, RollingBack
    <2>2. Heard(n)'
      BY <1>1, <1>2, <1>3, <1>4 DEF Heard
    <2>3. DurableLen(n)' = DurableLen(n) /\ DurableLen(n) \in Nat
      BY <1>1, <1>2, <1>3, <1>4, RoleFacts DEF DurableLen, RollingBack
    <2>4. role'[n] \in Counting => Reports(m, n)
      BY <1>1, <1>2, <1>3, <1>4, <1>6 DEF Reports
    <2>5. role'[n] # "Truncated"
      BY <1>2, <1>3 DEF isPrimary, Leading
    <2> QED BY <1>1, <1>2, <1>3, <1>4, <1>6, <2>1, <2>2, <2>3, <2>4, <2>5, LogStays
  <1>8. MemberStep(m)
    <2>1. /\ Top(log[m]).i = Len(log[m]) /\ Len(log[m]) \in Nat
          /\ lastDurable[m].i \in Nat
      BY TopType, LogFacts, RoleFacts, OpTimeFacts DEF TypeInv
    <2>2. Says(m)'
      BY <1>1, <1>2, <1>3, <1>4, <2>1, HasTop DEF Says
    <2>3. Heard(m)'
      BY <1>1, <1>2, <1>3, <1>4 DEF Heard, isPrimary
    <2>4. DurableLen(m)' >= DurableLen(m)
      BY <1>1, <1>2, <1>3, <1>4, <2>1 DEF DurableLen, Says, Has
    <2>5. ~isPrimary(m)' /\ role'[m] \notin Counting
      BY <1>1, <1>2, <1>3, RoleFacts DEF isPrimary
    <2> QED BY <1>1, <1>2, <1>3, <1>6, <2>2, <2>3, <2>4, <2>5, LogStays
  <1> QED BY <1>5, <1>7, <1>8, SameMemberSteps

LEMMA FetchSteps ==
    ASSUME TypeInv, TypeInv', MembersInv, LogInv, \A k \in Server : Says(k) /\ Heard(k),
           NEW n \in Server, NEW m \in Server, FetchBatch(n, m)
    PROVE  \A k \in Server : MemberStep(k)
  <1>1. PICK b \in batches(n, m) : batch' = [batch EXCEPT ![n] = b]
    BY DEF FetchBatch
  <1>2. /\ UNCHANGED <<term, lastVote, role, log, lastApplied, lastDurable, firstOp, reports,
                       source>>
        /\ role[n] = "LeaderElect" /\ batch[n] = NoBatch
    BY DEF FetchBatch, electionVars, oplogVars, primaryVars
  <1>3. batch'[n] = b /\ \A k \in Server \ {n} : batch'[k] = batch[k]
    BY <1>1 DEF TypeInv, SyncType
  <1>4. OnlyMember(n)
    BY <1>2, <1>3 DEF OnlyMember, SameMember
  <1>5. \E j \in Server : StartsWith(Fetched(j), Fetched(n)')
    <2>1. StartsWith(Fetched(m), log[n] \o b.entries)
      BY BatchContinues
    <2>2. StartsWith(Fetched(n), log[n])
      BY ViewsHold DEF OplogViews, OplogView
    <2> QED BY <1>2, <1>3, <2>1, <2>2 DEF Fetched
  <1>6. StartsWith(log'[n], log[n])
    <2>1. Len(log[n]) \in Nat
      BY LogFacts DEF TypeInv
    <2> QED BY <1>2, <2>1 DEF StartsWith
  <1>7. \A c \in OpTimes : Durable(n, c) => Durable(n, c)'
    BY <1>2 DEF Durable, DurableLen, Holds
  <1>8. Says(n)'
    BY <1>2 DEF Says
  <1>9. firstOp[n] = Infinity
    BY <1>2 DEF MembersInv, MemberInv
  <1>10. Heard(n)'
    BY <1>2, <1>9 DEF Heard, isPrimary
  <1>11. isPrimary(n) /\ (isPrimary(n)' <=> isPrimary(n)) /\ lastVote'[n] >= lastVote[n]
    BY <1>2, BoundAssumption DEF isPrimary, Leading, TypeInv, ElectionType
  <1>12. MemberStep(n)
    BY <1>2, <1>5, <1>6, <1>7, <1>8, <1>10, <1>11 DEF MemberStep
  <1> QED BY <1>4, <1>12, OnlyMemberSteps

LEMMA Concatenation ==
    ASSUME NEW s \in Seq(Terms), NEW e \in Seq(Terms)
    PROVE  /\ s \o e \in Seq(Terms) /\ Len(s \o e) = Len(s) + Len(e)
           /\ \A i \in 1..Len(s) + Len(e) :
                (s \o e)[i] = IF i <= Len(s) THEN s[i] ELSE e[i - Len(s)]
           /\ Len(s) \in Nat /\ Len(e) \in Nat
  BY ConcatProperties, LenProperties

(* A member appends a batch to its oplog. *)
LEMMA AppendSteps ==
    ASSUME TypeInv, TypeInv', MembersInv, \A k \in Server : Says(k) /\ Heard(k),
           NEW n \in Server, NEW b \in Batches, Len(log[n]) + Len(b.entries) <= MaxLog,
           onSuccessfulBatch(n, b), role[n] # "Truncated", firstOp[n] = Infinity,
           batch'[n] = NoBatch, \A k \in Server \ {n} : batch'[k] = batch[k],
           \E m \in Server : StartsWith(Fetched(m), log[n] \o b.entries)
    PROVE  \A k \in Server : MemberStep(k)
  <1>0. ElectionType /\ AppliedType /\ PrimaryType /\ LogType
    BY DEF TypeInv
  <1> DEFINE l == log[n] \o b.entries
             N == Len(log[n])
             K == Len(b.entries)
  <1>1. b.entries \in Seq(Terms) /\ log[n] \in Seq(Terms) /\ b.term \in 0..MaxTerm
    BY LogFacts DEF TypeInv, Batches
  <1>2. /\ l \in Seq(Terms) /\ Len(l) = N + K
        /\ \A i \in 1..N + K : l[i] = IF i <= N THEN log[n][i] ELSE b.entries[i - N]
        /\ N \in Nat /\ K \in Nat
    BY <1>1, Concatenation
  <1>3. /\ log' = [log EXCEPT ![n] = l] /\ updateTerm(n, b.term)
        /\ UNCHANGED <<lastVote, lastDurable, primaryVars, source>>
        /\ IF b.entries = <<>> THEN lastApplied' = lastApplied
           ELSE lastApplied' = [lastApplied EXCEPT ![n] = Top(l)]
    <2>1. log' = [log EXCEPT ![n] = l]
      BY OnBatchFacts
    <2> QED BY <2>1 DEF onSuccessfulBatch
  <1>4. b.entries = <<>> => l = log[n]
    BY <1>1, ConcatEmptySeq
  <1>5. log'[n] = l /\ \A k \in Server \ {n} : log'[k] = log[k]
    BY <1>0, <1>3 DEF LogType
  <1>6. /\ lastApplied'[n] = Top(l)
        /\ \A k \in Server \ {n} : lastApplied'[k] = lastApplied[k]
    BY <1>0, <1>3, <1>4 DEF AppliedType, Says
  <1> HIDE DEF l, N, K
  <1>7. /\ \A k \in Server \ {n} : role'[k] = role[k] /\ term'[k] = term[k]
        /\ isPrimary(n)' <=> isPrimary(n)
        /\ isPrimary(n) => term'[n] = term[n]
        /\ role'[n] \in Counting => role[n] \in Counting
        /\ ~isPrimary(n) => role'[n] = role[n]
        /\ (role'[n] \in RollingBack \/ role[n] \in RollingBack) => role'[n] = role[n]
    BY <1>1, <1>3, UpdateTermFacts
  <1>8. OnlyMember(n)
    BY <1>3, <1>5, <1>6, <1>7 DEF OnlyMember, SameMember, primaryVars
  <1>9. StartsWith(log'[n], log[n])
    <2>1. N <= N + K /\ \A i \in 1..N : i \in 1..N + K /\ i <= N
      BY <1>2
    <2> QED BY <1>2, <1>5, <2>1 DEF StartsWith, N
  <1>10. \E m \in Server : StartsWith(Fetched(m), Fetched(n)')
    BY <1>5 DEF Fetched, l
  <1>11. Has(log'[n], lastDurable[n])
    <2>1. Has(log[n], lastDurable[n]) /\ lastDurable[n] \in OpTimes
      BY RoleFacts DEF Says
    <2>2. Len(log[n]) \in Nat /\ Len(log'[n]) \in Nat
      BY <1>2, <1>5 DEF N
    <2> QED BY <1>9, <2>1, <2>2, HasLonger
  <1>12. role'[n] # "Truncated"
    BY <1>7 DEF RollingBack
  <1>13. Says(n)'
    BY <1>3, <1>5, <1>6, <1>7, <1>11, <1>12 DEF Says, RollingBack
  <1>14. Heard(n)'
    BY <1>3, <1>7 DEF Heard, primaryVars
  <1>15. \A c \in OpTimes : Durable(n, c) => Durable(n, c)'
    <2> SUFFICES ASSUME NEW c \in OpTimes, Durable(n, c) PROVE Durable(n, c)'
      OBVIOUS
    <2>1. c.i \in 1..N /\ log[n][c.i] = c.t /\ c.i <= lastDurable[n].i
      BY DEF Durable, DurableLen, Holds, N
    <2>2. Len(log[n]) \in Nat /\ Len(log'[n]) \in Nat
      BY <1>2, <1>5 DEF N
    <2>3. c.i \in 1..Len(log'[n]) /\ log'[n][c.i] = log[n][c.i]
      BY <1>9, <2>1, <2>2, StartsAt DEF N
    <2> QED BY <1>3, <1>12, <2>1, <2>3 DEF Durable, DurableLen, Holds
  <1>16. lastVote'[n] >= lastVote[n]
    BY <1>0, <1>3, BoundAssumption DEF ElectionType
  <1>17. \A v \in Server : reports'[n][v] = reports[n][v]
    BY <1>3 DEF primaryVars
  <1>18. MemberStep(n)
    BY <1>7, <1>9, <1>10, <1>12, <1>13, <1>14, <1>15, <1>16, <1>17 DEF MemberStep
  <1> QED BY <1>8, <1>18, OnlyMemberSteps

LEMMA SyncSteps ==
    ASSUME TypeInv, TypeInv', MembersInv, LogInv, \A k \in Server : Says(k) /\ Heard(k),
           NEW n \in Server, NEW m \in Server, Sync(n, m)
    PROVE  \A k \in Server : MemberStep(k)
  <1>1. PICK b \in batches(n, m) : onSuccessfulBatch(n, b)
    BY DEF Sync
  <1>2. b \in Batches /\ Len(log[n]) + Len(b.entries) <= MaxLog
    BY BatchFacts DEF TypeInv
  <1>3. role[n] = "Secondary" /\ batch[n] = NoBatch /\ batch' = batch
    BY DEF Sync
  <1>4. firstOp[n] = Infinity
    BY <1>3 DEF MembersInv, MemberInv
  <1>5. StartsWith(Fetched(m), log[n] \o b.entries)
    BY BatchContinues
  <1> QED BY <1>1, <1>2, <1>3, <1>4, <1>5, AppendSteps

LEMMA ProcessSteps ==
    ASSUME TypeInv, TypeInv', MembersInv, \A k \in Server : Says(k) /\ Heard(k),
           NEW n \in Server, ProcessBatch(n)
    PROVE  \A k \in Server : MemberStep(k)
  <1>1. /\ batch[n] # NoBatch /\ batch' = [batch EXCEPT ![n] = NoBatch]
        /\ onSuccessfulBatch(n, batch[n])
    BY DEF ProcessBatch
  <1>2. /\ batch[n] \in Batches /\ Len(log[n]) + Len(batch[n].entries) <= MaxLog
        /\ role[n] # "Truncated"
    BY <1>1 DEF TypeInv, SyncType, MembersInv, MemberInv, RollingBack
  <1>3. firstOp[n] = Infinity
    BY <1>1 DEF Heard
  <1>4. batch'[n] = NoBatch /\ \A k \in Server \ {n} : batch'[k] = batch[k]
    BY <1>1 DEF TypeInv, SyncType
  <1>5. StartsWith(Fetched(n), log[n] \o batch[n].entries)
    <2>1. Fetched(n) = log[n] \o batch[n].entries
      BY <1>1 DEF Fetched
    <2>2. Len(Fetched(n)) \in Nat
      BY ViewsHold DEF OplogViews, OplogView
    <2> QED BY <2>1, <2>2 DEF StartsWith
  <1> DEFINE b == batch[n]
  <1>6. /\ b \in Batches /\ Len(log[n]) + Len(b.entries) <= MaxLog
        /\ onSuccessfulBatch(n, b) /\ \E m \in Server : StartsWith(Fetched(m), log[n] \o b.entries)
    BY <1>1, <1>2, <1>5
  <1> QED BY <1>2, <1>3, <1>4, <1>6, AppendSteps

(* The common point is the last entry that both members have. *)
LEMMA CommonPointHolds ==
    ASSUME TypeInv, NEW n \in Server, NEW s \in Server
    PROVE  LET cp == commonPoint(log[n], log[s]) IN
           /\ cp \in OpTimes
           /\ cp # Null => Holds(n, cp) /\ Holds(s, cp)
           /\ \A c \in OpTimes : Entry(c) /\ Holds(n, c) /\ Holds(s, c) => AtMost(c, cp)
  <1> DEFINE I == {j \in DOMAIN log[n] : Has(log[s], OpAt(log[n], j))}
             S == {Null} \cup {OpAt(log[n], i) : i \in I}
             cp == commonPoint(log[n], log[s])
  <1>1. /\ log[n] \in Seq(Terms) /\ Len(log[n]) <= MaxLog /\ DOMAIN log[n] = 1..Len(log[n])
        /\ Len(log[n]) \in Nat
        /\ log[s] \in Seq(Terms) /\ Len(log[s]) <= MaxLog /\ Len(log[s]) \in Nat
    BY LogFacts DEF TypeInv
  <1>2. \A i \in 1..Len(log[n]) : /\ Entry(OpAt(log[n], i)) /\ OpAt(log[n], i).i = i
                                  /\ OpAt(log[n], i).t = log[n][i]
    BY <1>1, OpAtEntry
  <1>3. S \subseteq OpTimes /\ S # {}
    BY <1>1, <1>2, OpTimeFacts DEF Entry
  <1>4. cp \in S /\ cp \in OpTimes /\ \A b \in S : AtMost(b, cp)
    BY <1>3, LatestFacts DEF commonPoint
  <1>5. ASSUME NEW i \in I
        PROVE  Holds(n, OpAt(log[n], i)) /\ Holds(s, OpAt(log[n], i))
    <2>1. /\ i \in 1..Len(log[n]) /\ i <= Len(log[s])
          /\ OpAt(log[s], i) = OpAt(log[n], i)
      BY <1>1, <1>2 DEF Has
    <2>2. i \in 1..Len(log[s])
      BY <1>1, <2>1
    <2>3. OpAt(log[s], i).t = log[s][i]
      BY <1>1, <2>2, OpAtEntry
    <2> QED BY <1>2, <2>1, <2>2, <2>3 DEF Holds
  <1>6. ASSUME NEW c \in OpTimes, Entry(c), Holds(n, c), Holds(s, c)
        PROVE  c \in S
    <2>1. /\ c.i \in 1..Len(log[n]) /\ log[n][c.i] = c.t
          /\ c.i \in 1..Len(log[s]) /\ log[s][c.i] = c.t
      BY <1>6 DEF Holds
    <2>2. OpAt(log[n], c.i) = OpTime(c.t, c.i) /\ OpAt(log[s], c.i) = OpTime(c.t, c.i)
      BY <1>1, <2>1, OpAtEntry
    <2>3. c = OpTime(c.t, c.i)
      BY <1>6, EntryFacts
    <2>4. c.i <= Len(log[s])
      BY <1>1, <2>1
    <2>5. c.i \in I
      BY <1>1, <2>1, <2>2, <2>3, <2>4 DEF Has
    <2> QED BY <2>2, <2>3, <2>5
  <1> QED BY <1>4, <1>5, <1>6

Cut(n, k) == SubSeq(log[n], 1, k)

(* An oplog that is cut after the entry c ends in it. *)
LEMMA CutFacts ==
    ASSUME TypeInv, NEW n \in Server, NEW k \in 0..Len(log[n])
    PROVE  /\ Cut(n, k) \in Seq(Terms) /\ Len(Cut(n, k)) = k
           /\ Top(Cut(n, k)).i = k /\ Top(Cut(n, k)) \in OpTimes
           /\ StartsWith(log[n], Cut(n, k))
           /\ k # 0 => Holds(n, Top(Cut(n, k)))
           /\ k = 0 => Top(Cut(n, k)) = Null
           /\ \A c \in OpTimes : Holds(n, c) /\ c.i <= k =>
                c.i \in 1..Len(Cut(n, k)) /\ Cut(n, k)[c.i] = c.t
           /\ \A c \in OpTimes : c.i \in 1..Len(Cut(n, k)) /\ Cut(n, k)[c.i] = c.t =>
                Holds(n, c) /\ c.i <= k
           /\ \A c \in OpTimes : c # Null /\ Holds(n, c) /\ c.i = k => Top(Cut(n, k)) = c
  <1> DEFINE l == Cut(n, k)
  <1>1. /\ log[n] \in Seq(Terms) /\ Len(log[n]) \in Nat /\ Len(log[n]) <= MaxLog /\ k \in Nat
    BY LogFacts DEF TypeInv
  <1>2. l \in Seq(Terms) /\ Len(l) = k /\ \A i \in 1..k : l[i] = log[n][i]
    BY <1>1, PrefixOf DEF Cut
  <1> HIDE DEF l
  <1>3. /\ Top(l) \in OpTimes /\ Top(l).i = k
        /\ Top(l).t = IF k = 0 THEN 0 ELSE l[k]
    <2>1. Len(l) <= MaxLog
      BY <1>1, <1>2, BoundAssumption
    <2> QED BY <1>2, <2>1, TopType
  <1>4. k = 0 => Top(l) = Null
    BY <1>2 DEF Top, OpAt, Null
  <1>5. k # 0 => Holds(n, Top(l))
    BY <1>1, <1>2, <1>3 DEF Holds
  <1>6. StartsWith(log[n], l)
    BY <1>1, <1>2 DEF StartsWith
  <1>7. \A c \in OpTimes : c.i \in 1..Len(l) /\ l[c.i] = c.t <=> Holds(n, c) /\ c.i <= k
    <2> SUFFICES ASSUME NEW c \in OpTimes
                 PROVE  c.i \in 1..Len(l) /\ l[c.i] = c.t <=> Holds(n, c) /\ c.i <= k
      OBVIOUS
    <2>1. c.i \in Nat
      BY OpTimeFacts
    <2>2. c.i \in 1..k <=> c.i \in 1..Len(log[n]) /\ c.i <= k
      BY <1>1, <2>1
    <2> QED BY <1>2, <2>2 DEF Holds
  <1>8. ASSUME NEW c \in OpTimes, c # Null, Holds(n, c), c.i = k
        PROVE  Top(l) = c
    <2>1. c.i \in 1..Len(l) /\ l[c.i] = c.t
      BY <1>1, <1>7, <1>8
    <2>2. k # 0 /\ Top(l).t = c.t /\ Top(l).i = c.i
      BY <1>2, <1>3, <1>8, <2>1
    <2> QED BY <1>3, <2>2, OpTimeFacts
  <1> QED BY <1>2, <1>3, <1>4, <1>5, <1>6, <1>7, <1>8 DEF l

LEMMA TruncateSteps ==
    ASSUME TypeInv, TypeInv', MembersInv, OplogFacts, \A k \in Server : Says(k) /\ Heard(k),
           ~StaleRollbacks, NEW n \in Server, TruncateOplog(n)
    PROVE  \A k \in Server : MemberStep(k)
  <1>0. ElectionType /\ LogType
    BY DEF TypeInv
  <1> DEFINE s == source[n]
             cp == commonPoint(log[n], log[s])
             l == Cut(n, cp.i)
  <1>1. /\ log' = [log EXCEPT ![n] = l]
        /\ role[n] = "Rollback" /\ role' = [role EXCEPT ![n] = "Truncated"]
        /\ Before(Top(log[n]), Top(log[s]))
        /\ UNCHANGED <<term, lastVote, lastApplied, lastDurable, firstOp, reports, batch, source>>
    BY DEF TruncateOplog, primaryVars, syncVars, Cut
  <1>2. s \in Server
    BY <1>1 DEF Says
  <1>3. /\ cp \in OpTimes
        /\ cp # Null => Holds(n, cp) /\ Holds(s, cp)
        /\ \A c \in OpTimes : Entry(c) /\ Holds(n, c) /\ Holds(s, c) => AtMost(c, cp)
    BY <1>2, CommonPointHolds
  <1>4. cp.i \in 0..Len(log[n])
    BY <1>0, CommonPointFacts
  <1>5. /\ log'[n] = l /\ role'[n] = "Truncated"
        /\ \A k \in Server \ {n} : log'[k] = log[k] /\ role'[k] = role[k]
    BY <1>0, <1>1 DEF LogType, ElectionType
  <1> HIDE DEF cp, s
  <1>6. /\ l \in Seq(Terms) /\ Len(l) = cp.i /\ Top(l) \in OpTimes
        /\ StartsWith(log[n], l)
        /\ cp.i # 0 => Holds(n, Top(l))
        /\ cp.i = 0 => Top(l) = Null
        /\ \A c \in OpTimes : Holds(n, c) /\ c.i <= cp.i => c.i \in 1..Len(l) /\ l[c.i] = c.t
    BY <1>4, CutFacts
  <1> HIDE DEF l
  <1>7. OnlyMember(n)
    BY <1>1, <1>5 DEF OnlyMember, SameMember
  <1>8. batch[n] = NoBatch
    BY <1>1 DEF MembersInv, MemberInv, RollingBack
  <1>9. StartsWith(Fetched(n), Fetched(n)')
    BY <1>1, <1>5, <1>6, <1>8 DEF Fetched
  <1>10. AtMost(Top(l), lastApplied[n])
    <2>1. lastApplied[n] = Top(log[n]) /\ lastApplied[n] \in OpTimes
      BY <1>1, RoleFacts DEF Says
    <2>2. Top(l) = Null => AtMost(Top(l), lastApplied[n])
      BY <2>1, OpTimeOrder
    <2>3. Top(l) # Null => AtMost(Top(l), lastApplied[n])
      BY <1>6, <2>1 DEF OplogFacts
    <2> QED BY <2>2, <2>3
  <1>11. Says(n)'
    BY <1>1, <1>5, <1>10 DEF Says
  <1>12. ~isPrimary(n) /\ ~isPrimary(n)' /\ role'[n] \notin Counting
    BY <1>1, <1>5 DEF isPrimary, Leading, Counting
  <1>13. Heard(n)'
    BY <1>1, <1>12 DEF Heard
  <1>14. ASSUME NEW c \in OpTimes, Entry(c), Holds(n, c), Holds(s, c)
         PROVE  Holds(n, c)'
    <2>1. AtMost(c, cp)
      BY <1>3, <1>14
    <2>2. c # Null /\ c.t >= 1 /\ c.t \in Nat
      BY <1>14, EntryFacts DEF Entry
    <2>3. cp # Null
      <3>1. Null.t = 0 /\ Null \in OpTimes
        BY OpTimeFacts DEF Null, OpTime
      <3> QED BY <2>1, <2>2, <3>1, AtMostMeans
    <2>4. c.i <= cp.i
      BY <1>3, <1>14, <2>1, <2>2, <2>3 DEF OplogFacts
    <2> QED BY <1>5, <1>6, <1>14, <2>4 DEF Holds
  <1>15. Cuts(n)
    <2>1. AtMost(Top(log[n]), Top(log[s]))
      BY <1>1 DEF AtMost
    <2> QED BY <1>1, <1>2, <1>5, <1>6, <1>8, <1>14, <2>1 DEF Cuts
  <1>16. lastVote'[n] >= lastVote[n]
    BY <1>0, <1>1, BoundAssumption DEF ElectionType
  <1>17. MemberStep(n)
    BY <1>5, <1>6, <1>9, <1>11, <1>12, <1>13, <1>15, <1>16 DEF MemberStep
  <1> QED BY <1>7, <1>17, OnlyMemberSteps

LEMMA RestartSteps ==
    ASSUME TypeInv, TypeInv', MembersInv, \A k \in Server : Says(k) /\ Heard(k),
           NEW n \in Server, Restart(n)
    PROVE  \A k \in Server : MemberStep(k)
  <1>0. ElectionType /\ LogType /\ AppliedType /\ PrimaryType /\ SyncType
    BY DEF TypeInv
  <1>1. PICK len \in DurableLen(n) .. Len(log[n]) :
          /\ log' = [log EXCEPT ![n] = Cut(n, len)]
          /\ lastApplied' = [lastApplied EXCEPT ![n] = Top(Cut(n, len))]
          /\ lastDurable' = [lastDurable EXCEPT ![n] = Top(Cut(n, len))]
          /\ \E t : term' = [term EXCEPT ![n] = t]
    BY DEF Restart, DurableLen, Cut
  <1> DEFINE l == Cut(n, len)
  <1>2. /\ role' = [role EXCEPT ![n] = "Secondary"]
        /\ firstOp' = [firstOp EXCEPT ![n] = Infinity]
        /\ reports' = [reports EXCEPT ![n] = [m \in Server |-> Null]]
        /\ batch' = [batch EXCEPT ![n] = NoBatch]
        /\ source' = [source EXCEPT ![n] = None]
        /\ lastVote' = lastVote
    BY DEF Restart
  <1>3. len \in 0..Len(log[n]) /\ DurableLen(n) <= len /\ DurableLen(n) \in Nat /\ len \in Nat
    <2>1. DurableLen(n) \in Nat /\ Len(log[n]) \in Nat
      BY RoleFacts
    <2> QED BY <2>1
  <1>4. OnlyMember(n)
    BY <1>0, <1>1, <1>2 DEF OnlyMember, SameMember, ElectionType, LogType, AppliedType,
                            PrimaryType, SyncType
  <1>5. /\ log'[n] = l /\ lastApplied'[n] = Top(l) /\ lastDurable'[n] = Top(l)
        /\ role'[n] = "Secondary" /\ firstOp'[n] = Infinity /\ batch'[n] = NoBatch
        /\ \A v \in Server : reports'[n][v] = Null
    BY <1>0, <1>1, <1>2 DEF ElectionType, LogType, AppliedType, PrimaryType, SyncType
  <1>6. /\ Len(l) = len /\ Top(l).i = len
        /\ StartsWith(log[n], l)
        /\ \A c \in OpTimes : Holds(n, c) /\ c.i <= len => c.i \in 1..Len(l) /\ l[c.i] = c.t
    BY <1>3, CutFacts
  <1>7. StartsWith(Fetched(n), l)
    <2>1. /\ StartsWith(Fetched(n), log[n]) /\ Len(Fetched(n)) \in Nat /\ Len(log[n]) \in Nat
      BY ViewsHold DEF OplogViews, OplogView
    <2> HIDE DEF l
    <2>3. \A i \in 1..Len(l) : i \in 1..Len(log[n])
      BY <1>3, <1>6, <2>1
    <2>4. Len(l) <= Len(Fetched(n))
      BY <1>3, <1>6, <2>1 DEF StartsWith
    <2> QED BY <1>6, <2>1, <2>3, <2>4 DEF StartsWith
  <1> HIDE DEF l
  <1>8. StartsWith(Fetched(n), Fetched(n)')
    BY <1>5, <1>7 DEF Fetched
  <1>9. ~isPrimary(n)' /\ role'[n] \notin Counting
    BY <1>5 DEF isPrimary, Leading, Counting
  <1>10. Says(n)' /\ Heard(n)'
    <2>1. Has(l, Top(l))
      BY <1>3, <1>6, HasTop
    <2> QED BY <1>5, <1>9, <2>1 DEF Says, Heard
  <1>11. \A c \in OpTimes : Durable(n, c) => Durable(n, c)'
    <2> SUFFICES ASSUME NEW c \in OpTimes, Durable(n, c) PROVE Durable(n, c)'
      OBVIOUS
    <2>1. c.i \in Nat /\ c.i <= DurableLen(n) /\ Holds(n, c)
      BY OpTimeFacts DEF Durable
    <2>2. c.i <= len
      BY <1>3, <2>1
    <2>3. Holds(n, c)'
      BY <1>5, <1>6, <2>1, <2>2 DEF Holds
    <2> QED BY <1>5, <1>6, <2>2, <2>3 DEF Durable, DurableLen
  <1>12. lastVote'[n] >= lastVote[n]
    BY <1>0, <1>2, BoundAssumption DEF ElectionType
  <1>13. MemberStep(n)
    BY <1>5, <1>6, <1>8, <1>9, <1>10, <1>11, <1>12 DEF MemberStep
  <1> QED BY <1>4, <1>13, OnlyMemberSteps

LEMMA ElectionSteps ==
    ASSUME TypeInv, TypeInv', MembersInv, \A k \in Server : Says(k) /\ Heard(k),
           NEW n \in Server, NEW Q \in SUBSET (Server \ {n}), RunElection(n, Q)
    PROVE  \A k \in Server : MemberStep(k)
  <1>0. ElectionType /\ AppliedType
    BY DEF TypeInv
  <1> DEFINE t == term[n] + 1
             V == Q \cup {n}
  <1>1. /\ role[n] = "Secondary" /\ \A v \in Q : mayVote(v, n, t)
        /\ term' = [v \in Server |-> IF v \in V THEN t ELSE term[v]]
        /\ lastVote' = [v \in Server |-> IF v \in V THEN t ELSE lastVote[v]]
        /\ lastDurable' = [v \in Server |-> IF v \in V THEN lastApplied[v] ELSE lastDurable[v]]
        /\ role' = [role EXCEPT ![n] = IF IsMajority(V) THEN "LeaderElect" ELSE @]
        /\ UNCHANGED <<log, lastApplied, firstOp, reports, batch, source>>
    BY DEF RunElection, primaryVars, syncVars
  <1>2. /\ \A v \in Server : lastVote[v] \in Nat /\ term[v] \in Nat /\ lastVote[v] <= term[v]
        /\ t \in Nat
    <2>1. \A v \in Server : lastVote[v] <= term[v]
      BY DEF MembersInv, MemberInv
    <2> QED BY <1>0, <2>1, BoundAssumption DEF ElectionType
  <1>3. \A v \in V : /\ v \in Server /\ lastVote[v] < t /\ lastVote'[v] = t /\ term'[v] = t
                     /\ lastDurable'[v] = lastApplied[v]
    <2>1. lastVote[n] < t
      BY <1>2
    <2>2. \A v \in Q : lastVote[v] < t
      BY <1>1 DEF mayVote
    <2> QED BY <1>1, <2>1, <2>2
  <1>4. \A v \in Q : ~isPrimary(v) /\ AtMost(lastApplied[v], lastApplied[n])
    BY <1>1 DEF mayVote
  <1>5. \A k \in Server \ {n} : role'[k] = role[k] /\ (isPrimary(k)' <=> isPrimary(k))
    BY <1>0, <1>1 DEF ElectionType, isPrimary
  <1>6. \A k \in Server \ V : SameMember(k)
    BY <1>1, <1>5 DEF SameMember
  <1> HIDE DEF t, V
  <1>7. ASSUME NEW v \in V, role'[v] = role[v] \/ (v = n /\ role'[v] = "LeaderElect"),
               isPrimary(v)' => v = n
        PROVE  DurableLen(v)' >= DurableLen(v) /\ Says(v)' /\ Heard(v)' /\ v \in Server
    <2>0. v \in Server
      BY <1>3
    <2>1. /\ Top(log[v]).i = Len(log[v]) /\ Len(log[v]) \in Nat
          /\ lastDurable[v].i \in Nat
      BY <2>0, TopType, LogFacts, RoleFacts, OpTimeFacts DEF TypeInv
    <2>2. role'[v] = "Truncated" <=> role[v] = "Truncated"
      BY <1>1, <1>7
    <2>3. DurableLen(v)' >= DurableLen(v)
      BY <1>1, <1>3, <2>0, <2>1, <2>2 DEF DurableLen, Says, Has
    <2>4. Says(v)'
      BY <1>1, <1>3, <1>7, <2>0, <2>1, <2>2, HasTop DEF Says
    <2>5. ~isPrimary(v)
      BY <1>1, <1>4 DEF V, isPrimary, Leading
    <2>6. Heard(v)'
      BY <1>1, <2>0, <2>5 DEF Heard
    <2> QED BY <2>0, <2>3, <2>4, <2>6
  <1>8. ASSUME NEW v \in V, role'[v] = role[v]
        PROVE  MemberStep(v)
    <2>1. ~isPrimary(v) /\ ~isPrimary(v)' /\ v \in Server
      BY <1>1, <1>3, <1>4, <1>8 DEF isPrimary, Leading, V
    <2>2. DurableLen(v)' >= DurableLen(v) /\ Says(v)' /\ Heard(v)'
      BY <1>7, <1>8, <2>1
    <2>3. lastVote'[v] >= lastVote[v]
      BY <1>2, <1>3
    <2>4. role'[v] \notin Counting
      BY <1>8, <2>1, RoleFacts
    <2> QED BY <1>1, <1>8, <2>1, <2>2, <2>3, <2>4, LogStays
  <1>9. ASSUME role'[n] # role[n]
        PROVE  MemberStep(n)
    <2>1. IsMajority(V) /\ role'[n] = "LeaderElect"
      BY <1>0, <1>1, <1>9 DEF ElectionType
    <2>2. n \in V /\ DurableLen(n)' >= DurableLen(n) /\ Says(n)' /\ Heard(n)'
      BY <1>7, <2>1 DEF V
    <2>3. lastApplied[n] = Top(log[n]) /\ lastApplied[n] \in OpTimes
      BY <1>1, RoleFacts DEF Says
    <2>4. \A v \in V : AtMost(lastApplied[v], Top(log[n]))
      BY <1>4, <2>3, OpTimeOrder DEF V
    <2>5. term'[n] = t /\ V \in SUBSET Server
      BY <1>3, <2>2
    <2>6. \A v \in V : /\ lastVote'[v] = term'[n] /\ lastVote[v] < term'[n]
                       /\ AtMost(lastApplied[v], Top(log[n]))
      BY <1>3, <2>4, <2>5
    <2>7. Wins(n)
      BY <1>1, <2>1, <2>5, <2>6 DEF Wins
    <2>8. /\ Len(log[n]) \in Nat /\ Len(Fetched(n)) \in Nat /\ Fetched(n)' = Fetched(n)
      BY <1>1, ViewsHold DEF OplogViews, OplogView, Fetched
    <2>9. StartsWith(Fetched(n), Fetched(n)') /\ StartsWith(log'[n], log[n])
      BY <1>1, <2>8 DEF StartsWith
    <2>10. \A c \in OpTimes : Durable(n, c) => Durable(n, c)'
      <3> SUFFICES ASSUME NEW c \in OpTimes, Durable(n, c) PROVE Durable(n, c)'
        OBVIOUS
      <3>1. c.i \in Nat /\ c.i <= DurableLen(n) /\ Holds(n, c)
        BY OpTimeFacts DEF Durable
      <3>2. DurableLen(n) \in Nat /\ DurableLen(n)' \in Nat
        <4>1. lastDurable[n] \in OpTimes /\ lastDurable'[n] \in OpTimes
          BY DEF TypeInv, AppliedType
        <4> QED BY <1>1, <2>8, <4>1, OpTimeFacts DEF DurableLen
      <3>3. c.i <= DurableLen(n)'
        BY <2>2, <3>1, <3>2
      <3> QED BY <1>1, <3>1, <3>3 DEF Durable, Holds
    <2>11. lastVote'[n] >= lastVote[n]
      BY <1>2, <1>3, <2>2
    <2> QED BY <2>1, <2>2, <2>7, <2>9, <2>10, <2>11 DEF MemberStep
  <1>10. \A k \in Server \ V : MemberStep(k)
    BY <1>6, SameMemberSteps
  <1>11. \A k \in Q : role'[k] = role[k] /\ k \in V
    BY <1>5 DEF V
  <1>12. \A k \in Q : MemberStep(k)
    BY <1>8, <1>11
  <1>13. MemberStep(n)
    <2>1. n \in V
      BY DEF V
    <2> QED BY <1>8, <1>9, <2>1
  <1> QED BY <1>10, <1>12, <1>13 DEF V

\* The primary p writes.
Writes(p) ==
    /\ isPrimary(p) /\ isPrimary(p)'
    /\ log'[p] = Append(log[p], term[p]) /\ Fetched(p)' = log'[p]
    /\ Before(Top(log[p]), Top(log'[p])) /\ Top(log'[p]) = OpTime(term[p], Len(log[p]) + 1)
    /\ term'[p] = term[p] /\ lastVote'[p] = lastVote[p] /\ lastDurable'[p] = lastDurable[p]
    /\ reports'[p] = reports[p]
    /\ role'[p] \in Counting <=> role[p] \in Counting
    /\ Says(p)' /\ Heard(p)'
    /\ OnlyMember(p)

LEMMA WriteSteps ==
    ASSUME TypeInv, TypeInv', MembersInv, \A k \in Server : Says(k) /\ Heard(k),
           ~LateBatches, NEW n \in Server, SignalDrainComplete(n) \/ ClientWrite(n)
    PROVE  Writes(n)
  <1>0. ElectionType /\ AppliedType /\ PrimaryType /\ SyncType /\ LogType
    BY DEF TypeInv
  <1>1. /\ role[n] \in Leading /\ write(n) /\ Len(log[n]) < MaxLog
        /\ term' = term /\ lastVote' = lastVote /\ lastDurable' = lastDurable
        /\ reports' = reports /\ source' = source
    BY DEF SignalDrainComplete, ClientWrite, Leading, electionVars, syncVars, primaryVars, write
  <1>2. isPrimary(n) /\ term[n] \in Terms
    BY <1>1, PrimaryTerm DEF isPrimary
  <1> DEFINE l == Append(log[n], term[n])
  <1>3. /\ log' = [log EXCEPT ![n] = l] /\ lastApplied' = [lastApplied EXCEPT ![n] = Top(l)]
        /\ Before(Top(log[n]), Top(l))
    BY <1>1 DEF write
  <1>4. log[n] \in Seq(Terms) /\ Len(log[n]) \in Nat
    BY LogFacts DEF TypeInv
  <1>5. Len(l) = Len(log[n]) + 1 /\ l[Len(log[n]) + 1] = term[n]
    BY <1>2, <1>4, AppendProperties
  <1> HIDE DEF l
  <1>6. Top(l) = OpTime(term[n], Len(log[n]) + 1)
    BY <1>4, <1>5 DEF Top, OpAt
  <1>7. /\ log'[n] = l /\ lastApplied'[n] = Top(l)
        /\ \A k \in Server \ {n} : log'[k] = log[k] /\ lastApplied'[k] = lastApplied[k]
    BY <1>0, <1>3 DEF LogType, AppliedType
  <1>8. /\ \A k \in Server \ {n} : /\ role'[k] = role[k] /\ batch'[k] = batch[k]
                                   /\ firstOp'[k] = firstOp[k]
        /\ isPrimary(n)' /\ (role'[n] \in Counting <=> role[n] \in Counting)
        /\ role'[n] \notin RollingBack
        /\ batch'[n] = NoBatch /\ firstOp'[n].t = term[n]
    <2>1. CASE SignalDrainComplete(n)
      <3>1. /\ role[n] = "LeaderElect" /\ role' = [role EXCEPT ![n] = "Master"]
            /\ firstOp' = [firstOp EXCEPT ![n] = Top(log'[n])]
            /\ batch' = [batch EXCEPT ![n] = NoBatch]
        BY <2>1 DEF SignalDrainComplete
      <3>2. role'[n] = "Master" /\ firstOp'[n] = Top(l) /\ batch'[n] = NoBatch
        BY <1>0, <1>7, <3>1 DEF ElectionType, PrimaryType, SyncType
      <3>3. firstOp'[n].t = term[n]
        BY <1>6, <3>2 DEF OpTime
      <3>4. \A k \in Server \ {n} : /\ role'[k] = role[k] /\ batch'[k] = batch[k]
                                    /\ firstOp'[k] = firstOp[k]
        BY <1>0, <3>1 DEF ElectionType, PrimaryType, SyncType
      <3> QED BY <3>1, <3>2, <3>3, <3>4 DEF isPrimary, Leading, Counting, RollingBack
    <2>2. CASE ClientWrite(n)
      <3>1. role' = role /\ firstOp' = firstOp /\ batch' = batch /\ firstOp[n] # Infinity
        BY <2>2 DEF ClientWrite, electionVars, primaryVars, syncVars
      <3>2. batch[n] = NoBatch /\ firstOp[n].t = term[n]
        BY <3>1 DEF Heard
      <3> QED BY <1>1, <3>1, <3>2 DEF isPrimary, Leading, RollingBack
    <2> QED BY <2>1, <2>2
  <1>9. OnlyMember(n)
    BY <1>1, <1>7, <1>8 DEF OnlyMember, SameMember
  <1>10. Fetched(n)' = log'[n]
    BY <1>8 DEF Fetched
  <1>11. Has(log'[n], lastDurable[n])
    <2>1. Has(log[n], lastDurable[n]) /\ lastDurable[n] \in OpTimes
      BY <1>1, RoleFacts DEF Says, Leading
    <2>2. StartsWith(l, log[n]) /\ Len(l) \in Nat
      BY <1>2, <1>4, <1>5, AppendProperties DEF l, StartsWith
    <2> QED BY <1>4, <1>7, <2>1, <2>2, HasLonger
  <1>12. Says(n)'
    BY <1>1, <1>7, <1>8, <1>11 DEF Says, RollingBack
  <1>13. Top(l).t = term[n]
    BY <1>6 DEF OpTime
  <1>14. Heard(n)'
    BY <1>1, <1>7, <1>8, <1>13 DEF Heard
  <1>15. log'[n] = Append(log[n], term[n])
    BY <1>7 DEF l
  <1> QED BY <1>1, <1>2, <1>3, <1>6, <1>7, <1>8, <1>9, <1>10, <1>12, <1>14, <1>15 DEF Writes

LEMMA NextSteps ==
    ASSUME TypeInv, TypeInv', MembersInv, LogInv, OplogFacts,
           \A k \in Server : Says(k) /\ Heard(k), ~LateBatches, ~StaleRollbacks, [Next]_vars
    PROVE  (\A k \in Server : MemberStep(k)) \/ (\E p \in Server : Writes(p))
  <1>1. CASE UNCHANGED vars
    <2>1. \A k \in Server : SameMember(k)
      BY <1>1 DEF vars, SameMember, electionVars, oplogVars, primaryVars, syncVars
    <2> QED BY <2>1, SameMemberSteps
  <1>2. CASE Next
    <2>1. PICK n \in Server :
            \/ \E Q \in SUBSET (Server \ {n}) : RunElection(n, Q)
            \/ SignalDrainComplete(n) \/ ClientWrite(n)
            \/ FinishStepDown(n)
            \/ JournalFlush(n)
            \/ UpdateCommitPoint(n) \/ \E c \in published : HeartbeatCommitPoint(n, c)
            \/ ProcessBatch(n)
            \/ TruncateOplog(n)
            \/ FinishRollback(n)
            \/ AbandonRollback(n) \/ \E m \in Server : EnterRollback(n, m)
            \/ Restart(n)
            \/ \E m \in Server : LearnTerm(n, m)
            \/ \E m \in Server : ReportPosition(n, m)
            \/ \E m \in Server : Sync(n, m)
            \/ \E m \in Server : FetchBatch(n, m)
      BY <1>2, Zenon DEF Next
    <2>2. CASE \E Q \in SUBSET (Server \ {n}) : RunElection(n, Q)
      BY <2>2, ElectionSteps
    <2>3. CASE SignalDrainComplete(n) \/ ClientWrite(n)
      BY <2>3, WriteSteps
    <2>4. CASE FinishStepDown(n)
      BY <2>4, StepDownSteps
    <2>5. CASE JournalFlush(n)
      BY <2>5, JournalSteps
    <2>6. CASE UpdateCommitPoint(n) \/ \E c \in published : HeartbeatCommitPoint(n, c)
      BY <2>6, CommitPointSteps
    <2>7. CASE ProcessBatch(n)
      BY <2>7, ProcessSteps
    <2>8. CASE TruncateOplog(n)
      BY <2>8, TruncateSteps
    <2>9. CASE FinishRollback(n)
      BY <2>9, FinishRollbackSteps
    <2>10. CASE AbandonRollback(n) \/ \E m \in Server : EnterRollback(n, m)
      BY <2>10, EnterRollbackSteps
    <2>11. CASE Restart(n)
      BY <2>11, RestartSteps
    <2>12. CASE \E m \in Server : LearnTerm(n, m)
      BY <2>12, LearnTermSteps
    <2>13. CASE \E m \in Server : ReportPosition(n, m)
      BY <2>13, ReportSteps
    <2>14. CASE \E m \in Server : Sync(n, m)
      BY <2>14, SyncSteps
    <2>15. CASE \E m \in Server : FetchBatch(n, m)
      BY <2>15, FetchSteps
    <2> QED BY <2>1, <2>2, <2>3, <2>4, <2>5, <2>6, <2>7, <2>8, <2>9, <2>10, <2>11, <2>12,
               <2>13, <2>14, <2>15
  <1> QED BY <1>1, <1>2

-----------------------------------------------------------------------------
(* The shape of the oplogs. *)

LEMMA CopyingShape ==
    ASSUME TypeInv, TypeInv', MembersInv, MembersInv', ShapeInv, \A k \in Server : MemberStep(k)
    PROVE  ShapeInv'
  <1>1. \A k \in Server : Len(Fetched(k)) \in Nat
    BY ViewsHold DEF OplogViews, OplogView
  <1>2. \A k \in Server : Len(Fetched(k)') \in Nat
    BY NextViewsHold DEF OplogViews, OplogView
  <1>3. ASSUME NEW k \in Server
        PROVE  \E m \in Server : \A i \in 1..Len(Fetched(k)') :
                    i \in 1..Len(Fetched(m)) /\ Fetched(m)[i] = Fetched(k)'[i]
    <2>1. PICK m \in Server : StartsWith(Fetched(m), Fetched(k)')
      BY DEF MemberStep
    <2> QED BY <1>1, <1>2, <2>1, StartsAt
  <1>4. SortedInv'
    <2> SUFFICES ASSUME NEW n \in Server, NEW j \in 1..Len(Fetched(n)'), NEW i \in 1..j
                 PROVE  Fetched(n)'[i] <= Fetched(n)'[j]
      BY DEF SortedInv
    <2>1. PICK m \in Server : \A x \in 1..Len(Fetched(n)') :
                    x \in 1..Len(Fetched(m)) /\ Fetched(m)[x] = Fetched(n)'[x]
      BY <1>3
    <2>2. i \in 1..Len(Fetched(n)')
      BY <1>2
    <2>3. Fetched(m)[i] <= Fetched(m)[j]
      BY <2>1 DEF ShapeInv, SortedInv
    <2> QED BY <2>1, <2>2, <2>3
  <1>5. OneBranchInv'
    <2> SUFFICES ASSUME NEW m \in Server, NEW n \in Server,
                        NEW i \in 1..Len(Fetched(m)'), NEW j \in 1..Len(Fetched(n)'),
                        i <= j, Fetched(m)'[i] = Fetched(n)'[j]
                 PROVE  Fetched(n)'[i] = Fetched(n)'[j]
      BY DEF OneBranchInv
    <2>1. PICK m2 \in Server : \A x \in 1..Len(Fetched(m)') :
                    x \in 1..Len(Fetched(m2)) /\ Fetched(m2)[x] = Fetched(m)'[x]
      BY <1>3
    <2>2. PICK n2 \in Server : \A x \in 1..Len(Fetched(n)') :
                    x \in 1..Len(Fetched(n2)) /\ Fetched(n2)[x] = Fetched(n)'[x]
      BY <1>3
    <2>3. i \in 1..Len(Fetched(n)')
      BY <1>2
    <2>4. Fetched(n2)[i] = Fetched(n2)[j]
      BY <2>1, <2>2 DEF ShapeInv, OneBranchInv
    <2> QED BY <2>2, <2>3, <2>4
  <1> QED BY <1>4, <1>5 DEF ShapeInv

\* The entries of p after it has written, those it had before, and the others' entries.
LEMMA WrittenEntries ==
    ASSUME TypeInv, TypeInv', MembersInv, MembersInv', LogInv, OplogFacts,
           NEW p \in Server, Writes(p)
    PROVE  LET N == Len(log[p])
               T == term[p]
           IN  /\ N \in Nat /\ T \in Nat /\ T >= 1
               /\ Len(log'[p]) = N + 1 /\ Len(Fetched(p)') = N + 1
               /\ log'[p][N + 1] = T
               /\ \A i \in 1..N : /\ log'[p][i] = log[p][i] /\ log[p][i] = Fetched(p)[i]
                                  /\ i \in 1..Len(Fetched(p))
                                  /\ log[p][i] \in Nat /\ log[p][i] <= T
               /\ Fetched(p)' = log'[p]
               /\ \A k \in Server \ {p} : Fetched(k)' = Fetched(k) /\ log'[k] = log[k]
               /\ \A k \in Server \ {p} : \A i \in 1..Len(Fetched(k)) :
                    Fetched(k)[i] = T => i \in 1..N /\ log[p][i] = T
  <1> DEFINE N == Len(log[p])
             T == term[p]
  <1>1. log[p] \in Seq(Terms) /\ T \in Terms
    BY LogFacts, PrimaryTerm DEF TypeInv, Writes
  <1>2. N \in Nat /\ T \in Nat /\ T >= 1
    BY <1>1, LogFacts, BoundAssumption DEF TypeInv, Terms
  <1>3. log'[p] = Append(log[p], T) /\ Fetched(p)' = log'[p]
    BY DEF Writes
  <1>4. /\ Len(log'[p]) = N + 1 /\ log'[p][N + 1] = T
        /\ \A i \in 1..N : log'[p][i] = log[p][i]
    BY <1>1, <1>3, AppendProperties
  <1>5. /\ StartsWith(Fetched(p), log[p]) /\ Len(Fetched(p)) \in Nat
    BY ViewsHold DEF OplogViews, OplogView
  <1>6. \A i \in 1..N : log[p][i] = Fetched(p)[i] /\ i \in 1..Len(Fetched(p))
    BY <1>2, <1>5, StartsAt
  <1>7. ASSUME NEW i \in 1..N
        PROVE  log[p][i] \in Nat /\ log[p][i] <= T
    <2> DEFINE c == OpTime(log[p][i], i)
    <2>1. log[p][i] \in Terms /\ i \in 1..MaxLog
      BY <1>1, <1>2, ElementOfSeq, LogFacts, BoundAssumption DEF TypeInv
    <2>2. Entry(c) /\ c.t = log[p][i] /\ c.i = i
      BY <2>1, EntryType DEF Terms
    <2> HIDE DEF c
    <2>3. Holds(p, c)
      BY <2>2 DEF Holds
    <2>4. AtMost(c, Top(log[p])) /\ Top(log[p]) \in OpTimes
      BY <2>2, <2>3 DEF OplogFacts, Entry
    <2>5. Top(log[p]).t <= T /\ Top(log[p]).t \in Nat
      <3>1. Top(log'[p]).t = T
        BY DEF Writes, OpTime
      <3>2. Before(Top(log[p]), Top(log'[p])) /\ Top(log[p]).t \in Nat
        BY <2>4, OpTimeFacts DEF Writes
      <3> QED BY <1>2, <3>1, <3>2 DEF Before
    <2>6. c.t \in Nat /\ c.t <= Top(log[p]).t
      BY <2>2, <2>4, AtMostMeans, EntryFacts
    <2> QED BY <1>2, <2>2, <2>5, <2>6
  <1>8. \A k \in Server \ {p} : Fetched(k)' = Fetched(k) /\ log'[k] = log[k]
    BY DEF Writes, OnlyMember, SameMember, Fetched
  <1>9. ASSUME NEW k \in Server, NEW i \in 1..Len(Fetched(k)), Fetched(k)[i] = T
        PROVE  i \in 1..N /\ log[p][i] = T
    <2>1. i <= Len(log[p]) /\ log[p][i] = T
      BY <1>9 DEF Writes, LogInv, LeaderInv
    <2>2. Len(Fetched(k)) \in Nat
      BY ViewsHold DEF OplogViews, OplogView
    <2> QED BY <1>2, <2>1, <2>2
  <1> HIDE DEF N, T
  <1>10. Len(Fetched(p)') = N + 1
    BY <1>3, <1>4
  <1> QED BY <1>2, <1>3, <1>4, <1>6, <1>7, <1>8, <1>9, <1>10 DEF N, T

LEMMA WritingShape ==
    ASSUME TypeInv, TypeInv', MembersInv, MembersInv', LogInv, OplogFacts, ShapeInv,
           NEW p \in Server, Writes(p)
    PROVE  ShapeInv'
  <1> DEFINE N == Len(log[p])
             T == term[p]
  <1>1. /\ N \in Nat /\ T \in Nat /\ T >= 1
        /\ Len(log'[p]) = N + 1 /\ Len(Fetched(p)') = N + 1
        /\ log'[p][N + 1] = T
        /\ \A i \in 1..N : /\ log'[p][i] = log[p][i] /\ log[p][i] = Fetched(p)[i]
                           /\ i \in 1..Len(Fetched(p))
                           /\ log[p][i] \in Nat /\ log[p][i] <= T
        /\ Fetched(p)' = log'[p]
        /\ \A k \in Server \ {p} : Fetched(k)' = Fetched(k)
        /\ \A k \in Server \ {p} : \A i \in 1..Len(Fetched(k)) :
             Fetched(k)[i] = T => i \in 1..N /\ log[p][i] = T
    BY WrittenEntries
  <1>2. \A k \in Server : Len(Fetched(k)) \in Nat
    BY ViewsHold DEF OplogViews, OplogView
  <1> HIDE DEF N, T
  <1>3. SortedInv'
    <2> SUFFICES ASSUME NEW n \in Server, NEW j \in 1..Len(Fetched(n)'), NEW i \in 1..j
                 PROVE  Fetched(n)'[i] <= Fetched(n)'[j]
      BY DEF SortedInv
    <2>1. CASE n # p
      BY <1>1, <2>1 DEF ShapeInv, SortedInv
    <2>2. CASE n = p /\ j \in 1..N
      <3>1. i \in 1..N /\ j \in 1..Len(Fetched(p))
        BY <1>1, <2>2
      <3>2. Fetched(p)[i] <= Fetched(p)[j]
        BY <3>1 DEF ShapeInv, SortedInv
      <3> QED BY <1>1, <2>2, <3>1, <3>2
    <2>3. CASE n = p /\ j \notin 1..N
      <3>1. j = N + 1 /\ (i = N + 1 \/ i \in 1..N)
        BY <1>1, <2>3
      <3> QED BY <1>1, <2>3, <3>1
    <2> QED BY <2>1, <2>2, <2>3
  <1>4. OneBranchInv'
    <2> SUFFICES ASSUME NEW m \in Server, NEW n \in Server,
                        NEW i \in 1..Len(Fetched(m)'), NEW j \in 1..Len(Fetched(n)'),
                        i <= j, Fetched(m)'[i] = Fetched(n)'[j]
                 PROVE  Fetched(n)'[i] = Fetched(n)'[j]
      BY DEF OneBranchInv
    <2>0. i \in Nat /\ j \in Nat /\ i >= 1 /\ j >= 1
      BY <1>1, <1>2
    <2>1. CASE m # p /\ n # p
      BY <1>1, <2>1 DEF ShapeInv, OneBranchInv
    <2>2. CASE m = n
      <3>1. i \in 1..Len(Fetched(n)')
        BY <2>2
      <3> QED BY <2>2
    <2>3. CASE m # p /\ n = p
      <3>1. i \in 1..Len(Fetched(m)) /\ Fetched(m)[i] = Fetched(p)'[j]
        BY <1>1, <2>3
      <3>2. CASE j \in 1..N
        <4>1. i \in 1..N /\ j \in 1..Len(Fetched(p)) /\ Fetched(p)[j] = Fetched(p)'[j]
          BY <1>1, <2>0, <3>2
        <4>2. Fetched(p)[i] = Fetched(p)[j]
          BY <3>1, <4>1 DEF ShapeInv, OneBranchInv
        <4> QED BY <1>1, <2>3, <4>1, <4>2
      <3>3. CASE j \notin 1..N
        <4>1. j = N + 1
          BY <1>1, <2>0, <2>3, <3>3
        <4>2. Fetched(m)[i] = T
          BY <1>1, <3>1, <4>1
        <4>3. i \in 1..N /\ log[p][i] = T
          BY <1>1, <2>3, <3>1, <4>2
        <4> QED BY <1>1, <2>3, <4>1, <4>3
      <3> QED BY <3>2, <3>3
    <2>4. CASE m = p /\ n # p
      <3>1. j \in 1..Len(Fetched(n)) /\ Fetched(n)[j] = Fetched(p)'[i]
        BY <1>1, <2>4
      <3>2. CASE i \in 1..N
        <4>1. i \in 1..Len(Fetched(p)) /\ Fetched(p)[i] = Fetched(p)'[i]
          BY <1>1, <3>2
        <4>2. Fetched(n)[i] = Fetched(n)[j]
          BY <3>1, <4>1 DEF ShapeInv, OneBranchInv
        <4> QED BY <1>1, <2>4, <4>2
      <3>3. CASE i \notin 1..N
        <4>1. i = N + 1
          BY <1>1, <2>0, <2>4, <3>3
        <4>2. Fetched(n)[j] = T
          BY <1>1, <3>1, <4>1
        <4>3. j \in 1..N
          BY <1>1, <2>4, <3>1, <4>2
        <4> QED BY <1>1, <2>0, <4>1, <4>3
      <3> QED BY <3>2, <3>3
    <2> QED BY <2>1, <2>2, <2>3, <2>4
  <1> QED BY <1>3, <1>4 DEF ShapeInv

-----------------------------------------------------------------------------
(* What members say of their oplogs. *)

LEMMA ServersAreMajority ==
    ASSUME NEW n \in Server
    PROVE  IsMajority(Server)
  <1>1. Cardinality(Server) \in Nat /\ Cardinality(Server) # 0
    BY ServerAssumption, FS_CardinalityType, FS_EmptySet
  <1> QED BY <1>1 DEF IsMajority

\* What a member has fetched is led.
GotLed ==
    \A n \in Server : Led(Null) /\ \A c \in OpTimes : c # Null /\ Got(n, c) => Led(c)

LEMMA GotIsLed == TypeInv /\ MembersInv /\ LogInv => GotLed
  <1> SUFFICES ASSUME TypeInv, MembersInv, LogInv PROVE GotLed
    OBVIOUS
  <1>1. ASSUME NEW c \in OpTimes, c # Null, NEW n \in Server, Got(n, c)
        PROVE  Led(c)
    <2>1. c.i \in 1..Len(Fetched(n)) /\ Fetched(n)[c.i] = c.t
      BY <1>1 DEF Got
    <2>2. IsMajority(Voted(c.t))
      BY <2>1 DEF LogInv, ElectedInv
    <2>3. ASSUME NEW p \in Server, isPrimary(p), term[p] = c.t
          PROVE  Holds(p, c)
      <3>1. c.i <= Len(log[p]) /\ log[p][c.i] = c.t
        BY <2>1, <2>3 DEF LogInv, LeaderInv
      <3>2. c.i \in Nat /\ c.i >= 1 /\ Len(log[p]) \in Nat
        BY <1>1, EntryFacts, ViewsHold DEF Entry, OplogViews, OplogView
      <3> QED BY <3>1, <3>2 DEF Holds
    <2> QED BY <2>2, <2>3 DEF Led
  <1>2. ASSUME NEW n \in Server
        PROVE  Led(Null)
    <2>1. Null.t = 0
      BY DEF Null, OpTime
    <2>2. \A k \in Server : lastVote[k] \in Nat
      BY BoundAssumption DEF TypeInv, ElectionType
    <2>3. Voted(0) = Server
      BY <2>2 DEF Voted
    <2>4. \A p \in Server : isPrimary(p) => term[p] # 0
      <3>1. \A p \in Server : isPrimary(p) => term[p] >= 1
        BY DEF MembersInv, MemberInv
      <3> QED BY <3>1
    <2> QED BY <2>1, <2>3, <2>4, ServersAreMajority DEF Led
  <1> QED BY <1>1, <1>2 DEF GotLed

LEMMA NextGotIsLed == TypeInv' /\ MembersInv' /\ LogInv' => GotLed'
  BY GotIsLed, PTL

\* What the steps that copy and cut oplogs do to entries.
LEMMA CopyEntries ==
    ASSUME TypeInv, TypeInv', MembersInv, MembersInv', NEW k \in Server, MemberStep(k),
           NEW c, Entry(c)
    PROVE  /\ Got(k, c)' => \E m \in Server : Got(m, c)
           /\ StartsWith(log'[k], log[k]) /\ Holds(k, c) => Holds(k, c)'
           /\ StartsWith(log[k], log'[k]) /\ Holds(k, c)' => Holds(k, c)
           /\ Holds(k, c) /\ c.i <= Len(log'[k]) => Holds(k, c)'
  <1>1. /\ Len(log[k]) \in Nat /\ Len(log'[k]) \in Nat /\ c.i \in Nat /\ c.i >= 1
        /\ Len(Fetched(k)') \in Nat /\ \A m \in Server : Len(Fetched(m)) \in Nat
    BY ViewsHold, NextViewsHold, EntryFacts DEF OplogViews, OplogView
  <1>2. Got(k, c)' => \E m \in Server : Got(m, c)
    <2>1. PICK m \in Server : StartsWith(Fetched(m), Fetched(k)')
      BY DEF MemberStep
    <2>2. Got(k, c)' => c.i \in 1..Len(Fetched(k)') /\ Fetched(k)'[c.i] = c.t
      BY DEF Got
    <2>3. Got(k, c)' => c.i \in 1..Len(Fetched(m)) /\ Fetched(m)[c.i] = c.t
      BY <1>1, <2>1, <2>2, StartsAt
    <2> QED BY <2>3 DEF Got
  <1>3. StartsWith(log'[k], log[k]) /\ Holds(k, c) => Holds(k, c)'
    BY <1>1, StartsAt DEF Holds
  <1>4. StartsWith(log[k], log'[k]) /\ Holds(k, c)' => Holds(k, c)
    BY <1>1, StartsAt DEF Holds
  <1>5. Holds(k, c) /\ c.i <= Len(log'[k]) => Holds(k, c)'
    <2>1. StartsWith(log'[k], log[k]) \/ StartsWith(log[k], log'[k])
      BY DEF MemberStep
    <2>2. CASE StartsWith(log[k], log'[k])
      BY <1>1, <2>2 DEF Holds, StartsWith
    <2> QED BY <1>3, <2>1, <2>2
  <1> QED BY <1>2, <1>3, <1>4, <1>5

LEMMA WriteEntries ==
    ASSUME TypeInv, TypeInv', MembersInv, MembersInv', LogInv, OplogFacts,
           NEW p \in Server, Writes(p), NEW k \in Server, NEW c, Entry(c)
    PROVE  /\ Holds(k, c) => Holds(k, c)'
           /\ Holds(k, c)' /\ c # Top(log'[p]) => Holds(k, c)
           /\ Got(k, c)' /\ c # Top(log'[p]) => Got(k, c)
           /\ k # p => (Got(k, c)' <=> Got(k, c)) /\ (Holds(k, c)' <=> Holds(k, c))
           /\ StartsWith(log'[k], log[k])
  <1> DEFINE N == Len(log[p])
             T == term[p]
  <1>1. /\ N \in Nat /\ T \in Nat /\ T >= 1
        /\ Len(log'[p]) = N + 1 /\ Len(Fetched(p)') = N + 1
        /\ log'[p][N + 1] = T
        /\ \A i \in 1..N : /\ log'[p][i] = log[p][i] /\ log[p][i] = Fetched(p)[i]
                           /\ i \in 1..Len(Fetched(p))
        /\ Fetched(p)' = log'[p]
        /\ \A i \in Server \ {p} : Fetched(i)' = Fetched(i) /\ log'[i] = log[i]
    BY WrittenEntries
  <1>2. Top(log'[p]) = OpTime(T, N + 1)
    BY DEF Writes
  <1>3. Len(log[p]) = N
    OBVIOUS
  <1>4. c.i \in Nat /\ c.i >= 1 /\ c = OpTime(c.t, c.i) /\ Len(log[k]) \in Nat
    BY EntryFacts, ViewsHold DEF OplogViews, OplogView
  <1> HIDE DEF N, T
  <1>5. CASE k # p
    <2>1. (Got(k, c)' <=> Got(k, c)) /\ (Holds(k, c)' <=> Holds(k, c))
      BY <1>1, <1>5 DEF Got, Holds
    <2>2. StartsWith(log'[k], log[k])
      BY <1>1, <1>4, <1>5 DEF StartsWith
    <2> QED BY <1>5, <2>1, <2>2
  <1>6. CASE k = p
    <2>1. Holds(p, c) => Holds(p, c)'
      BY <1>1, <1>3 DEF Holds
    <2>2. c # Top(log'[p]) /\ c.i \in 1..Len(log'[p]) /\ log'[p][c.i] = c.t => c.i \in 1..N
      BY <1>1, <1>2, <1>4
    <2>3. Holds(p, c)' /\ c # Top(log'[p]) => Holds(p, c)
      BY <1>1, <1>3, <2>2 DEF Holds
    <2>4. Got(p, c)' /\ c # Top(log'[p]) => Got(p, c)
      BY <1>1, <2>2 DEF Got
    <2>5. StartsWith(log'[p], log[p])
      BY <1>1, <1>3 DEF StartsWith
    <2> QED BY <1>6, <2>1, <2>3, <2>4, <2>5
  <1> QED BY <1>5, <1>6

LEMMA CopyLed ==
    ASSUME TypeInv, TypeInv', MembersInv, MembersInv', \A k \in Server : MemberStep(k),
           NEW c \in OpTimes, Led(c)
    PROVE  Led(c)'
  <1>1. IsMajority(Voted(c.t)) /\ c.t \in Nat
    BY OpTimeFacts DEF Led
  <1>2. \A k \in Server : lastVote'[k] >= lastVote[k]
    BY DEF MemberStep
  <1>3. IsMajority({v \in Server : lastVote'[v] >= c.t})
    BY <1>1, <1>2, VotedGrows
  <1>4. ASSUME NEW p \in Server, isPrimary(p)', term'[p] = c.t
        PROVE  Holds(p, c)'
    <2>1. CASE isPrimary(p) /\ term'[p] = term[p] /\ StartsWith(log'[p], log[p])
      <3>1. Holds(p, c)
        BY <1>4, <2>1 DEF Led
      <3>2. c # Null
        <4>1. term[p] >= 1 /\ term[p] = c.t
          BY <1>4, <2>1 DEF MembersInv, MemberInv
        <4> QED BY <4>1 DEF Null, OpTime
      <3> QED BY <2>1, <3>1, <3>2, CopyEntries DEF Entry
    <2>2. CASE Wins(p)
      <3>1. PICK W \in SUBSET Server : IsMajority(W) /\ \A v \in W : lastVote[v] < term'[p]
        BY <2>2 DEF Wins
      <3>2. Voted(c.t) \in SUBSET Server
        BY DEF Voted
      <3>3. PICK v \in Server : v \in W /\ v \in Voted(c.t)
        BY <1>1, <3>1, <3>2, MajoritiesMeet
      <3>4. lastVote[v] < c.t /\ lastVote[v] >= c.t /\ lastVote[v] \in Nat
        BY <1>4, <3>1, <3>3, BoundAssumption DEF Voted, TypeInv, ElectionType
      <3> QED BY <1>1, <3>4
    <2> QED BY <1>4, <2>1, <2>2 DEF MemberStep
  <1> QED BY <1>3, <1>4 DEF Led, Voted, IsMajority

LEMMA WriteLed ==
    ASSUME TypeInv, TypeInv', MembersInv, MembersInv', LogInv, OplogFacts,
           NEW p \in Server, Writes(p), NEW c \in OpTimes, Led(c)
    PROVE  Led(c)'
  <1>1. /\ \A k \in Server : lastVote'[k] = lastVote[k] /\ term'[k] = term[k]
        /\ \A k \in Server : isPrimary(k)' => isPrimary(k)
    BY DEF Writes, OnlyMember, SameMember, isPrimary
  <1>2. Voted(c.t)' = Voted(c.t)
    BY <1>1 DEF Voted
  <1>3. ASSUME NEW q \in Server, isPrimary(q)', term'[q] = c.t
        PROVE  Holds(q, c)'
    <2>1. Holds(q, c)
      BY <1>1, <1>3 DEF Led
    <2>2. c # Null
      <3>1. term[q] >= 1 /\ term[q] = c.t
        BY <1>1, <1>3 DEF MembersInv, MemberInv
      <3> QED BY <3>1 DEF Null, OpTime
    <2> QED BY <2>1, <2>2, WriteEntries DEF Entry
  <1> QED BY <1>2, <1>3 DEF Led, IsMajority

\* A member that is not rolling back speaks of the last entry it has.
LEMMA TopIsLed ==
    ASSUME OplogFacts', GotLed', NEW n \in Server, Says(n)', role'[n] # "Truncated"
    PROVE  Led(lastApplied[n])'
  <1>1. lastApplied'[n] = Top(log'[n]) /\ Top(log'[n]) \in OpTimes
    BY DEF Says, OplogFacts
  <1>2. CASE Top(log'[n]) = Null
    <2>1. Led(Null)'
      BY DEF GotLed
    <2> QED BY <1>1, <1>2, <2>1 DEF Led, Voted, Holds
  <1>3. CASE Top(log'[n]) # Null
    <2>1. Holds(n, Top(log[n]))'
      BY <1>3 DEF OplogFacts
    <2>2. Got(n, Top(log[n]))'
      BY <1>1, <1>3, <2>1 DEF OplogFacts
    <2>3. \A c \in OpTimes : c = Top(log'[n]) => Led(c)'
      BY <1>3, <2>2 DEF GotLed, Got
    <2> QED BY <1>1, <2>3 DEF Led, Voted, Holds
  <1> QED BY <1>2, <1>3

LEMMA NextApplied ==
    ASSUME TypeInv, TypeInv', MembersInv, MembersInv', LogInv, LogInv', OplogFacts, OplogFacts',
           AppliedInv, (\A k \in Server : MemberStep(k)) \/ (\E p \in Server : Writes(p))
    PROVE  AppliedInv'
  <1> SUFFICES ASSUME NEW n \in Server PROVE Says(n)' /\ Led(lastApplied[n])'
    BY DEF AppliedInv
  <1>1. Says(n)' /\ (role'[n] = "Truncated" => lastApplied'[n] = lastApplied[n])
    <2>1. CASE \A k \in Server : MemberStep(k)
      BY <2>1 DEF MemberStep, Cuts
    <2>2. CASE \E p \in Server : Writes(p)
      <3>1. PICK p \in Server : Writes(p)
        BY <2>2
      <3>2. CASE n = p
        BY <3>1, <3>2 DEF Writes, isPrimary, Leading
      <3>3. CASE n # p
        <4>1. SameMember(n) /\ Says(n)
          BY <3>1, <3>3 DEF Writes, OnlyMember, AppliedInv
        <4> QED BY <4>1 DEF SameMember, Says
      <3> QED BY <3>2, <3>3
    <2> QED BY <2>1, <2>2
  <1>2. CASE role'[n] # "Truncated"
    BY <1>1, <1>2, TopIsLed, NextGotIsLed
  <1>3. CASE role'[n] = "Truncated"
    <2>1. Led(lastApplied[n]) /\ lastApplied[n] \in OpTimes
      BY RoleFacts DEF AppliedInv
    <2>2. Led(lastApplied[n]) => \A c \in OpTimes : c = lastApplied[n] => Led(c)'
      BY CopyLed, WriteLed
    <2>3. \A c \in OpTimes : c = lastApplied'[n] => Led(c)'
      BY <1>1, <1>3, <2>1, <2>2
    <2> QED BY <1>1, <1>3, <2>1, <2>3 DEF Led, Voted, Holds
  <1> QED BY <1>1, <1>2, <1>3

-----------------------------------------------------------------------------
(* What primaries have heard. *)

LEMMA ReportFacts ==
    ASSUME TypeInv, NEW p \in Server, NEW v \in Server
    PROVE  /\ reports[p][v] \in OpTimes /\ reports[p][v].t \in Nat /\ reports[p][v].i \in Nat
           /\ term[p] \in Nat /\ lastVote[v] \in Nat
  <1>1. reports[p][v] \in OpTimes
    BY DEF TypeInv, PrimaryType
  <1>2. term[p] \in Nat /\ lastVote[v] \in Nat
    BY BoundAssumption DEF TypeInv, ElectionType
  <1> QED BY <1>1, <1>2, OpTimeFacts

\* A primary that counts was elected in this step and has heard nothing, or it counted before.
LEMMA CountingSteps ==
    ASSUME TypeInv, TypeInv', MembersInv', NEW p \in Server, MemberStep(p), Heard(p),
           role'[p] \in Counting
    PROVE  \/ /\ Wins(p) /\ term'[p] >= 1 /\ term'[p] \in Nat
              /\ \A v \in Server : reports'[p][v] = Null
           \/ /\ role[p] \in Counting /\ isPrimary(p) /\ term'[p] = term[p]
              /\ StartsWith(log'[p], log[p])
              /\ \A v \in Server : reports'[p][v] = reports[p][v] \/ Reports(v, p)
  <1>1. isPrimary(p)'
    BY DEF isPrimary, Leading, Counting
  <1>2. CASE Wins(p)
    <2>1. ~isPrimary(p) /\ reports'[p] = reports[p]
      BY <1>2 DEF Wins, isPrimary, Leading
    <2>2. term'[p] >= 1
      BY <1>1 DEF MembersInv, MemberInv
    <2>3. term'[p] \in Nat
      BY BoundAssumption DEF TypeInv, ElectionType
    <2> QED BY <1>2, <2>1, <2>2, <2>3 DEF Heard
  <1>3. CASE ~Wins(p)
    BY <1>1, <1>3 DEF MemberStep
  <1> QED BY <1>2, <1>3

LEMMA CopyReports ==
    ASSUME TypeInv, TypeInv', MembersInv, MembersInv', AppliedInv, ReportInv,
           \A k \in Server : MemberStep(k)
    PROVE  ReportInv'
  <1> SUFFICES ASSUME NEW p \in Server
               PROVE  /\ Heard(p)'
                      /\ role'[p] \in Counting =>
                        /\ \A v \in Server : reports'[p][v].t = term'[p] =>
                                                Holds(p, reports[p][v])'
                        /\ Ahead(p)' # {} =>
                            IsMajority({v \in Server : lastVote'[v] > term'[p]
                                                        /\ v \notin Ahead(p)'})
    BY DEF ReportInv, Counting, IsMajority
  <1>1. Heard(p)' /\ Heard(p)
    BY DEF MemberStep, ReportInv
  <1> SUFFICES ASSUME role'[p] \in Counting
               PROVE  /\ \A v \in Server : reports'[p][v].t = term'[p] =>
                                                Holds(p, reports[p][v])'
                      /\ Ahead(p)' # {} =>
                            IsMajority({v \in Server : lastVote'[v] > term'[p]
                                                        /\ v \notin Ahead(p)'})
    BY <1>1
  <1>2. CASE /\ term'[p] >= 1 /\ term'[p] \in Nat /\ \A v \in Server : reports'[p][v] = Null
    <2>1. \A v \in Server : reports'[p][v].t = 0
      BY <1>2 DEF Null, OpTime
    <2>2. Ahead(p)' = {}
      BY <1>2, <2>1 DEF Ahead
    <2> QED BY <1>2, <2>1, <2>2
  <1>3. CASE /\ role[p] \in Counting /\ isPrimary(p) /\ term'[p] = term[p]
             /\ StartsWith(log'[p], log[p])
             /\ \A v \in Server : reports'[p][v] = reports[p][v] \/ Reports(v, p)
    <2>1. ASSUME NEW v \in Server, reports'[p][v].t = term'[p]
          PROVE  Holds(p, reports[p][v])'
      <3>1. reports'[p][v] \in OpTimes /\ reports'[p][v] # Null
        <4>1. term[p] >= 1
          BY <1>3 DEF MembersInv, MemberInv
        <4> QED BY <1>3, <2>1, <4>1 DEF TypeInv, PrimaryType, Null, OpTime
      <3>2. Holds(p, reports'[p][v])
        <4>1. CASE reports'[p][v] = reports[p][v]
          BY <1>3, <2>1, <4>1 DEF ReportInv
        <4>2. CASE Reports(v, p)
          <5>1. reports'[p][v] = lastApplied[v] /\ Led(lastApplied[v])
            BY <4>2 DEF Reports, AppliedInv
          <5> QED BY <1>3, <2>1, <5>1 DEF Led
        <4> QED BY <1>3, <4>1, <4>2
      <3>3. \A c \in OpTimes : c # Null /\ Holds(p, c) => Holds(p, c)'
        BY <1>3, CopyEntries DEF Entry
      <3>4. \A c \in OpTimes : c = reports'[p][v] => Holds(p, c)'
        BY <3>1, <3>2, <3>3
      <3> QED BY <3>1, <3>4 DEF Holds
    <2>2. ASSUME Ahead(p)' # {}
          PROVE  IsMajority({v \in Server : lastVote'[v] > term'[p] /\ v \notin Ahead(p)'})
      <3> DEFINE X == {v \in Server : lastVote[v] > term[p] /\ v \notin Ahead(p)}
                 Y == {v \in Server : lastVote'[v] > term'[p] /\ v \notin Ahead(p)'}
      <3>1. \A v \in Server : /\ lastVote'[v] >= lastVote[v] /\ lastVote'[v] \in Nat
                              /\ lastVote[v] \in Nat /\ term[p] \in Nat
        BY ReportFacts, BoundAssumption DEF MemberStep, TypeInv, ElectionType
      <3>2. \A v \in X : v \in Y
        <4> SUFFICES ASSUME NEW v \in X PROVE v \in Y
          OBVIOUS
        <4>1. v \in Server /\ lastVote'[v] > term'[p]
          BY <1>3, <3>1
        <4>2. v \notin Ahead(p)'
          <5>1. CASE reports'[p][v] = reports[p][v]
            BY <1>3, <5>1 DEF Ahead
          <5>2. CASE Reports(v, p)
            BY <3>1, <5>2 DEF Reports
          <5> QED BY <1>3, <4>1, <5>1, <5>2
        <4> QED BY <4>1, <4>2
      <3>3. IsMajority(X)
        <4>1. CASE Ahead(p) # {}
          BY <1>3, <4>1 DEF ReportInv
        <4>2. CASE Ahead(p) = {}
          <5>1. PICK v \in Server : reports'[p][v].t > term'[p]
            BY <2>2 DEF Ahead
          <5>2. Reports(v, p)
            BY <1>3, <4>2, <5>1 DEF Ahead
          <5>3. lastApplied[v].t > term[p] /\ IsMajority(Voted(lastApplied[v].t))
            BY <1>3, <5>1, <5>2 DEF Reports, AppliedInv, Led
          <5>4. lastApplied[v].t \in Nat
            BY RoleFacts, OpTimeFacts
          <5>5. Voted(lastApplied[v].t) \subseteq X
            BY <3>1, <4>2, <5>3, <5>4 DEF Voted
          <5> QED BY <5>3, <5>5, MajorityGrows
        <4> QED BY <4>1, <4>2
      <3> HIDE DEF X
      <3>4. X \subseteq Y /\ Y \in SUBSET Server
        BY <3>2
      <3> HIDE DEF Y
      <3>5. IsMajority(Y)
        BY <3>3, <3>4, MajorityGrows
      <3> QED BY <3>5 DEF Y
    <2> QED BY <2>1, <2>2
  <1> QED BY <1>1, <1>2, <1>3, CountingSteps

\* What no write changes.
LEMMA WriteKeeps ==
    ASSUME NEW p \in Server, Writes(p), NEW k \in Server
    PROVE  /\ lastVote'[k] = lastVote[k] /\ term'[k] = term[k] /\ reports'[k] = reports[k]
           /\ role'[k] \in Counting <=> role[k] \in Counting
           /\ isPrimary(k)' <=> isPrimary(k)
           /\ role'[k] = "Truncated" => /\ k # p /\ role[k] = "Truncated" /\ log'[k] = log[k]
                                        /\ lastApplied'[k] = lastApplied[k]
           /\ lastDurable'[k] = lastDurable[k]
           /\ Ahead(k)' = Ahead(k)
  <1>1. CASE k = p
    BY <1>1 DEF Writes, isPrimary, Leading, Ahead
  <1>2. CASE k # p
    <2>1. SameMember(k)
      BY <1>2 DEF Writes, OnlyMember
    <2> QED BY <1>2, <2>1 DEF SameMember, isPrimary, Ahead
  <1> QED BY <1>1, <1>2

LEMMA WriteReports ==
    ASSUME TypeInv, TypeInv', MembersInv, MembersInv', LogInv, OplogFacts, ReportInv,
           NEW p \in Server, Writes(p)
    PROVE  ReportInv'
  <1> SUFFICES ASSUME NEW q \in Server
               PROVE  /\ Heard(q)'
                      /\ role'[q] \in Counting =>
                        /\ \A v \in Server : reports'[q][v].t = term'[q] =>
                                                Holds(q, reports[q][v])'
                        /\ Ahead(q)' # {} =>
                            IsMajority({v \in Server : lastVote'[v] > term'[q]
                                                        /\ v \notin Ahead(q)'})
    BY DEF ReportInv, Counting, IsMajority
  <1>1. Heard(q)'
    <2>1. CASE q = p
      BY <2>1 DEF Writes
    <2>2. CASE q # p
      <3>1. SameMember(q) /\ Heard(q)
        BY <2>2 DEF Writes, OnlyMember, ReportInv
      <3> QED BY <3>1 DEF SameMember, Heard, isPrimary
    <2> QED BY <2>1, <2>2
  <1>2. ASSUME role'[q] \in Counting, NEW v \in Server, reports'[q][v].t = term'[q]
        PROVE  Holds(q, reports[q][v])'
    <2>1. reports'[q] = reports[q] /\ Holds(q, reports[q][v]) /\ term[q] = reports[q][v].t
      BY <1>2, WriteKeeps DEF ReportInv
    <2>2. reports[q][v] \in OpTimes /\ reports[q][v] # Null
      <3>1. term[q] >= 1
        BY <1>2, WriteKeeps DEF MembersInv, MemberInv, isPrimary, Counting, Leading
      <3> QED BY <2>1, <3>1, ReportFacts DEF Null, OpTime
    <2>3. \A c \in OpTimes : c = reports[q][v] => Holds(q, c)'
      BY <2>1, <2>2, WriteEntries DEF Entry
    <2> QED BY <2>1, <2>2, <2>3 DEF Holds
  <1>3. ASSUME role'[q] \in Counting, Ahead(q)' # {}
        PROVE  IsMajority({v \in Server : lastVote'[v] > term'[q] /\ v \notin Ahead(q)'})
    <2>1. IsMajority({v \in Server : lastVote[v] > term[q] /\ v \notin Ahead(q)})
      BY <1>3, WriteKeeps DEF ReportInv
    <2>2. {v \in Server : lastVote'[v] > term'[q] /\ v \notin Ahead(q)'}
            = {v \in Server : lastVote[v] > term[q] /\ v \notin Ahead(q)}
      BY WriteKeeps
    <2> QED BY <2>1, <2>2
  <1> QED BY <1>1, <1>2, <1>3

-----------------------------------------------------------------------------
(* The fate of entries. *)

LEMMA TopFacts ==
    ASSUME OplogFacts, NEW n \in Server
    PROVE  /\ Top(log[n]) \in OpTimes /\ Top(Fetched(n)) \in OpTimes
           /\ Top(log[n]).t \in Nat /\ Top(log[n]).i \in Nat
           /\ Top(Fetched(n)).t \in Nat /\ Top(Fetched(n)).i \in Nat
           /\ Top(log[n]).t <= Top(Fetched(n)).t
  <1>1. Top(log[n]) \in OpTimes /\ Top(Fetched(n)) \in OpTimes
        /\ Top(log[n]).t <= Top(Fetched(n)).t
    BY DEF OplogFacts
  <1> QED BY <1>1, OpTimeFacts

\* A member that is not behind c has it.
LEMMA ReachedHolds ==
    ASSUME OplogFacts, NEW c, Exists(c), Fate(c, FALSE), NEW n \in Server,
           AtMost(c, Top(log[n]))
    PROVE  Holds(n, c)
  <1>1. c \in OpTimes /\ c # Null /\ c.t \in Nat /\ c.t >= 1 /\ c.i \in Nat
    BY EntryFacts DEF Exists, Entry
  <1>2. /\ Top(log[n]) \in OpTimes /\ Top(log[n]).t <= Top(Fetched(n)).t
        /\ Top(log[n]).t \in Nat /\ Top(Fetched(n)).t \in Nat /\ Top(log[n]).i = Len(log[n])
    BY TopFacts DEF OplogFacts
  <1>3. c.t < Top(log[n]).t \/ (c.t = Top(log[n]).t /\ c.i <= Top(log[n]).i)
    BY <1>1, <1>2, AtMostMeans
  <1>4. CASE c.t < Top(log[n]).t
    <2>1. Top(Fetched(n)).t > c.t
      BY <1>1, <1>2, <1>4
    <2>2. Got(n, c)
      BY <2>1 DEF Fate
    <2> QED BY <1>1, <1>4, <2>2 DEF OplogFacts
  <1>5. CASE c.t = Top(log[n]).t /\ c.i <= Top(log[n]).i
    <2>1. PICK m \in Server : Got(m, c)
      BY DEF Exists
    <2> DEFINE e == Top(log[n])
    <2>2. e \in OpTimes /\ e # Null
      BY <1>1, <1>2, <1>5 DEF Null, OpTime
    <2>3. Holds(n, e)
      BY <2>2 DEF OplogFacts
    <2>4. Got(n, e) /\ c.t = e.t /\ c.i <= e.i
      BY <1>5, <2>2, <2>3 DEF OplogFacts
    <2>5. c.i <= Len(log[n])
      BY <1>2, <1>5
    <2> HIDE DEF e
    <2>6. Got(n, c)
      BY <1>1, <2>1, <2>2, <2>4 DEF OplogFacts
    <2> QED BY <1>1, <2>5, <2>6 DEF OplogFacts
  <1> QED BY <1>3, <1>4, <1>5

\* A member that has c says so, or that it is further.
LEMMA HoldsSays ==
    ASSUME TypeInv, OplogFacts, NEW c, Entry(c), NEW n \in Server, Says(n), Holds(n, c)
    PROVE  AtMost(c, lastApplied[n])
  <1>1. AtMost(c, Top(log[n])) /\ Top(log[n]) \in OpTimes /\ lastApplied[n] \in OpTimes
    BY RoleFacts DEF OplogFacts, Entry
  <1>2. AtMost(Top(log[n]), lastApplied[n])
    BY <1>1, OpTimeOrder DEF Says
  <1> QED BY <1>1, <1>2, OpTimeOrder DEF Entry

\* A member that says it has c, or more, has it.
LEMMA SaysHolds ==
    ASSUME TypeInv, OplogFacts, NEW c, Exists(c), Fate(c, FALSE), NEW n \in Server, Says(n),
           AtMost(c, lastApplied[n])
    PROVE  Holds(n, c)
  <1>1. Top(log[n]) \in OpTimes /\ c \in OpTimes
    BY DEF OplogFacts, Exists, Entry
  <1>2. CASE role[n] = "Truncated"
    <2>1. ~Before(Top(log[n]), c)
      BY <1>2 DEF Fate
    <2>2. AtMost(c, Top(log[n]))
      BY <1>1, <2>1, OpTimeOrder
    <2> QED BY <2>2, ReachedHolds
  <1>3. CASE role[n] # "Truncated"
    BY <1>3, ReachedHolds DEF Says
  <1> QED BY <1>2, <1>3

\* n is elected although it does not have c.
WinsWithout(n, c) == Wins(n) /\ term'[n] > c.t /\ ~AtMost(c, Top(log[n]))

LEMMA CopyFate ==
    ASSUME TypeInv, TypeInv', MembersInv, MembersInv', OplogFacts, OplogFacts', AppliedInv,
           \A k \in Server : MemberStep(k),
           NEW c, Exists(c), Fate(c, FALSE)
    PROVE  Fate(c, FALSE)' \/ \E n \in Server : WinsWithout(n, c)
  <1>0. Entry(c) /\ c \in OpTimes /\ c # Null /\ c.t \in Nat /\ c.i \in Nat /\ c.i >= 1
    BY EntryFacts DEF Exists, Entry
  <1> SUFFICES ASSUME \A n \in Server : ~WinsWithout(n, c), NEW n \in Server
               PROVE  /\ (Top(Fetched(n)).t > c.t => Got(n, c))'
                      /\ (isPrimary(n) /\ term[n] > c.t => Holds(n, c))'
                      /\ ~(/\ role[n] = "Truncated" /\ Before(Top(log[n]), c)
                           /\ AtMost(c, lastApplied[n]))'
    BY DEF Fate
  <1>1. ASSUME Top(Fetched(n)').t > c.t
        PROVE  Got(n, c)'
    <2> DEFINE e == Top(Fetched(n)')
    <2>1. PICK m \in Server : StartsWith(Fetched(m), Fetched(n)')
      BY DEF MemberStep
    <2>2. e \in OpTimes /\ e # Null /\ e.t > c.t /\ e.t \in Nat /\ e.i = Len(Fetched(n)')
          /\ e.i \in Nat
      BY <1>0, <1>1, OpTimeFacts DEF OplogFacts, Null, OpTime
    <2>3. Got(n, Top(Fetched(n)))'
      BY <2>2 DEF OplogFacts
    <2>4. e.i \in 1..Len(Fetched(n)') /\ Fetched(n)'[e.i] = e.t
      BY <2>3 DEF Got
    <2>5. /\ Len(Fetched(m)) \in Nat /\ Len(Fetched(n)') \in Nat
      BY ViewsHold, NextViewsHold DEF OplogViews, OplogView
    <2> HIDE DEF e
    <2>6. Got(m, e)
      BY <2>1, <2>4, <2>5, StartsAt DEF Got
    <2>7. AtMost(e, Top(Fetched(m))) /\ Top(Fetched(m)) \in OpTimes
      BY <2>2, <2>6 DEF OplogFacts
    <2>8. Top(Fetched(m)).t > c.t
      BY <1>0, <2>2, <2>7, AtMostMeans
    <2>9. Got(m, c)
      BY <2>8 DEF Fate
    <2>10. AtMost(c, e)
      BY <1>0, <2>2, AtMostMeans
    <2>11. c.i <= e.i
      BY <1>0, <2>2, <2>6, <2>9, <2>10 DEF OplogFacts
    <2>12. c.i \in 1..Len(Fetched(n)')
      BY <1>0, <2>2, <2>11
    <2>13. Fetched(m)[c.i] = Fetched(n)'[c.i]
      BY <2>1, <2>12 DEF StartsWith
    <2> QED BY <2>9, <2>12, <2>13 DEF Got
  <1>2. ASSUME isPrimary(n)', term'[n] > c.t
        PROVE  Holds(n, c)'
    <2>1. CASE isPrimary(n) /\ term'[n] = term[n] /\ StartsWith(log'[n], log[n])
      <3>1. Holds(n, c)
        BY <1>2, <2>1 DEF Fate
      <3> QED BY <1>0, <2>1, <3>1, CopyEntries
    <2>2. CASE Wins(n)
      <3>1. AtMost(c, Top(log[n])) /\ log'[n] = log[n]
        BY <1>2, <2>2 DEF WinsWithout, Wins
      <3>2. Holds(n, c)
        BY <3>1, ReachedHolds
      <3> QED BY <3>1, <3>2 DEF Holds
    <2> QED BY <1>2, <2>1, <2>2 DEF MemberStep
  <1>3. ASSUME role'[n] = "Truncated", Before(Top(log'[n]), c), AtMost(c, lastApplied'[n])
        PROVE  FALSE
    <2>1. CASE role[n] = "Truncated" /\ log'[n] = log[n] /\ lastApplied'[n] = lastApplied[n]
      BY <1>3, <2>1 DEF Fate
    <2>2. CASE Cuts(n)
      <3>1. role[n] = "Rollback" /\ lastApplied'[n] = lastApplied[n]
        BY <2>2 DEF Cuts
      <3>2. lastApplied[n] = Top(log[n])
        BY <3>1 DEF AppliedInv, Says
      <3>3. PICK s \in Server : /\ AtMost(Top(log[n]), Top(log[s]))
                                /\ Holds(n, c) /\ Holds(s, c) => Holds(n, c)'
        BY <1>0, <2>2 DEF Cuts
      <3>4. AtMost(c, Top(log[n])) /\ AtMost(c, Top(log[s]))
        BY <1>0, <1>3, <3>1, <3>2, <3>3, TopFacts, OpTimeOrder
      <3>5. Holds(n, c)'
        BY <3>3, <3>4, ReachedHolds
      <3>6. AtMost(c, Top(log[n]))' /\ Top(log'[n]) \in OpTimes
        BY <1>0, <3>5 DEF OplogFacts
      <3>7. AtMost(c, Top(log'[n]))
        BY <3>6 DEF AtMost, Before
      <3> QED BY <1>0, <1>3, <3>6, <3>7, OpTimeOrder
    <2> QED BY <1>3, <2>1, <2>2 DEF MemberStep
  <1> QED BY <1>1, <1>2, <1>3 DEF AtMost, Before

\* What a crash does not take away, no roll back takes away either.
LEMMA CopyDurable ==
    ASSUME TypeInv, TypeInv', MembersInv, MembersInv', OplogFacts, NEW v \in Server,
           MemberStep(v), NEW c, Exists(c), Fate(c, FALSE), Durable(v, c)
    PROVE  Durable(v, c)'
  <1>0. Entry(c) /\ c \in OpTimes /\ c.i \in Nat
    BY EntryFacts DEF Exists
  <1>1. CASE ~Cuts(v)
    BY <1>0, <1>1 DEF MemberStep
  <1>2. CASE Cuts(v)
    <2>1. PICK s \in Server : /\ AtMost(Top(log[v]), Top(log[s]))
                              /\ Holds(v, c) /\ Holds(s, c) => Holds(v, c)'
      BY <1>0, <1>2 DEF Cuts
    <2>2. Holds(v, c)
      BY DEF Durable
    <2>3. AtMost(c, Top(log[v]))
      BY <1>0, <2>2 DEF OplogFacts, Entry
    <2>4. AtMost(c, Top(log[s]))
      BY <1>0, <2>1, <2>3, TopFacts, OpTimeOrder
    <2>5. Holds(v, c)'
      BY <2>1, <2>2, <2>4, ReachedHolds
    <2>6. c.i <= Len(log'[v])
      <3>1. c.i \in 1..Len(log'[v]) /\ Len(log'[v]) \in Nat
        BY <2>5, NextViewsHold DEF Holds, OplogViews, OplogView
      <3> QED BY <3>1
    <2>7. role'[v] = "Truncated"
      BY <1>2 DEF Cuts
    <2> QED BY <2>5, <2>6, <2>7 DEF Durable, DurableLen
  <1> QED BY <1>1, <1>2

\* A member that reports c, or more, has made c durable.
LEMMA ReportsDurable ==
    ASSUME TypeInv, TypeInv', OplogFacts, NEW v \in Server, NEW p \in Server, Says(v),
           NEW c, Exists(c), Fate(c, FALSE), Reports(v, p), AtMost(c, lastApplied[v])
    PROVE  Durable(v, c)'
  <1>1. Holds(v, c)
    BY SaysHolds
  <1>2. log'[v] = log[v] /\ role'[v] = role[v] /\ lastDurable'[v] = lastApplied[v]
    BY DEF Reports
  <1>3. Holds(v, c)' /\ c.i <= Len(log[v])
    BY <1>1, <1>2 DEF Holds, OplogFacts, Exists, Entry
  <1>4. role[v] # "Truncated" => lastApplied[v].i = Len(log[v])
    BY DEF Says, OplogFacts
  <1> QED BY <1>2, <1>3, <1>4 DEF Durable, DurableLen

\* Who reported c in the end had reported it before, or reports it now.
LEMMA CopyReported ==
    ASSUME TypeInv, TypeInv', MembersInv, MembersInv', ReportInv, \A k \in Server : MemberStep(k),
           NEW c, Entry(c), NEW v \in Server, Reported(v, c)'
    PROVE  \/ Reported(v, c)
           \/ \E p \in Server : Reports(v, p) /\ AtMost(c, lastApplied[v]) /\ term[p] = c.t
  <1>1. PICK p \in Server : role'[p] \in Counting /\ term'[p] = c.t /\ AtMost(c, reports'[p][v])
    BY DEF Reported, AtMost, Before, Counting
  <1>2. ~(\A u \in Server : reports'[p][u] = Null)
    <2>1. c \in OpTimes /\ c # Null /\ Null \in OpTimes
      BY OpTimeFacts DEF Entry
    <2>2. ~AtMost(c, Null)
      BY <2>1, OpTimeOrder
    <2> QED BY <1>1, <2>2
  <1>3. /\ role[p] \in Counting /\ term'[p] = term[p]
        /\ reports'[p][v] = reports[p][v] \/ Reports(v, p)
    <2>1. Heard(p)
      BY DEF ReportInv
    <2> QED BY <1>1, <1>2, <2>1, CountingSteps
  <1>4. CASE reports'[p][v] = reports[p][v]
    BY <1>1, <1>3, <1>4 DEF Reported
  <1>5. CASE Reports(v, p)
    BY <1>1, <1>3, <1>5 DEF Reports
  <1> QED BY <1>3, <1>4, <1>5

LEMMA CopyBlocked ==
    ASSUME TypeInv, TypeInv', MembersInv, MembersInv', ReportInv, \A k \in Server : MemberStep(k),
           NEW c, Entry(c), Blocked(c)
    PROVE  Blocked(c)'
  <1> DEFINE X == {v \in Server : lastVote[v] > c.t /\ ~Reported(v, c)}
             Y == {v \in Server : lastVote'[v] > c.t /\ ~Reported(v, c)'}
  <1>1. \A v \in Server : /\ lastVote'[v] >= lastVote[v] /\ lastVote'[v] \in Nat
                          /\ lastVote[v] \in Nat /\ c.t \in Nat
    BY EntryFacts, BoundAssumption DEF MemberStep, TypeInv, ElectionType
  <1>2. ASSUME NEW v \in X
        PROVE  v \in Y
    <2>1. v \in Server /\ lastVote'[v] > c.t
      BY <1>1
    <2>2. ~Reported(v, c)'
      <3> SUFFICES ASSUME Reported(v, c)' PROVE FALSE
        OBVIOUS
      <3>1. PICK p \in Server : Reports(v, p) /\ term[p] = c.t
        BY CopyReported
      <3>2. lastVote[v] <= c.t
        BY <3>1 DEF Reports
      <3> QED BY <1>1, <2>1, <3>2
    <2> QED BY <2>1, <2>2
  <1>3. IsMajority(X)
    BY DEF Blocked
  <1> HIDE DEF X
  <1>4. X \subseteq Y /\ Y \in SUBSET Server
    BY <1>2
  <1> HIDE DEF Y
  <1>5. IsMajority(Y)
    BY <1>3, <1>4, MajorityGrows
  <1> QED BY <1>5 DEF Y, Blocked, IsMajority

\* Who is elected without c blocks it.
LEMMA WinsBlocked ==
    ASSUME TypeInv, TypeInv', MembersInv, MembersInv', OplogFacts, AppliedInv, ReportInv,
           \A k \in Server : MemberStep(k),
           NEW c, Exists(c), \A v \in Server : Reported(v, c) => Durable(v, c),
           NEW n \in Server, WinsWithout(n, c)
    PROVE  Blocked(c)'
  <1>0. Entry(c) /\ c \in OpTimes
    BY DEF Exists, Entry
  <1>1. PICK W \in SUBSET Server :
            /\ IsMajority(W)
            /\ \A v \in W : lastVote'[v] = term'[n] /\ AtMost(lastApplied[v], Top(log[n]))
            /\ term'[n] > c.t
    BY DEF WinsWithout, Wins
  <1> DEFINE Y == {v \in Server : lastVote'[v] > c.t /\ ~Reported(v, c)'}
  <1>2. ASSUME NEW v \in W
        PROVE  v \in Y
    <2>1. ~AtMost(c, lastApplied[v])
      BY <1>0, <1>1, RoleFacts, TopFacts, OpTimeOrder DEF WinsWithout
    <2>2. ~Reported(v, c)
      <3> SUFFICES ASSUME Reported(v, c) PROVE FALSE
        OBVIOUS
      <3>1. Holds(v, c) /\ Says(v)
        BY DEF Durable, AppliedInv
      <3> QED BY <1>0, <2>1, <3>1, HoldsSays
    <2>3. ~Reported(v, c)'
      BY <1>0, <2>1, <2>2, CopyReported
    <2> QED BY <1>1, <2>3
  <1>3. W \subseteq Y /\ Y \in SUBSET Server
    BY <1>2
  <1> HIDE DEF Y
  <1>4. IsMajority(Y)
    BY <1>1, <1>3, MajorityGrows
  <1> QED BY <1>4 DEF Y, Blocked, IsMajority

LEMMA CopyFates ==
    ASSUME TypeInv, TypeInv', MembersInv, MembersInv', OplogFacts, OplogFacts',
           AppliedInv, ReportInv, FateInv, \A k \in Server : MemberStep(k)
    PROVE  FateInv'
  <1> SUFFICES ASSUME NEW c \in OpTimes, Exists(c)'
               PROVE  /\ Fate(c, Blocked(c))'
                      /\ \A v \in Server : Reported(v, c)' => Durable(v, c)' \/ Blocked(c)'
    BY DEF FateInv
  <1>1. Entry(c) /\ Exists(c)
    <2>1. Entry(c) /\ \E n \in Server : Got(n, c)'
      BY DEF Exists, Entry
    <2>2. \E m \in Server : Got(m, c)
      BY <2>1, CopyEntries
    <2> QED BY <2>1, <2>2 DEF Exists
  <1>2. /\ Fate(c, Blocked(c))
        /\ \A v \in Server : Reported(v, c) => Durable(v, c) \/ Blocked(c)
    BY <1>1 DEF FateInv
  <1>3. CASE Blocked(c)'
    BY <1>3 DEF Fate
  <1>4. CASE ~Blocked(c)'
    <2>1. ~Blocked(c)
      BY <1>1, <1>4, CopyBlocked
    <2>2. Fate(c, FALSE) /\ \A v \in Server : Reported(v, c) => Durable(v, c)
      BY <1>2, <2>1 DEF Fate
    <2>3. \A n \in Server : ~WinsWithout(n, c)
      BY <1>1, <1>4, <2>2, WinsBlocked
    <2>4. Fate(c, FALSE)'
      BY <1>1, <2>2, <2>3, CopyFate
    <2>5. Fate(c, Blocked(c))'
      BY <2>4 DEF Fate
    <2>6. ASSUME NEW v \in Server, Reported(v, c)'
          PROVE  Durable(v, c)'
      <3>1. CASE Reported(v, c)
        BY <1>1, <2>2, <3>1, CopyDurable
      <3>2. CASE \E p \in Server : Reports(v, p) /\ AtMost(c, lastApplied[v])
        <4>1. Says(v)
          BY DEF AppliedInv
        <4> QED BY <1>1, <2>2, <3>2, <4>1, ReportsDurable
      <3> QED BY <1>1, <2>6, <3>1, <3>2, CopyReported
    <2> QED BY <2>5, <2>6
  <1> QED BY <1>3, <1>4

\* A primary writes: nothing changes for the entries that exist.
LEMMA WriteReported ==
    ASSUME NEW p \in Server, Writes(p), NEW c
    PROVE  /\ \A v \in Server : Reported(v, c)' <=> Reported(v, c)
           /\ Blocked(c)' <=> Blocked(c)
  <1>1. \A v \in Server : Reported(v, c)' <=> Reported(v, c)
    BY WriteKeeps DEF Reported, AtMost, Before, Counting
  <1>2. {v \in Server : lastVote[v] > c.t /\ ~Reported(v, c)}
            = {v \in Server : lastVote'[v] > c.t /\ ~Reported(v, c)'}
    BY <1>1, WriteKeeps
  <1> QED BY <1>1, <1>2 DEF Blocked, IsMajority

LEMMA WriteDurable ==
    ASSUME TypeInv, TypeInv', MembersInv, MembersInv', LogInv, OplogFacts,
           NEW p \in Server, Writes(p), NEW v \in Server, NEW c, Entry(c), Durable(v, c)
    PROVE  Durable(v, c)'
  <1>1. Holds(v, c)' /\ StartsWith(log'[v], log[v])
    BY WriteEntries DEF Durable
  <1>2. /\ role'[v] = "Truncated" => role[v] = "Truncated" /\ log'[v] = log[v]
        /\ lastDurable'[v] = lastDurable[v]
    BY WriteKeeps
  <1>3. role[v] = "Truncated" => role'[v] = "Truncated"
    <2>1. CASE v = p
      BY <2>1 DEF Writes, isPrimary, Leading
    <2>2. CASE v # p
      BY <2>2 DEF Writes, OnlyMember, SameMember
    <2> QED BY <2>1, <2>2
  <1> QED BY <1>1, <1>2, <1>3 DEF Durable, DurableLen

LEMMA WriteFate ==
    ASSUME TypeInv, TypeInv', MembersInv, MembersInv', LogInv, OplogFacts, OplogFacts',
           NEW p \in Server, Writes(p), NEW c, Entry(c), Fate(c, FALSE)
    PROVE  Fate(c, FALSE)'
  <1> SUFFICES ASSUME NEW n \in Server
               PROVE  /\ (Top(Fetched(n)).t > c.t => Got(n, c))'
                      /\ (isPrimary(n) /\ term[n] > c.t => Holds(n, c))'
                      /\ ~(/\ role[n] = "Truncated" /\ Before(Top(log[n]), c)
                           /\ AtMost(c, lastApplied[n]))'
    BY DEF Fate
  <1>1. isPrimary(n)' /\ term'[n] > c.t => Holds(n, c)'
    <2>1. isPrimary(n)' /\ term'[n] > c.t => Holds(n, c)
      BY WriteKeeps DEF Fate
    <2> QED BY <2>1, WriteEntries
  <1>2. ASSUME Top(Fetched(n)').t > c.t
        PROVE  Got(n, c)'
    <2>1. CASE n # p
      <3>1. Fetched(n)' = Fetched(n)
        BY <2>1, WrittenEntries
      <3> QED BY <1>2, <3>1 DEF Fate, Got
    <2>2. CASE n = p
      <3>1. Fetched(p)' = log'[p] /\ Top(log'[p]).t = term[p] /\ isPrimary(p)' /\ term'[p] = term[p]
        BY DEF Writes, OpTime
      <3>2. Holds(p, c)'
        BY <1>1, <1>2, <2>2, <3>1
      <3> QED BY <2>2, <3>2 DEF OplogFacts, Entry
    <2> QED BY <2>1, <2>2
  <1>3. ~(role'[n] = "Truncated" /\ Before(Top(log'[n]), c) /\ AtMost(c, lastApplied'[n]))
    BY WriteKeeps DEF Fate
  <1> QED BY <1>1, <1>2, <1>3 DEF AtMost, Before

\* When a later term has begun, nobody will count on what a primary writes.
LEMMA WrittenBlocked ==
    ASSUME TypeInv, TypeInv', MembersInv, MembersInv', LogInv, OplogFacts, ReportInv,
           NEW p \in Server, Writes(p), NEW t \in Nat
    PROVE  LET x == Top(log'[p])
           IN  /\ t > term[p] /\ IsMajority(Voted(t)) => Blocked(x)
               /\ \A v \in Server : Reported(v, x) => Blocked(x)
  <1> DEFINE x == Top(log'[p])
             T == term[p]
             N == Len(log[p])
  <1>1. x = OpTime(T, N + 1) /\ x.t = T /\ x.i = N + 1 /\ isPrimary(p)
    BY DEF Writes, OpTime
  <1>2. N \in Nat /\ T \in Nat
    BY WrittenEntries
  <1>3. x \in OpTimes
    <2>1. log'[p] \in Seq(Terms) /\ Len(log'[p]) <= MaxLog
      BY DEF TypeInv, LogType
    <2> QED BY <2>1, TopType
  <1>4. \A v \in Server : lastVote[v] \in Nat /\ reports[p][v] \in OpTimes
                          /\ reports[p][v].t \in Nat /\ reports[p][v].i \in Nat
    BY ReportFacts
  <1> HIDE DEF x, T, N
  <1>5. ASSUME NEW v \in Server, Reported(v, x)
        PROVE  role[p] \in Counting /\ v \in Ahead(p)
    <2>1. PICK q \in Server : role[q] \in Counting /\ term[q] = T /\ AtMost(x, reports[q][v])
      BY <1>1, <1>5 DEF Reported
    <2>2. q = p
      BY <1>1, <2>1 DEF LogInv, LeaderInv, isPrimary, Counting, Leading, T
    <2>3. T < reports[p][v].t \/ (T = reports[p][v].t /\ N + 1 <= reports[p][v].i)
      BY <1>1, <1>3, <1>4, <2>1, <2>2, AtMostMeans
    <2>4. CASE T < reports[p][v].t
      BY <1>2, <1>4, <2>1, <2>2, <2>4 DEF Ahead, T
    <2>5. CASE T = reports[p][v].t /\ N + 1 <= reports[p][v].i
      <3>1. Holds(p, reports[p][v])
        BY <2>1, <2>2, <2>5 DEF ReportInv
      <3>2. reports[p][v].i \in 1..N
        BY <3>1 DEF Holds, N
      <3> QED BY <1>2, <2>5, <3>2
    <2> QED BY <2>3, <2>4, <2>5
  <1>6. ASSUME role[p] \in Counting, Ahead(p) # {}
        PROVE  Blocked(x)
    <2> DEFINE A == {v \in Server : lastVote[v] > T /\ v \notin Ahead(p)}
               B == {v \in Server : lastVote[v] > x.t /\ ~Reported(v, x)}
    <2>1. IsMajority(A)
      BY <1>6 DEF ReportInv, T
    <2>2. A \subseteq B /\ B \in SUBSET Server
      BY <1>1, <1>5
    <2> HIDE DEF A, B
    <2>3. IsMajority(B)
      BY <2>1, <2>2, MajorityGrows
    <2> QED BY <2>3 DEF B, Blocked
  <1>7. ASSUME t > T, IsMajority(Voted(t)), ~(role[p] \in Counting /\ Ahead(p) # {})
        PROVE  Blocked(x)
    <2> DEFINE B == {v \in Server : lastVote[v] > x.t /\ ~Reported(v, x)}
    <2>1. Voted(t) \subseteq B /\ B \in SUBSET Server
      BY <1>1, <1>2, <1>4, <1>5, <1>7 DEF Voted
    <2> HIDE DEF B
    <2>2. IsMajority(B)
      BY <1>7, <2>1, MajorityGrows
    <2> QED BY <2>2 DEF B, Blocked
  <1> QED BY <1>5, <1>6, <1>7 DEF x, T

LEMMA WriteFates ==
    ASSUME TypeInv, TypeInv', MembersInv, MembersInv', LogInv, OplogFacts, OplogFacts',
           AppliedInv, ReportInv, FateInv, NEW p \in Server, Writes(p)
    PROVE  FateInv'
  <1> SUFFICES ASSUME NEW c \in OpTimes, Exists(c)'
               PROVE  /\ Fate(c, Blocked(c))'
                      /\ \A v \in Server : Reported(v, c)' => Durable(v, c)' \/ Blocked(c)'
    BY DEF FateInv
  <1>0. Entry(c) /\ \E n \in Server : Got(n, c)'
    BY DEF Exists, Entry
  <1>1. CASE Blocked(c)'
    BY <1>1 DEF Fate
  <1>2. CASE ~Blocked(c)' /\ Exists(c)
    <2>1. ~Blocked(c)
      BY <1>2, WriteReported
    <2>2. Fate(c, Blocked(c)) /\ \A v \in Server : Reported(v, c) => Durable(v, c) \/ Blocked(c)
      BY <1>2 DEF FateInv
    <2>3. Fate(c, FALSE)
      BY <2>1, <2>2 DEF Fate
    <2>4. Fate(c, FALSE)'
      BY <1>0, <2>3, WriteFate
    <2>5. Fate(c, Blocked(c))'
      BY <2>4 DEF Fate
    <2>6. \A v \in Server : Reported(v, c)' => Durable(v, c)'
      BY <1>0, <2>1, <2>2, WriteReported, WriteDurable
    <2> QED BY <2>5, <2>6
  <1>3. CASE ~Blocked(c)' /\ ~Exists(c)
    <2>1. c = Top(log'[p])
      BY <1>0, <1>3, WriteEntries DEF Exists
    <2>2. ~Blocked(c)
      BY <1>3, WriteReported
    <2>3. \A v \in Server : ~Reported(v, c)'
      BY <2>1, <2>2, WrittenBlocked, WriteReported, OpTimeFacts
    <2>4. \A t \in Nat : t > term[p] => ~IsMajority(Voted(t))
      BY <2>1, <2>2, WrittenBlocked
    <2>5. c.t = term[p] /\ c.i = Len(log[p]) + 1 /\ c.t \in Nat
      BY <2>1, OpTimeFacts DEF Writes, OpTime
    <2>6. ASSUME NEW n \in Server
          PROVE  ~(Top(Fetched(n)').t > c.t)
      <3> SUFFICES ASSUME Top(Fetched(n)').t > c.t PROVE FALSE
        OBVIOUS
      <3>1. CASE n = p
        <4>1. Fetched(p)' = log'[p]
          BY DEF Writes
        <4> QED BY <2>1, <2>5, <3>1, <4>1
      <3>2. CASE n # p
        <4> DEFINE e == Top(Fetched(n))
        <4>1. Fetched(n)' = Fetched(n) /\ e \in OpTimes /\ e.t \in Nat
          BY <3>2, WrittenEntries, TopFacts
        <4>2. e # Null
          BY <2>5, <4>1 DEF Null, OpTime
        <4>3. Got(n, e)
          BY <4>2 DEF OplogFacts
        <4>4. IsMajority(Voted(e.t))
          BY <4>3 DEF Got, LogInv, ElectedInv
        <4> QED BY <2>4, <2>5, <4>1, <4>4
      <3> QED BY <3>1, <3>2
    <2>7. ASSUME NEW n \in Server
          PROVE  ~(isPrimary(n)' /\ term'[n] > c.t)
      <3>1. isPrimary(n)' => IsMajority(Voted(term[n]))
        BY WriteKeeps DEF LogInv, LeaderInv
      <3>2. term'[n] = term[n] /\ term[n] \in Nat
        BY WriteKeeps, ReportFacts
      <3> QED BY <2>4, <2>5, <3>1, <3>2
    <2>8. ASSUME NEW n \in Server
          PROVE  ~(role'[n] = "Truncated" /\ AtMost(c, lastApplied'[n]))
      <3> SUFFICES ASSUME role'[n] = "Truncated", AtMost(c, lastApplied'[n]) PROVE FALSE
        OBVIOUS
      <3> DEFINE a == lastApplied[n]
      <3>1. lastApplied'[n] = a /\ a \in OpTimes /\ a.t \in Nat /\ a.i \in Nat
        BY WriteKeeps, RoleFacts, OpTimeFacts
      <3>2. Led(a)
        BY DEF AppliedInv
      <3> HIDE DEF a
      <3>3. c.t < a.t \/ (c.t = a.t /\ c.i <= a.i)
        BY <3>1, AtMostMeans
      <3>4. CASE c.t < a.t
        BY <2>4, <2>5, <3>1, <3>2, <3>4 DEF Led
      <3>5. CASE c.t = a.t /\ c.i <= a.i
        <4>1. Holds(p, a)
          BY <2>5, <3>2, <3>5 DEF Led, Writes
        <4>2. a.i \in 1..Len(log[p]) /\ Len(log[p]) \in Nat
          BY <4>1, RoleFacts DEF Holds
        <4> QED BY <2>5, <3>5, <4>2
      <3> QED BY <3>3, <3>4, <3>5
    <2>9. Fate(c, Blocked(c))'
      BY <2>6, <2>7, <2>8 DEF Fate, AtMost, Before
    <2> QED BY <2>3, <2>9
  <1> QED BY <1>1, <1>2, <1>3

-----------------------------------------------------------------------------
(* What is committed stays committed. *)

Moves ==
    /\ TypeInv /\ TypeInv' /\ MembersInv /\ MembersInv' /\ LogInv /\ LogInv'
    /\ OplogFacts /\ OplogFacts' /\ AppliedInv /\ ReportInv
    /\ (\A k \in Server : MemberStep(k)) \/ (\E p \in Server : Writes(p))

LEMMA DurableExists ==
    ASSUME OplogFacts, NEW d, Decided(d)
    PROVE  /\ Exists(d) /\ Entry(d) /\ d \in OpTimes /\ d # Null
           /\ \E v \in Server : Holds(v, d)
  <1>1. Entry(d) /\ IsMajority({v \in Server : Durable(v, d)})
    BY DEF Decided
  <1>2. PICK v \in Server : v \in {u \in Server : Durable(u, d)}
    BY <1>1, MajoritiesMeet
  <1>3. Holds(v, d)
    BY <1>2 DEF Durable
  <1> QED BY <1>1, <1>3 DEF Exists, Entry, OplogFacts

LEMMA DecidedStays ==
    ASSUME Moves, NEW d, Decided(d)
    PROVE  Decided(d)'
  <1> USE DEF Moves
  <1>1. Exists(d) /\ Entry(d) /\ d \in OpTimes /\ Fate(d, FALSE)
    BY DurableExists DEF Decided
  <1> DEFINE X == {v \in Server : Durable(v, d)}
             Y == {v \in Server : Durable(v, d)'}
  <1>2. IsMajority(X)
    BY DEF Decided
  <1>3. X \subseteq Y /\ Y \in SUBSET Server
    BY <1>1, CopyDurable, WriteDurable
  <1>4. Fate(d, FALSE)'
    <2>1. CASE \A k \in Server : MemberStep(k)
      <3>1. ASSUME NEW n \in Server, WinsWithout(n, d) PROVE FALSE
        <4>1. PICK W \in SUBSET Server :
                /\ IsMajority(W)
                /\ \A v \in W : AtMost(lastApplied[v], Top(log[n]))
          BY <3>1 DEF WinsWithout, Wins
        <4>2. X \in SUBSET Server
          OBVIOUS
        <4>3. PICK v \in Server : v \in W /\ v \in X
          BY <1>2, <4>1, <4>2, MajoritiesMeet
        <4>4. Holds(v, d) /\ Says(v)
          BY <4>3 DEF Durable, AppliedInv
        <4>5. AtMost(d, lastApplied[v])
          BY <1>1, <4>4, HoldsSays
        <4>6. AtMost(d, Top(log[n]))
          BY <1>1, <4>1, <4>3, <4>5, RoleFacts, TopFacts, OpTimeOrder
        <4> QED BY <3>1, <4>6 DEF WinsWithout
      <3> QED BY <1>1, <2>1, <3>1, CopyFate
    <2>2. CASE \E p \in Server : Writes(p)
      BY <1>1, <2>2, WriteFate
    <2> QED BY <2>1, <2>2
  <1> HIDE DEF X, Y
  <1>5. IsMajority(Y)
    BY <1>2, <1>3, MajorityGrows
  <1> QED BY <1>1, <1>4, <1>5 DEF Decided, Y, IsMajority, Entry

\* Some member has d before and after the step.
LEMMA DecidedKept ==
    ASSUME Moves, NEW d, Decided(d)
    PROVE  \E v \in Server : Holds(v, d) /\ Holds(v, d)'
  <1> USE DEF Moves
  <1>1. Decided(d)'
    BY DecidedStays
  <1> DEFINE X == {v \in Server : Durable(v, d)}
             Y == {v \in Server : Durable(v, d)'}
  <1>2. IsMajority(X) /\ IsMajority(Y)
    BY <1>1 DEF Decided, IsMajority
  <1>3. PICK v \in Server : v \in X /\ v \in Y
    BY <1>2, MajoritiesMeet
  <1> QED BY <1>3 DEF Durable

LEMMA HeldStays ==
    ASSUME Moves, NEW k \in Server, NEW c, Entry(c), Holds(k, c), c.i <= Len(log'[k])
    PROVE  Holds(k, c)'
  BY CopyEntries, WriteEntries DEF Moves

LEMMA CommittedKept ==
    ASSUME Moves, NEW c, Committed(c)
    PROVE  /\ Committed(c)'
           /\ c # Null => \E v \in Server : Holds(v, c) /\ Holds(v, c)'
  <1> USE DEF Moves
  <1>1. CASE c = Null
    BY <1>1 DEF Committed
  <1>2. CASE c # Null
    <2>1. PICK d \in OpTimes : Decided(d) /\ Under(c, d) /\ Entry(c)
      BY <1>2 DEF Committed
    <2>2. PICK u \in Server : Holds(u, d) /\ Holds(u, c) /\ c.i <= d.i
      BY <2>1 DEF Under
    <2>3. PICK v \in Server : Holds(v, d) /\ Holds(v, d)'
      BY <2>1, DecidedKept
    <2>4. d # Null /\ c \in OpTimes
      BY <2>1 DEF Decided, Entry
    <2>5. Got(u, d) /\ Got(u, c) /\ Got(v, d)
      BY <1>2, <2>2, <2>3, <2>4 DEF OplogFacts
    <2>6. Got(v, c)
      BY <1>2, <2>2, <2>4, <2>5 DEF OplogFacts
    <2>7. Holds(v, c)
      BY <1>2, <2>2, <2>3, <2>4, <2>6 DEF OplogFacts
    <2>8. c.i <= Len(log'[v])
      <3>1. d.i <= Len(log'[v]) /\ d.i \in Nat /\ c.i \in Nat /\ Len(log'[v]) \in Nat
        <4>1. d.i \in 1..Len(log'[v])
          BY <2>3 DEF Holds
        <4>2. d.i \in Nat /\ c.i \in Nat
          BY <2>1, <2>4, EntryFacts DEF Entry
        <4>3. Len(log'[v]) \in Nat
          BY NextViewsHold DEF OplogViews, OplogView
        <4> QED BY <4>1, <4>2, <4>3
      <3> QED BY <2>2, <3>1
    <2>9. Holds(v, c)'
      BY <2>1, <2>7, <2>8, HeldStays
    <2>10. Decided(d)'
      BY <2>1, DecidedStays
    <2>11. Under(c, d)'
      BY <2>2, <2>3, <2>9 DEF Under
    <2> QED BY <2>1, <2>7, <2>9, <2>10, <2>11 DEF Committed, Entry
  <1> QED BY <1>1, <1>2

-----------------------------------------------------------------------------
(* What it means to be committed. *)

\* A majority has what is committed.
LEMMA CommittedHeld ==
    ASSUME OplogFacts, NEW c, Committed(c), c # Null
    PROVE  \E d \in OpTimes :
            /\ Decided(d) /\ d # Null /\ c.i <= d.i /\ Entry(c) /\ c \in OpTimes
            /\ IsMajority({v \in Server : Holds(v, c) /\ Holds(v, d)})
  <1>1. PICK d \in OpTimes : Decided(d) /\ Under(c, d) /\ Entry(c)
    BY DEF Committed
  <1>2. PICK u \in Server : Holds(u, d) /\ Holds(u, c) /\ c.i <= d.i
    BY <1>1 DEF Under
  <1>3. d # Null /\ c \in OpTimes
    BY <1>1 DEF Decided, Entry
  <1> DEFINE X == {v \in Server : Durable(v, d)}
             Y == {v \in Server : Holds(v, c) /\ Holds(v, d)}
  <1>4. ASSUME NEW v \in X PROVE v \in Y
    <2>1. Holds(v, d) /\ v \in Server
      BY DEF Durable
    <2>2. Got(u, d) /\ Got(u, c) /\ Got(v, d)
      BY <1>2, <1>3, <2>1 DEF OplogFacts
    <2>3. Got(v, c)
      BY <1>2, <1>3, <2>1, <2>2 DEF OplogFacts
    <2>4. Holds(v, c)
      BY <1>2, <1>3, <2>1, <2>3 DEF OplogFacts
    <2> QED BY <2>1, <2>4
  <1>5. IsMajority(X)
    BY <1>1 DEF Decided
  <1>6. X \subseteq Y /\ Y \in SUBSET Server
    BY <1>4
  <1> HIDE DEF X, Y
  <1>7. IsMajority(Y)
    BY <1>5, <1>6, MajorityGrows
  <1> QED BY <1>1, <1>2, <1>3, <1>7 DEF Y

\* What comes before something committed is committed.
LEMMA CommittedDown ==
    ASSUME OplogFacts, NEW c, Committed(c), NEW e \in OpTimes, c # Null, e # Null,
           NEW n \in Server, Holds(n, c), Holds(n, e), e.i <= c.i
    PROVE  Committed(e)
  <1>1. PICK d \in OpTimes : /\ Decided(d) /\ d # Null /\ c.i <= d.i /\ c \in OpTimes
                             /\ IsMajority({v \in Server : Holds(v, c) /\ Holds(v, d)})
    BY CommittedHeld
  <1>2. PICK v \in Server : Holds(v, c) /\ Holds(v, d)
    <2>1. {v \in Server : Holds(v, c) /\ Holds(v, d)} \in SUBSET Server
      OBVIOUS
    <2> QED BY <1>1, <2>1, MajoritiesMeet
  <1>3. Got(n, c) /\ Got(n, e) /\ Got(v, c)
    BY <1>1, <1>2 DEF OplogFacts
  <1>4. Got(v, e)
    BY <1>1, <1>3 DEF OplogFacts
  <1>5. e.i \in Nat /\ c.i \in Nat /\ d.i \in Nat
    BY <1>1, OpTimeFacts
  <1>6. e.i <= d.i
    BY <1>1, <1>5
  <1>7. Holds(v, e)
    BY <1>1, <1>2, <1>4, <1>6 DEF OplogFacts
  <1> QED BY <1>1, <1>2, <1>6, <1>7 DEF Committed, Under, Entry

\* A member that has an entry of c's term has nothing uncommitted before it up to c.
LEMMA CommittedBranch ==
    ASSUME OplogFacts, NEW c, Committed(c), c # Null, NEW n \in Server,
           NEW e \in OpTimes, e # Null, Holds(n, e), AtMost(e, c),
           NEW f \in OpTimes, f # Null, Holds(n, f), f.t = c.t, e.i <= f.i
    PROVE  Committed(e)
  <1>1. PICK d \in OpTimes : /\ Decided(d) /\ c.i <= d.i /\ c \in OpTimes
                             /\ IsMajority({v \in Server : Holds(v, c) /\ Holds(v, d)})
    BY CommittedHeld
  <1>2. PICK v \in Server : Holds(v, c)
    <2>1. {v \in Server : Holds(v, c) /\ Holds(v, d)} \in SUBSET Server
      OBVIOUS
    <2> QED BY <1>1, <2>1, MajoritiesMeet
  <1>3. e.i \in Nat /\ c.i \in Nat /\ f.i \in Nat
    BY <1>1, OpTimeFacts
  <1>4. Got(v, c) /\ Got(n, e) /\ Got(n, f)
    BY <1>1, <1>2 DEF OplogFacts
  <1>5. CASE c.i <= f.i
    <2>1. Got(n, c)
      BY <1>1, <1>4, <1>5 DEF OplogFacts
    <2>2. Holds(n, c)
      BY <1>1, <1>5, <2>1 DEF OplogFacts
    <2>3. e.i <= c.i
      BY <1>1, <1>4, <2>1 DEF OplogFacts
    <2> QED BY <2>2, <2>3, CommittedDown
  <1>6. CASE f.i <= c.i
    <2>1. Got(v, f)
      BY <1>1, <1>4, <1>6 DEF OplogFacts
    <2>2. Holds(v, f)
      BY <1>1, <1>2, <1>6, <2>1 DEF OplogFacts
    <2>3. Committed(f)
      BY <1>2, <1>6, <2>2, CommittedDown
    <2> QED BY <2>3, CommittedDown
  <1> QED BY <1>3, <1>5, <1>6

\* Some member has both of two committed entries.
LEMMA CommittedTogether ==
    ASSUME OplogFacts, NEW a, NEW b, Committed(a), Committed(b), a # Null, b # Null
    PROVE  \E v \in Server : Holds(v, a) /\ Holds(v, b)
  <1>1. PICK d \in OpTimes : IsMajority({v \in Server : Holds(v, a) /\ Holds(v, d)})
    BY CommittedHeld
  <1>2. PICK e \in OpTimes : IsMajority({v \in Server : Holds(v, b) /\ Holds(v, e)})
    BY CommittedHeld
  <1> DEFINE X == {v \in Server : Holds(v, a) /\ Holds(v, d)}
             Y == {v \in Server : Holds(v, b) /\ Holds(v, e)}
  <1>3. X \in SUBSET Server /\ Y \in SUBSET Server
    OBVIOUS
  <1>4. PICK v \in Server : v \in X /\ v \in Y
    BY <1>1, <1>2, <1>3, MajoritiesMeet
  <1> QED BY <1>4

LEMMA HasHolds ==
    ASSUME TypeInv, NEW n \in Server, NEW c \in OpTimes
    PROVE  /\ c # Null => (Has(log[n], c) <=> Holds(n, c))
           /\ Has(log[n], Null)
  <1>1. Len(log[n]) \in Nat
    BY LogFacts DEF TypeInv
  <1>2. Has(log[n], Null)
    BY <1>1 DEF Has, Null, OpTime, OpAt
  <1>3. ASSUME c # Null PROVE Has(log[n], c) <=> Holds(n, c)
    <2>1. c = [t |-> c.t, i |-> c.i] /\ c.i \in Nat /\ c.i # 0 /\ c.i >= 1
      BY <1>3, EntryFacts, OpTimeFacts DEF Entry
    <2>2. OpAt(log[n], c.i) = [t |-> log[n][c.i], i |-> c.i]
      BY <2>1 DEF OpAt, OpTime
    <2>3. OpAt(log[n], c.i) = c <=> log[n][c.i] = c.t
      BY <2>1, <2>2
    <2> QED BY <1>1, <2>1, <2>3 DEF Has, Holds
  <1> QED BY <1>2, <1>3

\* What is committed is never lost: nobody can be elected without it.
LEMMA CommittedSafe ==
    ASSUME TypeInv, OplogFacts, AppliedInv, NEW c, Committed(c)
    PROVE  Safe(c)
  <1> SUFFICES ASSUME NEW n \in Server, couldWin(n) PROVE Has(log[n], c)
    BY DEF Safe
  <1>1. CASE c = Null
    BY <1>1, HasHolds, OpTimeFacts
  <1>2. CASE c # Null
    <2>1. PICK d \in OpTimes : /\ Decided(d) /\ d # Null /\ c.i <= d.i /\ Entry(c) /\ c \in OpTimes
                               /\ IsMajority({v \in Server : Holds(v, c) /\ Holds(v, d)})
      BY <1>2, CommittedHeld
    <2> DEFINE X == {v \in Server : Holds(v, c) /\ Holds(v, d)}
               Y == {v \in Server : AtMost(lastApplied[v], Top(log[n]))}
    <2>2. X \in SUBSET Server /\ Y \in SUBSET Server /\ IsMajority(X) /\ IsMajority(Y)
      BY <2>1 DEF couldWin
    <2>3. PICK v \in Server : v \in X /\ v \in Y
      BY <2>2, MajoritiesMeet
    <2>4. Holds(v, c) /\ Holds(v, d) /\ Says(v) /\ AtMost(lastApplied[v], Top(log[n]))
      BY <2>3 DEF AppliedInv
    <2>5. AtMost(d, lastApplied[v])
      BY <2>1, <2>4, HoldsSays DEF Entry
    <2>6. AtMost(d, Top(log[n]))
      BY <2>4, <2>5, RoleFacts, TopFacts, OpTimeOrder
    <2>7. Holds(n, d)
      BY <2>1, <2>6, DurableExists, ReachedHolds DEF Decided
    <2>8. Got(v, c) /\ Got(v, d) /\ Got(n, d)
      BY <1>2, <2>1, <2>4, <2>7 DEF OplogFacts
    <2>9. Got(n, c)
      BY <1>2, <2>1, <2>8 DEF OplogFacts
    <2>10. Holds(n, c)
      BY <1>2, <2>1, <2>7, <2>9 DEF OplogFacts
    <2> QED BY <1>2, <2>1, <2>10, HasHolds
  <1> QED BY <1>1, <1>2

\* How far the primary p knows m to be.
Known(p, m) == IF m = p THEN lastDurable[p] ELSE reports[p][m]

\* What a primary counts to be durable on a majority, of its own term, is committed.
LEMMA CountedDecided ==
    ASSUME TypeInv, MembersInv, LogInv, OplogFacts, AppliedInv, ReportInv, FateInv,
           NEW p \in Server, role[p] \in Counting, NEW c \in OpTimes, c.t = term[p],
           NEW k \in Server, c = Known(p, k),
           IsMajority({m \in Server : AtMost(c, Known(p, m))})
    PROVE  Holds(p, c) /\ Committed(c)
  <1>1. isPrimary(p) /\ role[p] # "Truncated" /\ Says(p) /\ lastDurable[p] \in OpTimes
    BY RoleFacts DEF Counting, AppliedInv
  <1>2. term[p] >= 1 /\ lastVote[p] = term[p]
    BY <1>1 DEF MembersInv, MemberInv
  <1>3. c # Null /\ Entry(c)
    BY <1>2 DEF Null, OpTime, Entry
  <1>4. Holds(p, c)
    <2>1. CASE k = p
      BY <1>1, <1>3, <2>1, HasHolds DEF Known, Says
    <2>2. CASE k # p
      BY <2>2 DEF Known, ReportInv
    <2> QED BY <2>1, <2>2
  <1>5. Exists(c)
    BY <1>3, <1>4 DEF Exists, OplogFacts
  <1> DEFINE M == {m \in Server : AtMost(c, Known(p, m))}
             B == {v \in Server : lastVote[v] > c.t /\ ~Reported(v, c)}
             D == {v \in Server : Durable(v, c)}
  <1>6. \A m \in M : m # p => Reported(m, c)
    BY DEF Known, Reported
  <1>7. ~Blocked(c)
    <2> SUFFICES ASSUME Blocked(c) PROVE FALSE
      OBVIOUS
    <2>1. IsMajority(B) /\ B \in SUBSET Server /\ M \in SUBSET Server
      BY DEF Blocked
    <2>2. PICK v \in Server : v \in M /\ v \in B
      BY <2>1, MajoritiesMeet
    <2>3. v # p
      <3>1. ~(lastVote[p] > c.t)
        BY <1>2, ReportFacts
      <3> QED BY <2>2, <3>1
    <2> QED BY <1>6, <2>2, <2>3
  <1>8. Fate(c, Blocked(c)) /\ \A v \in Server : Reported(v, c) => Durable(v, c)
    BY <1>5, <1>7 DEF FateInv
  <1>9. Fate(c, FALSE)
    BY <1>7, <1>8 DEF Fate
  <1>10. p \in M => Durable(p, c)
    <2> SUFFICES ASSUME p \in M PROVE Durable(p, c)
      OBVIOUS
    <2>1. AtMost(c, lastDurable[p]) /\ DurableLen(p) = lastDurable[p].i
      BY <1>1 DEF Known, DurableLen
    <2>2. lastDurable[p] # Null
      BY <1>1, <1>3, <2>1, OpTimeOrder, OpTimeFacts
    <2>3. Holds(p, lastDurable[p])
      BY <1>1, <2>2, HasHolds DEF Says
    <2>4. Got(p, lastDurable[p]) /\ Got(p, c)
      BY <1>1, <1>3, <1>4, <2>2, <2>3 DEF OplogFacts
    <2>5. c.i <= lastDurable[p].i
      BY <1>1, <1>3, <2>1, <2>2, <2>4 DEF OplogFacts
    <2> QED BY <1>4, <2>1, <2>5 DEF Durable
  <1>11. M \subseteq D /\ D \in SUBSET Server
    BY <1>6, <1>8, <1>10
  <1> HIDE DEF D
  <1>12. IsMajority(D)
    BY <1>11, MajorityGrows
  <1>13. Decided(c)
    BY <1>3, <1>9, <1>12 DEF Decided, D
  <1>14. c.i <= c.i
    BY OpTimeFacts
  <1> QED BY <1>3, <1>4, <1>13, <1>14 DEF Committed, Under

\* The same as one formula, for the state after a step.
CommitFacts ==
    /\ Committed(Null)
    /\ \A c, e \in OpTimes : c # Null /\ e # Null /\ Committed(c) => \A n \in Server :
        Holds(n, c) /\ Holds(n, e) /\ e.i <= c.i => Committed(e)
    /\ \A c, e, f \in OpTimes : c # Null /\ e # Null /\ f # Null /\ Committed(c) => \A n \in Server :
        Holds(n, e) /\ Holds(n, f) /\ AtMost(e, c) /\ f.t = c.t /\ e.i <= f.i => Committed(e)
    /\ \A a, b \in OpTimes : a # Null /\ b # Null /\ Committed(a) /\ Committed(b) =>
        \E v \in Server : Holds(v, a) /\ Holds(v, b)
    /\ \A c \in OpTimes : Committed(c) => Safe(c)
    /\ \A p \in Server, c \in OpTimes :
        /\ role[p] \in Counting /\ c.t = term[p] /\ \E k \in Server : c = Known(p, k)
        /\ IsMajority({m \in Server : AtMost(c, Known(p, m))})
        => Holds(p, c) /\ Committed(c)

LEMMA CommitFactsHold ==
    TypeInv /\ MembersInv /\ LogInv /\ OplogFacts /\ AppliedInv /\ ReportInv /\ FateInv
        => CommitFacts
  <1> SUFFICES ASSUME TypeInv, MembersInv, LogInv, OplogFacts, AppliedInv, ReportInv, FateInv
               PROVE  CommitFacts
    OBVIOUS
  <1>1. Committed(Null)
    BY DEF Committed
  <1>2. \A c, e \in OpTimes : c # Null /\ e # Null /\ Committed(c) => \A n \in Server :
            Holds(n, c) /\ Holds(n, e) /\ e.i <= c.i => Committed(e)
    BY CommittedDown
  <1>3. \A c, e, f \in OpTimes : c # Null /\ e # Null /\ f # Null /\ Committed(c) =>
          \A n \in Server :
            Holds(n, e) /\ Holds(n, f) /\ AtMost(e, c) /\ f.t = c.t /\ e.i <= f.i => Committed(e)
    BY CommittedBranch
  <1>4. \A a, b \in OpTimes : a # Null /\ b # Null /\ Committed(a) /\ Committed(b) =>
            \E v \in Server : Holds(v, a) /\ Holds(v, b)
    BY CommittedTogether
  <1>5. \A c \in OpTimes : Committed(c) => Safe(c)
    BY CommittedSafe
  <1>6. \A p \in Server, c \in OpTimes :
            /\ role[p] \in Counting /\ c.t = term[p] /\ \E k \in Server : c = Known(p, k)
            /\ IsMajority({m \in Server : AtMost(c, Known(p, m))})
            => Holds(p, c) /\ Committed(c)
    BY CountedDecided
  <1> QED BY <1>1, <1>2, <1>3, <1>4, <1>5, <1>6 DEF CommitFacts

LEMMA NextCommitFacts ==
    TypeInv' /\ MembersInv' /\ LogInv' /\ OplogFacts' /\ AppliedInv' /\ ReportInv' /\ FateInv'
        => CommitFacts'
  BY CommitFactsHold, PTL

-----------------------------------------------------------------------------
(* Commit points. *)

\* What is known of a step before commit points and stable timestamps are looked at.
Moved ==
    /\ Moves /\ FateInv
    /\ AppliedInv' /\ ReportInv' /\ FateInv'
    /\ CommitFacts /\ CommitFacts'

\* The commit point of k stays, and so does its batch unless it is dropped.
SameBatch(k) == batch'[k] = NoBatch \/ (batch'[k] = batch[k] /\ log'[k] = log[k])

KeepsCommit(k) ==
    /\ lastCommitted'[k] = lastCommitted[k] /\ lastCommitted[k].t <= Top(log'[k]).t
    /\ SameBatch(k)

LEMMA SameBatchKeeps ==
    ASSUME Moved, CommitInv, published \subseteq published', NEW k \in Server, SameBatch(k),
           batch'[k] # NoBatch
    PROVE  /\ batch'[k].commit \in published'
           /\ \A e \in OpTimes : Entry(e) /\ Got(k, e)' /\ AtMost(e, batch'[k].commit)
                => Committed(e)'
  <1>1. batch'[k] = batch[k] /\ log'[k] = log[k] /\ CommitOf(k)
    BY DEF SameBatch, CommitInv
  <1>2. \A e : Got(k, e)' <=> Got(k, e)
    BY <1>1 DEF Got, Fetched
  <1>3. \A e : Committed(e) => Committed(e)'
    BY CommittedKept DEF Moved
  <1> QED BY <1>1, <1>2, <1>3 DEF CommitOf

LEMMA LogTypes ==
    ASSUME Moved, NEW k \in Server
    PROVE  /\ Len(log[k]) \in Nat /\ Len(log'[k]) \in Nat
           /\ Top(log'[k]) \in OpTimes /\ Top(log'[k]).t \in Nat /\ Top(log'[k]).i = Len(log'[k])
           /\ Top(log[k]) \in OpTimes /\ Top(log[k]).t \in Nat /\ Top(log[k]).i = Len(log[k])
           /\ lastCommitted[k] \in OpTimes /\ lastCommitted[k].t \in Nat
           /\ lastCommitted'[k] \in OpTimes /\ lastCommitted'[k].t \in Nat
           /\ TypeInv /\ TypeInv' /\ OplogFacts /\ OplogFacts'
  <1>1. TypeInv /\ TypeInv' /\ OplogFacts /\ OplogFacts'
    BY DEF Moved, Moves
  <1>2. Len(log[k]) \in Nat /\ Len(log'[k]) \in Nat
    BY <1>1, RoleFacts, NextViewsHold DEF Moved, Moves, OplogViews, OplogView
  <1>3. Top(log'[k]) \in OpTimes /\ Top(log'[k]).i = Len(log'[k])
        /\ Top(log[k]) \in OpTimes /\ Top(log[k]).i = Len(log[k])
    BY <1>1 DEF OplogFacts
  <1>4. lastCommitted[k] \in OpTimes /\ lastCommitted'[k] \in OpTimes
    BY <1>1 DEF TypeInv, CommitType
  <1> QED BY <1>1, <1>2, <1>3, <1>4, OpTimeFacts

LEMMA KeptCommit ==
    ASSUME Moved, CommitInv, published \subseteq published', NEW k \in Server, KeepsCommit(k)
    PROVE  CommitOf(k)'
  <1>0. lastCommitted[k] \in OpTimes
    BY LogTypes
  <1> SUFFICES ASSUME NEW c \in OpTimes, c = lastCommitted[k] PROVE CommitOf(k)'
    BY <1>0
  <1>1. /\ lastCommitted'[k] = c /\ c \in published /\ c.t <= Top(log[k]).t
        /\ c.t <= Top(log'[k]).t
        /\ \A e \in OpTimes : Entry(e) /\ Holds(k, e) /\ AtMost(e, c) => Committed(e)
    BY DEF KeepsCommit, CommitInv, CommitOf
  <1>2. \A e : Committed(e) => Committed(e)'
    BY CommittedKept DEF Moved
  <1>3. Committed(c) /\ Committed(c)'
    BY <1>1, <1>2 DEF CommitInv
  <1>4. c \in OpTimes /\ c.t \in Nat /\ c.i \in Nat
    BY OpTimeFacts
  <1>5. ASSUME NEW e \in OpTimes, Entry(e), Holds(k, e)', AtMost(e, c)
        PROVE  Committed(e)'
    <2>1. CASE Holds(k, e)
      BY <1>1, <1>2, <1>5, <2>1
    <2>2. CASE ~Holds(k, e)
      <3>1. /\ e.t \in Nat /\ e.i \in Nat /\ e # Null /\ e.i >= 1
        BY <1>5, EntryFacts DEF Entry
      <3>2. e.t <= c.t
        BY <1>4, <1>5, <3>1, AtMostMeans
      <3>3. StartsWith(log'[k], log[k])
        <4>1. CASE \A j \in Server : MemberStep(j)
          <5>1. ~StartsWith(log[k], log'[k])
            BY <1>5, <2>2, <4>1, CopyEntries DEF Moved, Moves
          <5> QED BY <4>1, <5>1 DEF MemberStep
        <4>2. CASE \E p \in Server : Writes(p)
          BY <1>5, <4>2, WriteEntries DEF Moved, Moves
        <4> QED BY <4>1, <4>2 DEF Moved, Moves
      <3>4. e.i \in 1..Len(log'[k]) /\ log'[k][e.i] = e.t
        BY <1>5 DEF Holds
      <3>5. Len(log[k]) \in Nat /\ Len(log'[k]) \in Nat
        BY LogTypes
      <3>6. e.i > Len(log[k])
        BY <2>2, <3>1, <3>3, <3>4, <3>5 DEF Holds, StartsWith
      <3>7. Top(log[k]).t <= e.t
        <4>0. Top(log[k]) \in OpTimes
          BY LogTypes
        <4> SUFFICES ASSUME NEW f \in OpTimes, f = Top(log[k]) PROVE f.t <= e.t
          BY <4>0
        <4>1. CASE f = Null
          BY <3>1, <4>1 DEF Null, OpTime
        <4>2. CASE f # Null
          <5>1. f \in OpTimes /\ f.i = Len(log[k]) /\ OplogFacts /\ OplogFacts'
            BY LogTypes
          <5>2. Holds(k, f)
            BY <4>2, <5>1 DEF OplogFacts
          <5>3. Holds(k, f)'
            BY <3>3, <3>5, <5>2, StartsAt DEF Holds
          <5>4. Got(k, f)' /\ Got(k, e)'
            BY <1>5, <3>1, <4>2, <5>1, <5>3 DEF OplogFacts
          <5>5. f.i <= e.i
            BY <3>1, <3>5, <3>6, <5>1
          <5>6. AtMost(f, e)'
            BY <3>1, <4>2, <5>1, <5>4, <5>5 DEF OplogFacts
          <5>7. AtMost(f, e)
            BY <5>6 DEF AtMost, Before
          <5> QED BY <5>1, <5>7, AtMostMeans
        <4> QED BY <4>1, <4>2
      <3>8. e.t = c.t
        <4>1. Top(log[k]).t \in Nat
          BY LogTypes
        <4> QED BY <1>1, <1>4, <3>1, <3>2, <3>7, <4>1
      <3>9. c # Null
        <4>1. e.t >= 1
          BY <1>5, EntryFacts
        <4> QED BY <3>8, <4>1 DEF Null, OpTime
      <3>10. AtMost(e, c)'
        BY <1>5 DEF AtMost, Before
      <3>11. e.i <= e.i
        BY <3>1
      <3> QED BY <1>3, <1>4, <1>5, <3>1, <3>8, <3>9, <3>10, <3>11 DEF Moved, CommitFacts
    <2> QED BY <2>1, <2>2
  <1>6. batch'[k] # NoBatch =>
            /\ batch'[k].commit \in published'
            /\ \A e \in OpTimes : Entry(e) /\ Got(k, e)' /\ AtMost(e, batch'[k].commit)
                => Committed(e)'
    BY SameBatchKeeps DEF KeepsCommit
  <1> QED BY <1>1, <1>5, <1>6 DEF CommitOf, Entry, AtMost, Before

LEMMA CommitSteps ==
    ASSUME Moved, CommitInv, published \subseteq published',
           \A c \in published' : c \in published \/ Committed(c)',
           \A k \in Server : KeepsCommit(k) \/ CommitOf(k)'
    PROVE  CommitInv'
  <1>1. \A e : Committed(e) => Committed(e)'
    BY CommittedKept DEF Moved
  <1>2. \A c \in published' : Committed(c)'
    BY <1>1 DEF CommitInv
  <1>3. \A k \in Server : CommitOf(k)'
    BY KeptCommit
  <1> QED BY <1>2, <1>3 DEF CommitInv

\* Nothing happens to commit points, oplogs and batches.
LEMMA SameCommit ==
    ASSUME Moved, CommitInv, UNCHANGED <<lastCommitted, published, log, batch>>
    PROVE  CommitInv'
  <1>1. \A k \in Server : KeepsCommit(k)
    BY DEF KeepsCommit, SameBatch, CommitInv, CommitOf
  <1> QED BY <1>1, CommitSteps

\* n hears of a commit point of the term of its last entry.
LEMMA RaisedCommit ==
    ASSUME Moved, CommitInv, NEW n \in Server, NEW c \in OpTimes, Committed(c)',
           UNCHANGED <<log, batch>>, published' = published \cup {c},
           lastCommitted' = [lastCommitted EXCEPT ![n] = c], c.t = Top(log[n]).t
    PROVE  CommitInv'
  <1>0. TypeInv /\ TypeInv' /\ OplogFacts /\ OplogFacts' /\ c.t \in Nat
    BY OpTimeFacts DEF Moved, Moves
  <1>1. lastCommitted'[n] = c /\ \A k \in Server \ {n} : lastCommitted'[k] = lastCommitted[k]
    BY <1>0 DEF TypeInv, CommitType
  <1>2. \A k \in Server \ {n} : KeepsCommit(k)
    BY <1>1 DEF KeepsCommit, SameBatch, CommitInv, CommitOf
  <1>3. ASSUME NEW e \in OpTimes, Entry(e), Holds(n, e)', AtMost(e, c)
        PROVE  Committed(e)'
    <2>0. Top(log'[n]) \in OpTimes /\ Top(log'[n]).i = Len(log'[n]) /\ Top(log'[n]).t = c.t
      BY <1>0 DEF OplogFacts
    <2> SUFFICES ASSUME NEW f \in OpTimes, f = Top(log'[n]) PROVE Committed(e)'
      BY <2>0
    <2>1. e.t \in Nat /\ e.t >= 1 /\ e # Null /\ e.i \in Nat
      BY <1>3, EntryFacts DEF Entry
    <2>2. e.t <= c.t
      BY <1>0, <1>3, <2>1, AtMostMeans
    <2>3. c # Null /\ f # Null
      <3>1. c.t # 0 /\ f.t # 0
        BY <1>0, <2>0, <2>1, <2>2
      <3> QED BY <3>1 DEF Null, OpTime
    <2>4. Holds(n, f)'
      BY <1>0, <2>3 DEF OplogFacts
    <2>5. e.i <= f.i
      <3>1. (e.i <= Len(log[n]))'
        BY <1>0, <1>3, <2>1 DEF OplogFacts
      <3> QED BY <2>0, <3>1
    <2>6. AtMost(e, c)'
      BY <1>3 DEF AtMost, Before
    <2> QED BY <1>3, <2>0, <2>1, <2>3, <2>4, <2>5, <2>6 DEF Moved, CommitFacts
  <1>4. batch'[n] # NoBatch =>
            /\ batch'[n].commit \in published'
            /\ \A e \in OpTimes : Entry(e) /\ Got(n, e)' /\ AtMost(e, batch'[n].commit)
                => Committed(e)'
    BY SameBatchKeeps DEF SameBatch
  <1>5. CommitOf(n)'
    <2>1. lastCommitted'[n].t <= Top(log'[n]).t
      BY <1>0, <1>1
    <2> QED BY <1>1, <1>3, <1>4, <2>1 DEF CommitOf, Entry, AtMost, Before
  <1> QED BY <1>2, <1>5, CommitSteps

\* What advanced says, when it says something new.
LEMMA AdvancedFacts ==
    ASSUME TypeInv, NEW n \in Server, NEW c \in OpTimes, NEW src \in BOOLEAN
    PROVE  LET x == advanced(n, c, src)
           IN  /\ x \in OpTimes /\ AtMost(lastCommitted[n], x)
               /\ x # lastCommitted[n] =>
                    /\ AtMost(x, c) /\ x.t <= lastApplied[n].t
                    /\ x = c \/ x = lastApplied[n]
                    /\ ~src => x = c /\ lastApplied[n].t = c.t
                    /\ isPrimary(n) => ~Before(c, firstOp[n])
  <1> DEFINE x == advanced(n, c, src)
             a == lastApplied[n]
             l == lastCommitted[n]
  <1>1. a \in OpTimes /\ l \in OpTimes /\ a.t \in Nat /\ c.t \in Nat
    BY OpTimeFacts DEF TypeInv, AppliedType, CommitType
  <1>2. x \in OpTimes
    BY AdvancedType DEF TypeInv
  <1>3. CASE x = l
    BY <1>1, <1>2, <1>3, OpTimeOrder
  <1>4. CASE x # l
    <2>1. /\ ~(isPrimary(n) /\ Before(c, firstOp[n])) /\ ~(a.t # c.t /\ ~src)
          /\ x = MaxOp(l, IF a.t # c.t THEN MinOp(c, a) ELSE c)
      BY <1>4 DEF advanced
    <2>2. x = IF a.t # c.t THEN MinOp(c, a) ELSE c
      BY <1>4, <2>1 DEF MaxOp
    <2>3. Before(l, x)
      BY <1>4, <2>1, <2>2 DEF MaxOp
    <2>4. CASE a.t = c.t
      BY <1>1, <1>2, <2>1, <2>2, <2>3, <2>4, OpTimeOrder
    <2>5. CASE a.t # c.t
      <3>1. x = (IF Before(c, a) THEN c ELSE a) /\ src
        BY <2>1, <2>2, <2>5 DEF MinOp
      <3>2. CASE Before(c, a)
        <4>1. c.t <= a.t
          BY <1>1, <3>2, AtMostMeans
        <4> QED BY <1>1, <2>1, <2>3, <3>1, <3>2, <4>1, OpTimeOrder
      <3>3. CASE ~Before(c, a)
        <4>1. AtMost(a, c)
          BY <1>1, <3>3, OpTimeOrder
        <4>2. x = a /\ a.t <= a.t
          <5>1. x = a
            BY <3>1, <3>3
          <5>2. a.t <= a.t
            BY <1>1
          <5> QED BY <5>1, <5>2
        <4>3. AtMost(l, x)
          BY <1>1, <1>2, <2>3, OpTimeOrder
        <4> QED BY <1>2, <2>1, <3>1, <4>1, <4>2, <4>3
      <3> QED BY <3>2, <3>3
    <2> QED BY <2>4, <2>5
  <1> QED BY <1>3, <1>4

LEMMA CountedCommit ==
    ASSUME Moved, CommitInv, NEW n \in Server, updateLastCommitted(n, lastDurable'[n]),
           UNCHANGED <<electionVars, log, lastApplied, primaryVars, batch>>
    PROVE  CommitInv'
  <1>0. TypeInv /\ TypeInv' /\ OplogFacts /\ AppliedInv /\ ReportInv /\ CommitFacts'
    BY DEF Moved, Moves
  <1> DEFINE md == [reports[n] EXCEPT ![n] = lastDurable'[n]]
  <1>1. /\ lastDurable'[n] \in OpTimes /\ reports[n] \in [Server -> OpTimes]
    BY <1>0 DEF TypeInv, AppliedType, PrimaryType
  <1>2. md \in [Server -> OpTimes] /\ \A m \in Server : md[m] = Known(n, m)'
    BY <1>1 DEF Known, primaryVars
  <1>3. /\ majorityOp(md) \in OpTimes
        /\ IsMajority({m \in Server : AtMost(majorityOp(md), md[m])})
        /\ \E k \in Server : majorityOp(md) = md[k]
    BY <1>2, MajorityOpFacts
  <1>4. /\ role[n] \in Counting /\ advanced(n, majorityOp(md), FALSE) # lastCommitted[n]
        /\ advanceCommitPoint(n, advanced(n, majorityOp(md), FALSE))
    BY DEF updateLastCommitted, Counting
  <1> HIDE DEF md
  <1> SUFFICES ASSUME NEW c \in OpTimes, c = majorityOp(md) PROVE CommitInv'
    BY <1>3
  <1>5. /\ advanced(n, c, FALSE) = c /\ lastApplied[n].t = c.t
        /\ isPrimary(n) => ~Before(c, firstOp[n])
    BY <1>0, <1>4, AdvancedFacts
  <1>6. isPrimary(n) /\ role[n] # "Truncated"
    BY <1>0, <1>4, RoleFacts DEF Counting
  <1>7. lastApplied[n] = Top(log[n]) /\ Heard(n)
    BY <1>0, <1>6 DEF AppliedInv, Says, ReportInv
  <1>8. firstOp[n] # Infinity
    <2>1. c.t \in 0..MaxTerm
      BY OpTimeFacts
    <2>2. Before(c, Infinity)
      BY <2>1, BoundAssumption DEF Before, Infinity, OpTime
    <2> QED BY <1>5, <1>6, <2>2
  <1>9. c.t = term[n] /\ c.t = Top(log[n]).t
    BY <1>5, <1>7, <1>8 DEF Heard
  <1>10. Committed(c)'
    <2>1. role'[n] \in Counting /\ c.t = term'[n]
      BY <1>4, <1>9 DEF electionVars
    <2>2. \E k \in Server : c = Known(n, k)'
      BY <1>2, <1>3
    <2>3. {m \in Server : AtMost(c, md[m])} = {m \in Server : AtMost(c, Known(n, m)')}
      BY <1>2
    <2>4. IsMajority({m \in Server : AtMost(c, Known(n, m))})'
      BY <1>3, <2>3 DEF IsMajority, AtMost, Before
    <2> QED BY <1>0, <2>1, <2>2, <2>4 DEF CommitFacts, Counting
  <1>11. /\ lastCommitted' = [lastCommitted EXCEPT ![n] = c]
         /\ published' = published \cup {c}
    BY <1>4, <1>5 DEF advanceCommitPoint
  <1> QED BY <1>9, <1>10, <1>11, RaisedCommit

LEMMA UpdateCommit ==
    ASSUME Moved, CommitInv, NEW n \in Server, UpdateCommitPoint(n)
    PROVE  CommitInv'
  <1>1. /\ updateLastCommitted(n, lastDurable[n]) /\ lastDurable' = lastDurable
        /\ UNCHANGED <<electionVars, log, lastApplied, primaryVars, batch>>
    BY DEF UpdateCommitPoint, oplogVars, syncVars
  <1> QED BY <1>1, CountedCommit

LEMMA JournalCommit ==
    ASSUME Moved, CommitInv, NEW n \in Server, JournalFlush(n)
    PROVE  CommitInv'
  <1>1. /\ updateLastCommitted(n, lastApplied[n])
        /\ lastDurable' = [lastDurable EXCEPT ![n] = lastApplied[n]]
        /\ UNCHANGED <<electionVars, log, lastApplied, primaryVars, batch>>
    BY DEF JournalFlush, setLastDurable, syncVars
  <1>2. lastDurable'[n] = lastApplied[n]
    BY <1>1 DEF Moved, Moves, TypeInv, AppliedType
  <1> QED BY <1>1, <1>2, CountedCommit

LEMMA HeartbeatCommit ==
    ASSUME Moved, CommitInv, ~StaleRollbacks,
           NEW n \in Server, NEW c \in published, HeartbeatCommitPoint(n, c)
    PROVE  CommitInv'
  <1>0. TypeInv /\ OplogFacts /\ AppliedInv /\ c \in OpTimes
    BY DEF Moved, Moves, TypeInv, CommitType
  <1>1. /\ lastApplied[n].t = Top(log[n]).t /\ advanced(n, c, FALSE) # lastCommitted[n]
        /\ advanceCommitPoint(n, advanced(n, c, FALSE)) /\ UNCHANGED <<log, batch>>
    BY DEF HeartbeatCommitPoint, oplogVars, syncVars
  <1>2. advanced(n, c, FALSE) = c /\ lastApplied[n].t = c.t
    BY <1>0, <1>1, AdvancedFacts
  <1>3. Committed(c)'
    BY CommittedKept DEF CommitInv, Moved
  <1>4. /\ lastCommitted' = [lastCommitted EXCEPT ![n] = c]
        /\ published' = published \cup {c}
    BY <1>1, <1>2 DEF advanceCommitPoint
  <1>5. c.t = Top(log[n]).t
    BY <1>1, <1>2
  <1> QED BY <1>0, <1>1, <1>3, <1>4, <1>5, RaisedCommit

LEMMA WriteCommit ==
    ASSUME Moved, CommitInv, NEW n \in Server, Writes(n), batch'[n] = NoBatch,
           UNCHANGED <<lastCommitted, published>>
    PROVE  CommitInv'
  <1>1. \A k \in Server \ {n} : KeepsCommit(k)
    BY DEF KeepsCommit, SameBatch, CommitInv, CommitOf, Writes, OnlyMember, SameMember
  <1>2. KeepsCommit(n)
    <2>1. Top(log[n]).t <= Top(log'[n]).t
      <3>1. Top(log[n]) \in OpTimes /\ Top(log'[n]) \in OpTimes
        BY LogTypes
      <3>2. Before(Top(log[n]), Top(log'[n]))
        BY DEF Writes
      <3>3. \A a, b \in OpTimes : Before(a, b) => a.t <= b.t
        BY AtMostMeans
      <3> QED BY <3>1, <3>2, <3>3
    <2>2. lastCommitted[n].t <= Top(log[n]).t
      BY DEF CommitInv, CommitOf
    <2>3. lastCommitted[n].t <= Top(log'[n]).t
      BY <2>1, <2>2, LogTypes
    <2> QED BY <2>3 DEF KeepsCommit, SameBatch
  <1> QED BY <1>1, <1>2, CommitSteps

LEMMA ClientCommit ==
    ASSUME Moved, CommitInv, ~LateBatches, NEW n \in Server,
           SignalDrainComplete(n) \/ ClientWrite(n)
    PROVE  CommitInv' /\ Writes(n)
  <1>0. /\ TypeInv /\ TypeInv' /\ MembersInv /\ \A k \in Server : Says(k) /\ Heard(k)
        /\ batch \in [Server -> Batches \cup {NoBatch}]
    BY DEF Moved, Moves, AppliedInv, ReportInv, TypeInv, SyncType
  <1>1. Writes(n)
    BY <1>0, WriteSteps
  <1>2. UNCHANGED <<lastCommitted, published>>
    BY DEF SignalDrainComplete, ClientWrite, write
  <1>3. batch'[n] = NoBatch
    <2>1. CASE SignalDrainComplete(n)
      BY <1>0, <2>1 DEF SignalDrainComplete
    <2>2. CASE ClientWrite(n)
      <3>1. firstOp[n] # Infinity /\ batch' = batch
        BY <2>2 DEF ClientWrite, syncVars
      <3> QED BY <1>0, <3>1 DEF Heard
    <2> QED BY <2>1, <2>2
  <1> QED BY <1>1, <1>2, <1>3, WriteCommit

LEMMA TruncateCommit ==
    ASSUME Moved, CommitInv, NEW n \in Server, TruncateOplog(n), source[n] \in Server
    PROVE  /\ CommitInv'
           /\ \A c \in OpTimes : Has(log[n], c) /\ AtMost(c, Top(log'[n])) => Has(log'[n], c)
           /\ AtMost(lastCommitted[n], Top(log'[n])) /\ AtMost(stable[n], Top(log'[n]))
  <1>0. TypeInv /\ TypeInv' /\ MembersInv /\ OplogFacts
    BY DEF Moved, Moves
  <1>1. commonPoint(log[n], log[source[n]]) \in OpTimes
    BY <1>0, CommonPointHolds
  <1> SUFFICES ASSUME NEW cp \in OpTimes, cp = commonPoint(log[n], log[source[n]])
               PROVE  /\ CommitInv'
                      /\ \A c \in OpTimes : Has(log[n], c) /\ AtMost(c, Top(log'[n]))
                            => Has(log'[n], c)
                      /\ AtMost(lastCommitted[n], Top(log'[n]))
                      /\ AtMost(stable[n], Top(log'[n]))
    BY <1>1
  <1>2. cp # Null => Holds(n, cp)
    BY <1>0, CommonPointHolds
  <1>3. cp.i \in 0..Len(log[n])
    BY <1>0, CommonPointFacts DEF TypeInv
  <1>4. /\ role[n] = "Rollback" /\ covers(n, cp)
        /\ log' = [log EXCEPT ![n] = Cut(n, cp.i)]
        /\ UNCHANGED <<lastCommitted, published, batch>>
    BY DEF TruncateOplog, Cut, commitVars, syncVars
  <1>5. log'[n] = Cut(n, cp.i) /\ \A k \in Server \ {n} : log'[k] = log[k]
    BY <1>0, <1>4 DEF TypeInv, LogType
  <1>6. Top(log'[n]) = cp
    <2>1. CASE cp = Null
      <3>1. cp.i = 0
        BY <2>1 DEF Null, OpTime
      <3> QED BY <1>0, <1>3, <1>5, <2>1, <3>1, CutFacts
    <2>2. CASE cp # Null
      BY <1>0, <1>2, <1>3, <1>5, <2>2, CutFacts
    <2> QED BY <2>1, <2>2
  <1>7. batch[n] = NoBatch
    BY <1>0, <1>4 DEF MembersInv, MemberInv, RollingBack
  <1>8. AtMost(lastCommitted[n], cp) /\ AtMost(stable[n], cp)
    BY <1>4 DEF covers
  <1>9. KeepsCommit(n)
    <2>1. lastCommitted[n].t <= cp.t
      <3>1. lastCommitted[n] \in OpTimes
        BY LogTypes
      <3>2. \A a, b \in OpTimes : AtMost(a, b) => a.t <= b.t
        BY AtMostMeans
      <3> QED BY <1>8, <3>1, <3>2
    <2> QED BY <1>4, <1>6, <1>7, <2>1 DEF KeepsCommit, SameBatch
  <1>10. \A k \in Server \ {n} : KeepsCommit(k)
    BY <1>4, <1>5 DEF KeepsCommit, SameBatch, CommitInv, CommitOf
  <1>11. CommitInv'
    BY <1>4, <1>9, <1>10, CommitSteps
  <1>12. ASSUME NEW c \in OpTimes, Has(log[n], c), AtMost(c, cp) PROVE Has(log'[n], c)
    <2>1. CASE c = Null
      <3>1. Len(log'[n]) \in Nat
        BY LogTypes
      <3> QED BY <2>1, <3>1 DEF Has, Null, OpTime, OpAt
    <2>2. CASE c # Null
      <3>1. Holds(n, c)
        BY <1>0, <1>12, <2>2, HasHolds
      <3>2. cp # Null
        BY <1>12, <2>2, OpTimeOrder, OpTimeFacts
      <3>3. Got(n, c) /\ Got(n, cp)
        BY <1>0, <1>2, <2>2, <3>1, <3>2 DEF OplogFacts
      <3>4. c.i <= cp.i
        BY <1>0, <1>12, <2>2, <3>2, <3>3 DEF OplogFacts
      <3>5. c.i \in 1..Len(Cut(n, cp.i)) /\ Cut(n, cp.i)[c.i] = c.t
        BY <1>0, <1>3, <3>1, <3>4, CutFacts
      <3>6. c = OpTime(c.t, c.i) /\ c.i # 0 /\ Len(log'[n]) \in Nat
        BY <2>2, EntryFacts, LogTypes DEF Entry
      <3> QED BY <1>5, <3>5, <3>6 DEF Has, OpAt
    <2> QED BY <2>1, <2>2
  <1> QED BY <1>6, <1>8, <1>11, <1>12

LEMMA RestartCommit ==
    ASSUME Moved, CommitInv, NEW n \in Server, Restart(n)
    PROVE  CommitInv'
  <1>0. TypeInv /\ TypeInv' /\ MembersInv /\ OplogFacts
    BY DEF Moved, Moves
  <1>1. /\ lastCommitted' = [lastCommitted EXCEPT ![n] = Null]
        /\ batch' = [batch EXCEPT ![n] = NoBatch] /\ published' = published
    BY DEF Restart
  <1>2. \A k \in Server \ {n} : log'[k] = log[k]
    <2>1. PICK l : log' = [log EXCEPT ![n] = l]
      BY DEF Restart
    <2> QED BY <1>0, <2>1 DEF TypeInv, LogType
  <1>3. \A k \in Server \ {n} : KeepsCommit(k)
    <2>1. \A k \in Server \ {n} : lastCommitted'[k] = lastCommitted[k] /\ batch'[k] = batch[k]
      BY <1>0, <1>1 DEF TypeInv, CommitType, SyncType
    <2> QED BY <1>2, <2>1 DEF KeepsCommit, SameBatch, CommitInv, CommitOf
  <1>4. CommitOf(n)'
    <2>1. lastCommitted'[n] = Null /\ batch'[n] = NoBatch
      BY <1>0, <1>1 DEF TypeInv, CommitType, SyncType
    <2>2. Null \in published'
      BY <1>1 DEF CommitInv
    <2>3. Null.t <= Top(log'[n]).t
      BY LogTypes DEF Null, OpTime
    <2>4. \A e \in OpTimes : Entry(e) => ~AtMost(e, Null)
      BY OpTimeOrder, OpTimeFacts DEF Entry
    <2> QED BY <2>1, <2>2, <2>3, <2>4 DEF CommitOf, Entry, AtMost, Before
  <1> QED BY <1>1, <1>3, <1>4, CommitSteps

\* Before(a, b) and AtMost(a, b) compare terms first.
LEMMA OrderedTerms == \A a, b \in OpTimes : AtMost(a, b) => a.t <= b.t
  BY AtMostMeans

LEMMA GrownTop ==
    ASSUME Moved, NEW n \in Server, StartsWith(log'[n], log[n])
    PROVE  /\ Top(log[n]).t <= Top(log'[n]).t
           /\ \A e \in OpTimes : Holds(n, e) => Holds(n, e)'
  <1>0. OplogFacts /\ OplogFacts'
    BY DEF Moved, Moves
  <1>1. Len(log[n]) \in Nat /\ Len(log'[n]) \in Nat
    BY LogTypes
  <1>2. \A e \in OpTimes : Holds(n, e) => Holds(n, e)'
    BY <1>1, StartsAt DEF Holds
  <1>3. Top(log[n]).t <= Top(log'[n]).t
    <2>0. Top(log[n]) \in OpTimes /\ Top(log'[n]) \in OpTimes
      BY LogTypes
    <2> SUFFICES ASSUME NEW f \in OpTimes, f = Top(log[n]), f # Null
                 PROVE  f.t <= Top(log'[n]).t
      <3>1. Null.t = 0 /\ Top(log'[n]).t \in Nat
        BY <2>0, OpTimeFacts DEF Null, OpTime
      <3> QED BY <2>0, <3>1
    <2>1. Holds(n, f)
      BY <1>0 DEF OplogFacts
    <2>2. Holds(n, f)'
      BY <1>2, <2>1
    <2>3. AtMost(f, Top(log[n]))'
      BY <1>0, <2>2 DEF OplogFacts
    <2>4. AtMost(f, Top(log'[n]))
      BY <2>3 DEF AtMost, Before
    <2> QED BY <2>0, <2>4, OrderedTerms
  <1> QED BY <1>2, <1>3

\* n takes over x, which it has concluded from the commit point c of its sync source.
LEMMA HeardCommit ==
    ASSUME Moved, CommitInv, NEW n \in Server, NEW c \in published, c \in OpTimes,
           StartsWith(log'[n], log[n]), batch'[n] = NoBatch,
           \A k \in Server \ {n} : KeepsCommit(k),
           \A e \in OpTimes : Entry(e) /\ Holds(n, e)' /\ AtMost(e, c) => Committed(e),
           NEW x \in OpTimes, lastCommitted'[n] = x, published' = published \cup {x},
           AtMost(x, c), x.t <= Top(log[n]).t, x = c \/ x = Top(log[n])
    PROVE  CommitInv'
  <1>1. \A e : Committed(e) => Committed(e)'
    BY CommittedKept DEF Moved
  <1>2. Committed(x)
    <2>1. CASE x = c
      BY <2>1 DEF CommitInv
    <2>2. CASE x = Null
      BY <2>2 DEF Committed
    <2>3. CASE x = Top(log[n]) /\ x # Null
      <3>1. OplogFacts
        BY DEF Moved, Moves
      <3>2. Holds(n, x)
        BY <2>3, <3>1 DEF OplogFacts
      <3>3. Holds(n, x)'
        BY <3>2, GrownTop
      <3> QED BY <2>3, <3>3 DEF Entry
    <2> QED BY <2>1, <2>2, <2>3
  <1>3. x.t <= Top(log'[n]).t
    <2>1. Top(log[n]).t <= Top(log'[n]).t
      BY GrownTop
    <2>2. x.t \in Nat /\ Top(log[n]).t \in Nat /\ Top(log'[n]).t \in Nat
      BY LogTypes, OpTimeFacts
    <2> QED BY <2>1, <2>2
  <1>4. ASSUME NEW e \in OpTimes, Entry(e), Holds(n, e)', AtMost(e, x) PROVE Committed(e)'
    <2>1. AtMost(e, c)
      BY <1>4, OpTimeOrder
    <2> QED BY <1>1, <1>4, <2>1
  <1>5. CommitOf(n)'
    BY <1>3, <1>4 DEF CommitOf, Entry, AtMost, Before
  <1>6. \A d \in published' : d \in published \/ Committed(d)'
    BY <1>1, <1>2
  <1> QED BY <1>5, <1>6, CommitSteps

LEMMA AppendsTo ==
    ASSUME NEW s \in Seq(Terms), NEW q \in Seq(Terms)
    PROVE  StartsWith(s \o q, s)
  <1>1. \A i \in 1..Len(s) : i \in 1..Len(s) + Len(q) /\ i <= Len(s)
    BY Concatenation
  <1>2. Len(s) <= Len(s \o q)
    BY Concatenation
  <1>3. \A i \in 1..Len(s) : (s \o q)[i] = s[i]
    BY <1>1, Concatenation
  <1> QED BY <1>2, <1>3 DEF StartsWith

\* n handles a batch; what it has afterwards up to the commit point that came with the batch
\* is committed.
LEMMA AppendCommit ==
    ASSUME Moved, CommitInv, NEW n \in Server, NEW b \in Batches, onSuccessfulBatch(n, b),
           Len(log[n]) + Len(b.entries) <= MaxLog,
           role[n] # "Truncated", batch'[n] = NoBatch,
           \A k \in Server \ {n} : batch'[k] = batch[k],
           b.commit \in published,
           \A e \in OpTimes : Entry(e) /\ Holds(n, e)' /\ AtMost(e, b.commit) => Committed(e)
    PROVE  CommitInv'
  <1>0. TypeInv /\ TypeInv' /\ MembersInv /\ OplogFacts /\ OplogFacts' /\ AppliedInv
    BY DEF Moved, Moves
  <1>1. b.commit \in OpTimes
    BY <1>0 DEF TypeInv, CommitType
  <1>2. advanced(n, b.commit, TRUE) \in OpTimes
    BY <1>0, <1>1, AdvancedFacts
  <1>3. /\ lastCommitted' = [lastCommitted EXCEPT ![n] = advanced(n, b.commit, TRUE)]
        /\ published' = published \cup {advanced(n, b.commit, TRUE)}
    BY DEF onSuccessfulBatch, advanceCommitPoint, advanceAndApply
  <1>4. log' = [log EXCEPT ![n] = log[n] \o b.entries]
    BY <1>0, OnBatchFacts
  <1>5. /\ \A k \in Server \ {n} : log'[k] = log[k] /\ lastCommitted'[k] = lastCommitted[k]
        /\ lastCommitted'[n] = advanced(n, b.commit, TRUE)
    BY <1>0, <1>3, <1>4 DEF TypeInv, LogType, CommitType
  <1>6. \A k \in Server \ {n} : KeepsCommit(k)
    BY <1>5 DEF KeepsCommit, SameBatch, CommitInv, CommitOf
  <1>7. StartsWith(log'[n], log[n])
    <2>1. log[n] \in Seq(Terms) /\ b.entries \in Seq(Terms)
      BY <1>0, LogFacts DEF TypeInv, Batches
    <2>2. log'[n] = log[n] \o b.entries
      BY <1>0, <1>4 DEF TypeInv, LogType
    <2> QED BY <2>1, <2>2, AppendsTo
  <1>8. CASE advanced(n, b.commit, TRUE) = lastCommitted[n]
    <2>1. lastCommitted[n].t <= Top(log'[n]).t
      <3>1. lastCommitted[n].t <= Top(log[n]).t
        BY DEF CommitInv, CommitOf
      <3>2. Top(log[n]).t <= Top(log'[n]).t
        BY <1>7, GrownTop
      <3> QED BY <3>1, <3>2, LogTypes
    <2>2. KeepsCommit(n)
      BY <1>5, <1>8, <2>1 DEF KeepsCommit, SameBatch
    <2>3. published' = published
      BY <1>3, <1>8 DEF CommitInv, CommitOf
    <2> QED BY <1>6, <2>2, <2>3, CommitSteps
  <1>9. CASE advanced(n, b.commit, TRUE) # lastCommitted[n]
    <2>1. lastApplied[n] = Top(log[n])
      BY <1>0 DEF AppliedInv, Says
    <2>2. /\ AtMost(advanced(n, b.commit, TRUE), b.commit)
          /\ advanced(n, b.commit, TRUE).t <= Top(log[n]).t
          /\ \/ advanced(n, b.commit, TRUE) = b.commit
             \/ advanced(n, b.commit, TRUE) = Top(log[n])
      BY <1>0, <1>1, <1>9, <2>1, AdvancedFacts
    <2> QED BY <1>1, <1>2, <1>3, <1>5, <1>6, <1>7, <2>2, HeardCommit
  <1> QED BY <1>8, <1>9

LEMMA ProcessCommit ==
    ASSUME Moved, CommitInv, NEW n \in Server, ProcessBatch(n)
    PROVE  CommitInv'
  <1>0. TypeInv /\ TypeInv' /\ MembersInv
    BY DEF Moved, Moves
  <1>1. /\ batch[n] # NoBatch /\ batch' = [batch EXCEPT ![n] = NoBatch]
        /\ onSuccessfulBatch(n, batch[n])
    BY DEF ProcessBatch
  <1>2. batch[n] \in Batches /\ \A k \in Server \ {n} : batch'[k] = batch[k]
    BY <1>0, <1>1 DEF TypeInv, SyncType
  <1>3. batch'[n] = NoBatch
    BY <1>0, <1>1 DEF TypeInv, SyncType
  <1>4. Len(log[n]) + Len(batch[n].entries) <= MaxLog /\ role[n] # "Truncated"
    BY <1>0, <1>1 DEF MembersInv, MemberInv, RollingBack
  <1>5. log' = [log EXCEPT ![n] = log[n] \o batch[n].entries]
    BY <1>0, <1>1, <1>2, <1>4, OnBatchFacts
  <1>6. log'[n] = Fetched(n)
    BY <1>0, <1>1, <1>5 DEF TypeInv, LogType, Fetched
  <1>7. \A e \in OpTimes : Holds(n, e)' => Got(n, e)
    BY <1>6 DEF Holds, Got
  <1>8. CommitOf(n)
    BY DEF CommitInv
  <1>9. batch[n].commit \in published
    BY <1>1, <1>8 DEF CommitOf
  <1>10. \A e \in OpTimes : Entry(e) /\ Holds(n, e)' /\ AtMost(e, batch[n].commit)
            => Committed(e)
    BY <1>1, <1>7, <1>8 DEF CommitOf
  <1> SUFFICES ASSUME NEW b \in Batches, b = batch[n] PROVE CommitInv'
    BY <1>2
  <1> QED BY <1>1, <1>2, <1>3, <1>4, <1>9, <1>10, AppendCommit

\* A batch carries the commit point of its source.
LEMMA CarriesCommit ==
    ASSUME LogType, CommitType, ElectionType
    PROVE  \A n, m \in Server : \A b \in batches(n, m) : b.commit = lastCommitted[m]
  BY BatchFacts

\* What n gets of m is committed up to the commit point of m.
LEMMA BatchCommit ==
    ASSUME Moved, CommitInv, NEW n \in Server, NEW m \in Server, NEW b \in batches(n, m),
           NEW e \in OpTimes, Entry(e), AtMost(e, b.commit),
           e.i \in 1..Len(log[n] \o b.entries), (log[n] \o b.entries)[e.i] = e.t
    PROVE  Committed(e)
  <1>0. TypeInv /\ MembersInv /\ LogInv /\ OplogFacts /\ LogType /\ CommitType /\ ElectionType
    BY DEF Moved, Moves, TypeInv
  <1>1. StartsWith(Fetched(m), log[n] \o b.entries) /\ Len(log[n] \o b.entries) \in Nat
    BY <1>0, BatchContinues
  <1>2. /\ b \in Batches /\ Len(log[n]) + Len(b.entries) <= Len(log[m])
        /\ b.commit = lastCommitted[m]
    <2>1. LogType /\ CommitType /\ ElectionType
      BY <1>0
    <2>2. b \in Batches
      BY <2>1, BatchFacts
    <2>3. Len(log[n]) + Len(b.entries) <= Len(log[m])
      BY <2>1, BatchFacts
    <2>4. b.commit = lastCommitted[m]
      BY <2>1, CarriesCommit
    <2> QED BY <2>2, <2>3, <2>4
  <1>3. Len(log[n] \o b.entries) <= Len(log[m])
    <2>1. log[n] \in Seq(Terms) /\ b.entries \in Seq(Terms)
      BY <1>0, <1>2, LogFacts DEF TypeInv, Batches
    <2> QED BY <1>2, <2>1, Concatenation
  <1>4. Len(Fetched(m)) \in Nat /\ Len(log[m]) \in Nat
    BY <1>0, ViewsHold DEF OplogViews, OplogView
  <1> SUFFICES ASSUME NEW q, StartsWith(Fetched(m), q), Len(q) \in Nat, Len(q) <= Len(log[m]),
                      e.i \in 1..Len(q), q[e.i] = e.t
               PROVE  Committed(e)
    <2> DEFINE q == log[n] \o b.entries
    <2>1. /\ StartsWith(Fetched(m), q) /\ Len(q) \in Nat /\ Len(q) <= Len(log[m])
          /\ e.i \in 1..Len(q) /\ q[e.i] = e.t
      BY <1>1, <1>3
    <2> HIDE DEF q
    <2> QED BY <2>1
  <1>5. e.i \in 1..Len(Fetched(m)) /\ Fetched(m)[e.i] = q[e.i] /\ e.i \in Nat
    BY <1>4, StartsAt
  <1>6. Got(m, e) /\ e.i <= Len(log[m])
    BY <1>4, <1>5 DEF Got
  <1>7. Holds(m, e)
    BY <1>0, <1>6 DEF OplogFacts, Entry
  <1> QED BY <1>2, <1>7 DEF CommitInv, CommitOf

LEMMA SyncCommit ==
    ASSUME Moved, CommitInv, NEW n \in Server, NEW m \in Server, Sync(n, m)
    PROVE  CommitInv'
  <1>0. TypeInv /\ TypeInv' /\ LogType /\ CommitType /\ ElectionType
    BY DEF Moved, Moves, TypeInv
  <1>1. /\ role[n] = "Secondary" /\ batch[n] = NoBatch /\ batch' = batch
    BY DEF Sync
  <1>2. PICK b \in batches(n, m) : onSuccessfulBatch(n, b)
    BY DEF Sync
  <1>3. /\ b \in Batches /\ Len(log[n]) + Len(b.entries) <= MaxLog
        /\ b.commit = lastCommitted[m]
    BY <1>0, BatchFacts
  <1>4. log'[n] = log[n] \o b.entries
    BY <1>0, <1>2, <1>3, OnBatchFacts DEF LogType
  <1>5. b.commit \in published
    BY <1>3 DEF CommitInv, CommitOf
  <1>6. \A e \in OpTimes : Entry(e) /\ Holds(n, e)' /\ AtMost(e, b.commit) => Committed(e)
    BY <1>4, BatchCommit DEF Holds
  <1>7. role[n] # "Truncated" /\ batch'[n] = NoBatch /\ \A k \in Server \ {n} : batch'[k] = batch[k]
    BY <1>1
  <1> QED BY <1>2, <1>3, <1>5, <1>6, <1>7, AppendCommit

LEMMA FetchCommit ==
    ASSUME Moved, CommitInv, NEW n \in Server, NEW m \in Server, FetchBatch(n, m)
    PROVE  CommitInv'
  <1>0. TypeInv /\ TypeInv' /\ LogType /\ CommitType /\ ElectionType
    BY DEF Moved, Moves, TypeInv
  <1>1. UNCHANGED <<log, lastCommitted, published>>
    BY DEF FetchBatch, oplogVars, commitVars
  <1>2. PICK b \in batches(n, m) : batch' = [batch EXCEPT ![n] = b]
    BY DEF FetchBatch
  <1>3. b \in Batches /\ b.commit = lastCommitted[m]
    BY <1>0, BatchFacts
  <1>4. batch'[n] = b /\ \A k \in Server \ {n} : batch'[k] = batch[k]
    BY <1>0, <1>2 DEF TypeInv, SyncType
  <1>5. \A k \in Server \ {n} : KeepsCommit(k)
    BY <1>1, <1>4 DEF KeepsCommit, SameBatch, CommitInv, CommitOf
  <1>6. \A e : Committed(e) => Committed(e)'
    BY CommittedKept DEF Moved
  <1>7. ASSUME batch'[n] # NoBatch, NEW e \in OpTimes, Entry(e), Got(n, e)', AtMost(e, b.commit)
        PROVE  Committed(e)'
    <2>1. Fetched(n)' = log[n] \o b.entries
      BY <1>1, <1>4, <1>7 DEF Fetched
    <2>2. e.i \in 1..Len(log[n] \o b.entries) /\ (log[n] \o b.entries)[e.i] = e.t
      BY <1>7, <2>1 DEF Got
    <2>3. Committed(e)
      BY <1>7, <2>2, BatchCommit
    <2> QED BY <1>6, <2>3
  <1>8. b.commit \in published'
    BY <1>1, <1>3 DEF CommitInv, CommitOf
  <1>9. ASSUME NEW e \in OpTimes, Entry(e), Holds(n, e)', AtMost(e, lastCommitted[n])
        PROVE  Committed(e)'
    BY <1>1, <1>6, <1>9 DEF Holds, CommitInv, CommitOf
  <1>10. CommitOf(n)'
    <2>1. lastCommitted'[n] \in published' /\ lastCommitted'[n].t <= Top(log'[n]).t
      BY <1>1 DEF CommitInv, CommitOf
    <2>2. \A e \in OpTimes : Entry(e) /\ Holds(n, e)' /\ AtMost(e, lastCommitted'[n])
            => Committed(e)'
      BY <1>1, <1>9
    <2>3. batch'[n] # NoBatch =>
            /\ batch'[n].commit \in published'
            /\ \A e \in OpTimes : Entry(e) /\ Got(n, e)' /\ AtMost(e, batch'[n].commit)
                => Committed(e)'
      BY <1>4, <1>7, <1>8
    <2> QED BY <2>1, <2>2, <2>3 DEF CommitOf, Entry, AtMost, Before
  <1> QED BY <1>1, <1>5, <1>10, CommitSteps

LEMMA NextCommit ==
    ASSUME Moved, CommitInv, ~LateBatches, ~StaleRollbacks, [Next]_vars
    PROVE  CommitInv'
  <1>1. CASE UNCHANGED vars
    BY <1>1, SameCommit DEF vars, oplogVars, commitVars, syncVars
  <1>2. CASE Next
    <2>1. PICK n \in Server :
            \/ \E Q \in SUBSET (Server \ {n}) : RunElection(n, Q)
            \/ SignalDrainComplete(n) \/ ClientWrite(n)
            \/ FinishStepDown(n) \/ FinishRollback(n) \/ AbandonRollback(n)
            \/ JournalFlush(n)
            \/ UpdateCommitPoint(n)
            \/ \E c \in published : HeartbeatCommitPoint(n, c)
            \/ ProcessBatch(n)
            \/ TruncateOplog(n)
            \/ Restart(n)
            \/ \E m \in Server : LearnTerm(n, m) \/ ReportPosition(n, m) \/ EnterRollback(n, m)
            \/ \E m \in Server : Sync(n, m)
            \/ \E m \in Server : FetchBatch(n, m)
      BY <1>2, Zenon DEF Next
    <2>2. CASE \E Q \in SUBSET (Server \ {n}) : RunElection(n, Q)
      BY <2>2, SameCommit DEF RunElection, commitVars, syncVars
    <2>3. CASE SignalDrainComplete(n) \/ ClientWrite(n)
      BY <2>3, ClientCommit
    <2>4. CASE FinishStepDown(n) \/ FinishRollback(n) \/ AbandonRollback(n)
      BY <2>4, SameCommit
         DEF FinishStepDown, FinishRollback, AbandonRollback, oplogVars, commitVars, syncVars
    <2>5. CASE JournalFlush(n)
      BY <2>5, JournalCommit
    <2>6. CASE UpdateCommitPoint(n)
      BY <2>6, UpdateCommit
    <2>7. CASE \E c \in published : HeartbeatCommitPoint(n, c)
      BY <2>7, HeartbeatCommit
    <2>8. CASE ProcessBatch(n)
      BY <2>8, ProcessCommit
    <2>9. CASE TruncateOplog(n)
      <3>1. source[n] \in Server
        BY <2>9 DEF TruncateOplog, Moved, Moves, AppliedInv, Says
      <3> QED BY <2>9, <3>1, TruncateCommit
    <2>10. CASE Restart(n)
      BY <2>10, RestartCommit
    <2>11. CASE \E m \in Server : LearnTerm(n, m) \/ ReportPosition(n, m) \/ EnterRollback(n, m)
      BY <2>11, SameCommit
         DEF LearnTerm, ReportPosition, EnterRollback, oplogVars, commitVars, syncVars
    <2>12. CASE \E m \in Server : Sync(n, m)
      BY <2>12, SyncCommit
    <2>13. CASE \E m \in Server : FetchBatch(n, m)
      BY <2>13, FetchCommit
    <2> QED BY <2>1, <2>2, <2>3, <2>4, <2>5, <2>6, <2>7, <2>8, <2>9, <2>10, <2>11, <2>12,
               <2>13
  <1> QED BY <1>1, <1>2

-----------------------------------------------------------------------------
(* Stable timestamps. *)

HasFacts ==
    \A n \in Server, op \in OpTimes :
        /\ op # Null => (Has(log[n], op) <=> Holds(n, op))
        /\ Has(log[n], Null) /\ Has(log[n], Top(log[n])) /\ Top(log[n]) \in OpTimes
        /\ Has(log[n], op) => AtMost(op, Top(log[n])) /\ op.i <= Len(log[n])

LEMMA HasFactsHold == TypeInv /\ OplogFacts => HasFacts
  <1> SUFFICES ASSUME TypeInv, OplogFacts, NEW n \in Server, NEW op \in OpTimes
               PROVE  /\ op # Null => (Has(log[n], op) <=> Holds(n, op))
                      /\ Has(log[n], Null) /\ Has(log[n], Top(log[n])) /\ Top(log[n]) \in OpTimes
                      /\ Has(log[n], op) => AtMost(op, Top(log[n])) /\ op.i <= Len(log[n])
    BY DEF HasFacts
  <1>1. (op # Null => (Has(log[n], op) <=> Holds(n, op))) /\ Has(log[n], Null)
    BY HasHolds
  <1>2. Top(log[n]) \in OpTimes /\ Len(log[n]) \in Nat
    BY RoleFacts DEF OplogFacts
  <1>3. Has(log[n], Top(log[n]))
    BY <1>2, HasTop
  <1>4. ASSUME Has(log[n], op) PROVE AtMost(op, Top(log[n])) /\ op.i <= Len(log[n])
    <2>1. CASE op = Null
      BY <1>2, <2>1, OpTimeOrder DEF Null, OpTime
    <2>2. CASE op # Null
      BY <1>1, <1>4, <2>2 DEF OplogFacts
    <2> QED BY <2>1, <2>2
  <1> QED BY <1>1, <1>2, <1>3, <1>4

LEMMA NextHasFacts == TypeInv' /\ OplogFacts' => HasFacts'
  BY HasFactsHold, PTL

\* The stable timestamp of k stays on its oplog and does not go back, and who is told that a
\* write is majority committed is told the truth.
StableStep(k) ==
    /\ StableOf(k)'
    /\ Has(log'[k], stable[k]) /\ AtMost(stable[k], stable'[k])
    /\ isPrimary(k)' => \A w \in waiting[k] \ waiting'[k] :
        Holds(k, w)' /\ AtMost(w, stable'[k])

LEMMA StableTypes ==
    ASSUME Moved, NEW k \in Server
    PROVE  /\ stable[k] \in OpTimes /\ stable'[k] \in OpTimes
           /\ candidates[k] \subseteq OpTimes /\ candidates'[k] \subseteq OpTimes
           /\ waiting[k] \subseteq OpTimes /\ waiting'[k] \subseteq OpTimes
           /\ HasFacts /\ HasFacts' /\ TypeInv /\ TypeInv'
  <1>1. TypeInv /\ TypeInv' /\ OplogFacts /\ OplogFacts'
    BY DEF Moved, Moves
  <1>2. HasFacts /\ HasFacts'
    BY <1>1, HasFactsHold, NextHasFacts
  <1> QED BY <1>1, <1>2 DEF TypeInv, StableType

\* The stable timestamp of k stays where it is.
KeepsStable(k) ==
    /\ stable'[k] = stable[k] /\ Has(log'[k], stable[k])
    /\ \A x \in candidates'[k] :
        /\ AtMost(stable[k], x)
        /\ role'[k] # "Truncated" \/ Before(x, Top(log'[k])) => Has(log'[k], x)
    /\ waiting'[k] # {} => isPrimary(k)'
    /\ \A w \in waiting'[k] : Holds(k, w)'
    /\ isPrimary(k)' => waiting[k] \subseteq waiting'[k]

LEMMA KeptStable ==
    ASSUME Moved, StableInv, published \subseteq published', NEW k \in Server, KeepsStable(k)
    PROVE  StableStep(k)
  <1>1. stable[k] \in OpTimes
    BY StableTypes
  <1> SUFFICES ASSUME NEW s \in OpTimes, s = stable[k] PROVE StableStep(k)
    BY <1>1
  <1>2. Committed(s) /\ \E c \in published : AtMost(s, c)
    BY DEF StableInv, StableOf
  <1>3. Committed(s)'
    BY <1>2, CommittedKept DEF Moved
  <1>4. stable'[k] = s /\ Has(log'[k], s) /\ AtMost(s, s)
    BY OpTimeOrder DEF KeepsStable
  <1>5. StableOf(k)'
    <2>1. \A x \in candidates'[k] : AtMost(s, x)
      BY DEF KeepsStable
    <2>2. \A x \in candidates'[k] :
            role'[k] # "Truncated" \/ Before(x, Top(log'[k])) => Has(log'[k], x)
      BY DEF KeepsStable
    <2>3. \A w \in waiting'[k] : Holds(k, w)'
      BY DEF KeepsStable
    <2>4. waiting'[k] # {} => isPrimary(k)'
      BY DEF KeepsStable
    <2>5. \E c \in published' : AtMost(s, c)
      BY <1>2
    <2> QED BY <1>3, <1>4, <2>1, <2>2, <2>3, <2>4, <2>5 DEF StableOf, AtMost, Before
  <1> QED BY <1>4, <1>5 DEF StableStep, KeepsStable

\* Nothing happens to the stable timestamp of k, and to what it depends on.
SameStable(k) ==
    /\ log'[k] = log[k] /\ stable'[k] = stable[k] /\ candidates'[k] = candidates[k]
    /\ role[k] = "Truncated" => role'[k] = "Truncated"
    /\ waiting'[k] = waiting[k] \/ (waiting'[k] = {} /\ ~isPrimary(k)')
    /\ isPrimary(k) => isPrimary(k)' \/ waiting'[k] = {}

LEMMA SameStableSteps ==
    ASSUME Moved, StableInv, published \subseteq published', NEW k \in Server, SameStable(k)
    PROVE  StableStep(k)
  <1>1. StableOf(k)
    BY DEF StableInv
  <1>2. log'[k] = log[k] /\ stable'[k] = stable[k] /\ candidates'[k] = candidates[k]
    BY DEF SameStable
  <1>3. Has(log'[k], stable[k])
    BY <1>1, <1>2 DEF StableOf
  <1>4. \A x \in candidates'[k] :
        /\ AtMost(stable[k], x)
        /\ role'[k] # "Truncated" \/ Before(x, Top(log'[k])) => Has(log'[k], x)
    BY <1>1, <1>2 DEF StableOf, SameStable
  <1>5. \A w \in waiting'[k] : Holds(k, w)'
    <2>1. \A w : Holds(k, w)' <=> Holds(k, w)
      BY <1>2 DEF Holds
    <2> QED BY <1>1, <2>1 DEF StableOf, SameStable
  <1>6. waiting'[k] # {} => isPrimary(k)'
    BY <1>1 DEF StableOf, SameStable
  <1>7. isPrimary(k)' => waiting[k] \subseteq waiting'[k]
    BY DEF SameStable
  <1>8. KeepsStable(k)
    BY <1>2, <1>3, <1>4, <1>5, <1>6, <1>7 DEF KeepsStable
  <1> QED BY <1>8, KeptStable

\* n hears of, or applies, something and chooses its stable timestamp among cands.
Chooses(n, cands) ==
    /\ published \subseteq published' /\ role[n] # "Truncated" /\ role'[n] # "Truncated"
    /\ isPrimary(n)' <=> isPrimary(n)
    /\ StartsWith(log'[n], log[n])
    /\ cands \subseteq OpTimes
    /\ \A x \in cands : AtMost(stable[n], x) /\ Has(log'[n], x)

\* What stays on the oplog, when it grows.
LEMMA GrownStable ==
    ASSUME Moved, StableInv, NEW n \in Server, StartsWith(log'[n], log[n]),
           isPrimary(n) => isPrimary(n)'
    PROVE  /\ Has(log'[n], stable[n]) /\ \A w \in waiting[n] : Holds(n, w)'
           /\ \A op \in OpTimes : Has(log[n], op) => Has(log'[n], op)
           /\ waiting[n] # {} => isPrimary(n)'
           /\ AtMost(stable[n], Top(log'[n])) /\ Has(log'[n], Top(log'[n]))
  <1>1. Len(log[n]) \in Nat /\ Len(log'[n]) \in Nat
    BY LogTypes
  <1>2. \A op \in OpTimes : Has(log[n], op) => Has(log'[n], op)
    BY <1>1, HasLonger
  <1>3. StableOf(n) /\ stable[n] \in OpTimes /\ waiting[n] \subseteq OpTimes /\ HasFacts'
    BY StableTypes DEF StableInv
  <1>4. Has(log'[n], stable[n])
    BY <1>2, <1>3 DEF StableOf
  <1>5. \A w \in waiting[n] : Holds(n, w)'
    BY <1>3, GrownTop DEF StableOf
  <1>6. waiting[n] # {} => isPrimary(n)'
    BY <1>3 DEF StableOf
  <1>7. AtMost(stable[n], Top(log'[n]))
    <2> SUFFICES ASSUME NEW s \in OpTimes, s = stable[n] PROVE AtMost(s, Top(log'[n]))
      BY <1>3
    <2>1. AtMost(s, Top(log[n]))'
      BY <1>3, <1>4 DEF HasFacts
    <2> QED BY <2>1 DEF AtMost, Before
  <1>8. Has(log'[n], Top(log'[n]))
    BY <1>3 DEF HasFacts
  <1> QED BY <1>2, <1>4, <1>5, <1>6, <1>7, <1>8

LEMMA NoChoice ==
    ASSUME Moved, StableInv, NEW n \in Server, NEW cands, Chooses(n, cands),
           stable'[n] = stable[n], waiting'[n] = waiting[n], candidates'[n] \subseteq cands
    PROVE  StableStep(n)
  <1>1. /\ Has(log'[n], stable[n]) /\ \A w \in waiting[n] : Holds(n, w)'
        /\ waiting[n] # {} => isPrimary(n)'
    BY GrownStable DEF Chooses
  <1>2. KeepsStable(n)
    BY <1>1 DEF KeepsStable, Chooses
  <1> QED BY <1>2, KeptStable DEF Chooses

LEMMA NewChoice ==
    ASSUME Moved, CommitInv', StableInv, NEW n \in Server, NEW cands, Chooses(n, cands),
           NEW r \in cands, AtMost(r, lastCommitted'[n]), stable'[n] = r,
           waiting'[n] = {w \in waiting[n] : Before(r, w)},
           \A x \in candidates'[n] : x \in cands /\ AtMost(r, x)
    PROVE  StableStep(n)
  <1>1. /\ Has(log'[n], stable[n]) /\ \A w \in waiting[n] : Holds(n, w)'
        /\ waiting[n] # {} => isPrimary(n)'
    BY GrownStable DEF Chooses
  <1>2. r \in OpTimes /\ AtMost(stable[n], r) /\ Has(log'[n], r)
    BY DEF Chooses
  <1>3. waiting[n] \subseteq OpTimes /\ HasFacts'
    BY StableTypes
  <1>4. CommitOf(n)'
    BY DEF CommitInv
  <1>5. Committed(r)'
    <2>1. CASE r = Null
      BY <2>1 DEF Committed
    <2>2. CASE r # Null
      <3>1. Holds(n, r)'
        BY <1>2, <1>3, <2>2 DEF HasFacts
      <3> QED BY <1>2, <1>4, <2>2, <3>1 DEF CommitOf, Entry, AtMost, Before
    <2> QED BY <2>1, <2>2
  <1>6. \E c \in published' : AtMost(r, c)
    BY <1>4 DEF CommitOf
  <1>7. StableOf(n)'
    <2>1. \A x \in candidates'[n] : AtMost(r, x) /\ Has(log'[n], x)
      BY DEF Chooses
    <2>2. \A w \in waiting'[n] : Holds(n, w)'
      BY <1>1
    <2>3. waiting'[n] # {} => isPrimary(n)'
      BY <1>1
    <2> QED BY <1>2, <1>5, <1>6, <2>1, <2>2, <2>3 DEF StableOf, AtMost, Before
  <1>8. \A w \in waiting[n] \ waiting'[n] : Holds(n, w)' /\ AtMost(w, r)
    BY <1>1, <1>2, <1>3, OpTimeOrder
  <1> QED BY <1>1, <1>2, <1>7, <1>8 DEF StableStep

LEMMA SetStable ==
    ASSUME Moved, CommitInv', StableInv, NEW n \in Server, NEW cands, Chooses(n, cands),
           setStableTimestamp(n, lastCommitted'[n], cands)
    PROVE  /\ StableStep(n)
           /\ \A k \in Server \ {n} : /\ stable'[k] = stable[k] /\ waiting'[k] = waiting[k]
                                      /\ candidates'[k] = candidates[k]
  <1>0. /\ stable \in [Server -> OpTimes] /\ candidates \in [Server -> SUBSET OpTimes]
        /\ waiting \in [Server -> SUBSET OpTimes]
    BY DEF Moved, Moves, TypeInv, StableType
  <1> SUFFICES ASSUME NEW c, c = lastCommitted'[n], setStableTimestamp(n, c, cands)
               PROVE  /\ StableStep(n)
                      /\ \A k \in Server \ {n} :
                            /\ stable'[k] = stable[k] /\ waiting'[k] = waiting[k]
                            /\ candidates'[k] = candidates[k]
    OBVIOUS
  <1> DEFINE E == {op \in cands : AtMost(op, c)}
             r == Latest(E)
  <1>1. cands \subseteq OpTimes
    BY DEF Chooses
  <1>2. CASE E = {}
    <2>1. candidates' = [candidates EXCEPT ![n] = cands] /\ UNCHANGED <<stable, waiting>>
      BY <1>2 DEF setStableTimestamp
    <2>2. candidates'[n] = cands /\ \A k \in Server \ {n} : candidates'[k] = candidates[k]
      BY <1>0, <2>1
    <2>3. StableStep(n)
      BY <2>1, <2>2, NoChoice
    <2> QED BY <2>1, <2>2, <2>3
  <1>3. CASE E # {}
    <2>1. candidates' = [candidates EXCEPT ![n] = {op \in cands : AtMost(r, op)}]
      BY <1>3 DEF setStableTimestamp
    <2>2. /\ candidates'[n] = {op \in cands : AtMost(r, op)}
          /\ \A k \in Server \ {n} : candidates'[k] = candidates[k]
      BY <1>0, <2>1
    <2>3. r \in E
      BY <1>1, <1>3, LatestFacts
    <2>4. CASE role[n] \in RollingBack
      <3>1. UNCHANGED <<stable, waiting>>
        BY <1>3, <2>4 DEF setStableTimestamp
      <3>2. candidates'[n] \subseteq cands
        BY <2>2
      <3>3. StableStep(n)
        BY <3>1, <3>2, NoChoice
      <3> QED BY <2>2, <3>1, <3>3
    <2>5. CASE role[n] \notin RollingBack
      <3>1. /\ stable' = [stable EXCEPT ![n] = r]
            /\ waiting' = [waiting EXCEPT ![n] = {w \in @ : Before(r, w)}]
        BY <1>3, <2>5 DEF setStableTimestamp
      <3>2. /\ stable'[n] = r /\ waiting'[n] = {w \in waiting[n] : Before(r, w)}
            /\ \A k \in Server \ {n} : stable'[k] = stable[k] /\ waiting'[k] = waiting[k]
        BY <1>0, <3>1
      <3>3. r \in cands /\ AtMost(r, c)
        BY <2>3
      <3>4. \A x \in candidates'[n] : x \in cands /\ AtMost(r, x)
        BY <2>2
      <3> HIDE DEF r, E
      <3>5. StableStep(n)
        BY <3>2, <3>3, <3>4, NewChoice
      <3> QED BY <2>2, <3>2, <3>5
    <2> QED BY <2>4, <2>5
  <1> QED BY <1>2, <1>3

\* The candidates of n, and its last entry, are on its oplog.
LEMMA OwnCandidates ==
    ASSUME Moved, StableInv, NEW n \in Server, published \subseteq published',
           role[n] # "Truncated", role'[n] # "Truncated", isPrimary(n)' <=> isPrimary(n),
           StartsWith(log'[n], log[n])
    PROVE  Chooses(n, candidates[n]) /\ Chooses(n, candidates[n] \cup {Top(log'[n])})
  <1>1. /\ AtMost(stable[n], Top(log'[n])) /\ Has(log'[n], Top(log'[n]))
        /\ \A op \in OpTimes : Has(log[n], op) => Has(log'[n], op)
    BY GrownStable
  <1>2. candidates[n] \subseteq OpTimes /\ Top(log'[n]) \in OpTimes /\ StableOf(n)
    BY StableTypes, LogTypes DEF StableInv
  <1>3. \A x \in candidates[n] : AtMost(stable[n], x) /\ Has(log'[n], x)
    BY <1>1, <1>2 DEF StableOf
  <1> QED BY <1>1, <1>2, <1>3 DEF Chooses

\* The others are not concerned.
LEMMA OthersStable ==
    ASSUME Moved, StableInv, published \subseteq published', NEW n \in Server, StableStep(n),
           \A k \in Server \ {n} :
                /\ stable'[k] = stable[k] /\ waiting'[k] = waiting[k]
                /\ candidates'[k] = candidates[k]
                /\ log'[k] = log[k] /\ role'[k] = role[k]
    PROVE  \A k \in Server : StableStep(k)
  <1>1. \A k \in Server \ {n} : SameStable(k)
    BY DEF SameStable, isPrimary
  <1> QED BY <1>1, SameStableSteps

LEMMA AdvanceStable ==
    ASSUME Moved, CommitInv', StableInv, NEW n \in Server, NEW c, advanceCommitPoint(n, c),
           Chooses(n, candidates[n]),
           \A k \in Server \ {n} : log'[k] = log[k] /\ role'[k] = role[k]
    PROVE  \A k \in Server : StableStep(k)
  <1>0. lastCommitted'[n] = c
    BY DEF advanceCommitPoint, Moved, Moves, TypeInv, CommitType
  <1>1. CASE c = lastCommitted[n]
    <2>1. UNCHANGED <<stable, candidates, waiting>>
      BY <1>1 DEF advanceCommitPoint, stableVars
    <2>2. StableStep(n)
      BY <2>1, NoChoice
    <2> QED BY <2>1, <2>2, OthersStable DEF Chooses
  <1>2. CASE c # lastCommitted[n]
    <2>1. setStableTimestamp(n, lastCommitted'[n], candidates[n])
      BY <1>0, <1>2 DEF advanceCommitPoint
    <2>2. /\ StableStep(n)
          /\ \A k \in Server \ {n} : /\ stable'[k] = stable[k] /\ waiting'[k] = waiting[k]
                                     /\ candidates'[k] = candidates[k]
      BY <2>1, SetStable
    <2> QED BY <2>2, OthersStable DEF Chooses
  <1> QED BY <1>1, <1>2

LEMMA ApplyStable ==
    ASSUME Moved, CommitInv', StableInv, NEW n \in Server, NEW c, NEW op,
           advanceAndApply(n, c, op), Chooses(n, candidates[n] \cup {op}),
           \A k \in Server \ {n} : log'[k] = log[k] /\ role'[k] = role[k]
    PROVE  \A k \in Server : StableStep(k)
  <1>0. lastCommitted'[n] = c
    BY DEF advanceAndApply, Moved, Moves, TypeInv, CommitType
  <1> DEFINE cands == candidates[n] \cup {op}
  <1>1. CASE c # lastCommitted[n] \/ AtMost(op, c)
    <2>1. setStableTimestamp(n, lastCommitted'[n], cands)
      BY <1>0, <1>1 DEF advanceAndApply
    <2>2. Chooses(n, cands)
      OBVIOUS
    <2> HIDE DEF cands
    <2> QED BY <2>1, <2>2, SetStable, OthersStable DEF Chooses
  <1>2. CASE ~(c # lastCommitted[n] \/ AtMost(op, c))
    <2>1. candidates' = [candidates EXCEPT ![n] = cands] /\ UNCHANGED <<stable, waiting>>
      BY <1>2 DEF advanceAndApply
    <2>2. candidates'[n] = cands /\ \A k \in Server \ {n} : candidates'[k] = candidates[k]
      BY <2>1 DEF Moved, Moves, TypeInv, StableType
    <2>3. Chooses(n, cands)
      OBVIOUS
    <2> HIDE DEF cands
    <2>4. StableStep(n)
      BY <2>1, <2>2, <2>3, NoChoice
    <2> QED BY <2>1, <2>2, <2>3, <2>4, OthersStable DEF Chooses
  <1> QED BY <1>1, <1>2

LEMMA StartsWithItself ==
    ASSUME NEW s, Len(s) \in Nat
    PROVE  StartsWith(s, s)
  BY DEF StartsWith

\* n has heard of a commit point.
LEMMA CountedStable ==
    ASSUME Moved, CommitInv', StableInv, NEW n \in Server, NEW c, advanceCommitPoint(n, c),
           role[n] # "Truncated", UNCHANGED <<electionVars, log>>
    PROVE  \A k \in Server : StableStep(k)
  <1>1. published \subseteq published'
    BY DEF advanceCommitPoint
  <1>2. role' = role /\ log' = log /\ StartsWith(log'[n], log[n])
    BY LogTypes, StartsWithItself DEF electionVars
  <1>3. isPrimary(n)' <=> isPrimary(n)
    BY <1>2 DEF isPrimary
  <1>4. Chooses(n, candidates[n])
    BY <1>1, <1>2, <1>3, OwnCandidates
  <1> QED BY <1>2, <1>4, AdvanceStable

\* In the middle of a roll back only the candidates are cleaned up.
LEMMA TruncatedStable ==
    ASSUME Moved, StableInv, NEW n \in Server, NEW c, advanceCommitPoint(n, c),
           role[n] = "Truncated", UNCHANGED <<electionVars, log>>
    PROVE  \A k \in Server : StableStep(k)
  <1>0. candidates \in [Server -> SUBSET OpTimes]
    BY DEF Moved, Moves, TypeInv, StableType
  <1>1. role' = role /\ log' = log /\ published \subseteq published'
    BY DEF electionVars, advanceCommitPoint
  <1>2. UNCHANGED <<stable, waiting>>
    BY DEF advanceCommitPoint, setStableTimestamp, stableVars, RollingBack
  <1>3. /\ candidates'[n] \subseteq candidates[n]
        /\ \A k \in Server \ {n} : candidates'[k] = candidates[k]
    BY <1>0 DEF advanceCommitPoint, setStableTimestamp, stableVars
  <1>4. StableStep(n)
    <2>1. StableOf(n)
      BY DEF StableInv
    <2>2. \A w \in waiting'[n] : Holds(n, w)'
      BY <1>1, <1>2, <2>1 DEF StableOf, Holds
    <2>3. isPrimary(n)' <=> isPrimary(n)
      BY <1>1 DEF isPrimary
    <2>4. KeepsStable(n)
      BY <1>1, <1>2, <1>3, <2>1, <2>2, <2>3 DEF KeepsStable, StableOf
    <2> QED BY <1>1, <2>4, KeptStable
  <1> QED BY <1>1, <1>2, <1>3, <1>4, OthersStable

LEMMA CommitPointStable ==
    ASSUME Moved, CommitInv', StableInv, ~StaleRollbacks, NEW n \in Server,
           \/ UpdateCommitPoint(n) \/ JournalFlush(n)
           \/ \E c \in published : HeartbeatCommitPoint(n, c)
    PROVE  \A k \in Server : StableStep(k)
  <1>1. CASE UpdateCommitPoint(n)
    <2>1. role[n] # "Truncated" /\ \E c : advanceCommitPoint(n, c)
      BY <1>1 DEF UpdateCommitPoint, updateLastCommitted
    <2> QED BY <1>1, <2>1, CountedStable DEF UpdateCommitPoint, oplogVars
  <1>2. CASE JournalFlush(n)
    <2>1. role[n] # "Truncated" /\ \E c : advanceCommitPoint(n, c)
      BY <1>2 DEF JournalFlush, updateLastCommitted
    <2> QED BY <1>2, <2>1, CountedStable DEF JournalFlush
  <1>3. CASE \E c \in published : HeartbeatCommitPoint(n, c)
    <2>1. (\E c : advanceCommitPoint(n, c)) /\ UNCHANGED <<electionVars, log>>
      BY <1>3 DEF HeartbeatCommitPoint, oplogVars
    <2>2. CASE role[n] # "Truncated"
      BY <2>1, <2>2, CountedStable
    <2>3. CASE role[n] = "Truncated"
      BY <2>1, <2>3, TruncatedStable
    <2> QED BY <2>2, <2>3
  <1> QED BY <1>1, <1>2, <1>3

LEMMA AppendStable ==
    ASSUME Moved, CommitInv', StableInv, NEW n \in Server, NEW b \in Batches,
           onSuccessfulBatch(n, b), Len(log[n]) + Len(b.entries) <= MaxLog,
           role[n] # "Truncated"
    PROVE  \A k \in Server : StableStep(k)
  <1>0. TypeInv /\ b.term \in 0..MaxTerm
    BY DEF Moved, Moves, Batches
  <1>1. updateTerm(n, b.term) /\ log' = [log EXCEPT ![n] = log[n] \o b.entries]
    BY <1>0, OnBatchFacts
  <1>2. /\ \A k \in Server \ {n} : role'[k] = role[k]
        /\ isPrimary(n)' <=> isPrimary(n)
        /\ (role'[n] \in RollingBack \/ role[n] \in RollingBack) => role'[n] = role[n]
    BY <1>0, <1>1, UpdateTermFacts
  <1>3. role'[n] # "Truncated"
    BY <1>2 DEF RollingBack
  <1>4. log'[n] = log[n] \o b.entries
    BY <1>0, <1>1 DEF TypeInv, LogType
  <1>5. \A k \in Server \ {n} : log'[k] = log[k]
    BY <1>0, <1>1 DEF TypeInv, LogType
  <1>6. StartsWith(log'[n], log[n])
    <2>1. log[n] \in Seq(Terms) /\ b.entries \in Seq(Terms)
      BY <1>0, LogFacts DEF TypeInv, Batches
    <2> QED BY <1>4, <2>1, AppendsTo
  <1>7. published \subseteq published'
    BY DEF onSuccessfulBatch, advanceCommitPoint, advanceAndApply
  <1>8. Chooses(n, candidates[n]) /\ Chooses(n, candidates[n] \cup {Top(log'[n])})
    BY <1>2, <1>3, <1>6, <1>7, OwnCandidates
  <1>9. CASE b.entries = <<>>
    <2>1. \E c : advanceCommitPoint(n, c)
      BY <1>9 DEF onSuccessfulBatch
    <2> QED BY <1>2, <1>5, <1>8, <2>1, AdvanceStable
  <1>10. CASE b.entries # <<>>
    <2>1. \E c : advanceAndApply(n, c, Top(log'[n]))
      BY <1>4, <1>10 DEF onSuccessfulBatch
    <2> QED BY <1>2, <1>5, <1>8, <2>1, ApplyStable
  <1> QED BY <1>9, <1>10

LEMMA BatchStable ==
    ASSUME Moved, CommitInv', StableInv, NEW n \in Server,
           ProcessBatch(n) \/ \E m \in Server : Sync(n, m)
    PROVE  \A k \in Server : StableStep(k)
  <1>0. TypeInv /\ MembersInv /\ LogType /\ CommitType /\ ElectionType
    BY DEF Moved, Moves, TypeInv
  <1>1. CASE ProcessBatch(n)
    <2>1. batch[n] # NoBatch /\ onSuccessfulBatch(n, batch[n])
      BY <1>1 DEF ProcessBatch
    <2>2. batch[n] \in Batches
      BY <1>0, <2>1 DEF TypeInv, SyncType
    <2>3. Len(log[n]) + Len(batch[n].entries) <= MaxLog /\ role[n] # "Truncated"
      BY <1>0, <2>1 DEF MembersInv, MemberInv, RollingBack
    <2> QED BY <2>1, <2>2, <2>3, AppendStable
  <1>2. CASE \E m \in Server : Sync(n, m)
    <2>1. PICK m \in Server : Sync(n, m)
      BY <1>2
    <2>2. PICK b \in batches(n, m) : onSuccessfulBatch(n, b)
      BY <2>1 DEF Sync
    <2>3. b \in Batches /\ Len(log[n]) + Len(b.entries) <= MaxLog
      BY <1>0, BatchFacts
    <2>4. role[n] # "Truncated"
      BY <2>1 DEF Sync
    <2> QED BY <2>2, <2>3, <2>4, AppendStable
  <1> QED BY <1>1, <1>2

LEMMA WriteStable ==
    ASSUME Moved, StableInv, NEW n \in Server, Writes(n),
           SignalDrainComplete(n) \/ ClientWrite(n)
    PROVE  \A k \in Server : StableStep(k)
  <1>0. /\ candidates \in [Server -> SUBSET OpTimes] /\ waiting \in [Server -> SUBSET OpTimes]
        /\ TypeInv /\ log' \in [Server -> Seq(Terms)]
    BY DEF Moved, Moves, TypeInv, StableType, LogType
  <1>1. write(n) /\ published' = published /\ stable' = stable
    BY DEF SignalDrainComplete, ClientWrite, write
  <1>2. candidates' = [candidates EXCEPT ![n] = @ \cup {Top(log'[n])}]
    BY <1>1 DEF write, Writes
  <1>3. waiting' = waiting \/ waiting' = [waiting EXCEPT ![n] = @ \cup {Top(log'[n])}]
    <2>1. CASE SignalDrainComplete(n)
      BY <2>1 DEF SignalDrainComplete
    <2>2. CASE ClientWrite(n)
      <3>1. waiting' = [waiting EXCEPT ![n] =
                            IF role[n] = "Master" THEN @ \cup {Top(log'[n])} ELSE @]
        BY <2>2 DEF ClientWrite
      <3> QED BY <1>0, <3>1
    <2> QED BY <2>1, <2>2
  <1>4. /\ candidates'[n] = candidates[n] \cup {Top(log'[n])}
        /\ \A k \in Server \ {n} : candidates'[k] = candidates[k] /\ waiting'[k] = waiting[k]
        /\ waiting'[n] = waiting[n] \/ waiting'[n] = waiting[n] \cup {Top(log'[n])}
    BY <1>0, <1>2, <1>3
  <1>5. isPrimary(n) /\ isPrimary(n)' /\ role[n] # "Truncated" /\ role'[n] # "Truncated"
    <2>1. isPrimary(n) /\ isPrimary(n)'
      BY DEF Writes
    <2> QED BY <2>1 DEF isPrimary, Leading
  <1>6. StartsWith(log'[n], log[n])
    <2>1. log[n] \in Seq(Terms) /\ log'[n] = Append(log[n], term[n])
      BY <1>0, LogFacts DEF TypeInv, Writes
    <2> QED BY <2>1 DEF StartsWith
  <1>7. Chooses(n, candidates[n] \cup {Top(log'[n])})
    BY <1>1, <1>5, <1>6, OwnCandidates
  <1>8. /\ Has(log'[n], stable[n]) /\ \A w \in waiting[n] : Holds(n, w)'
    BY <1>5, <1>6, GrownStable
  <1>9. Holds(n, Top(log[n]))'
    <2>1. Top(log'[n]) # Null
      <3>1. /\ Before(Top(log[n]), Top(log'[n]))
            /\ Top(log[n]) \in OpTimes /\ Top(log'[n]) \in OpTimes
        BY LogTypes DEF Writes
      <3> QED BY <3>1, OpTimeOrder, OpTimeFacts
    <2> QED BY <2>1 DEF Moved, Moves, OplogFacts
  <1>10. KeepsStable(n)
    <2>1. \A x \in candidates'[n] : AtMost(stable[n], x) /\ Has(log'[n], x)
      BY <1>4, <1>7 DEF Chooses
    <2>2. \A w \in waiting'[n] : Holds(n, w)'
      <3>1. ASSUME NEW w, w = Top(log'[n]) PROVE Holds(n, w)'
        BY <1>9, <3>1 DEF Holds
      <3> QED BY <1>4, <1>8, <3>1
    <2> QED BY <1>1, <1>4, <1>5, <1>8, <2>1, <2>2 DEF KeepsStable
  <1>11. StableStep(n)
    BY <1>1, <1>10, KeptStable
  <1>12. \A k \in Server \ {n} : log'[k] = log[k] /\ role'[k] = role[k]
    BY DEF Writes, OnlyMember, SameMember
  <1> QED BY <1>1, <1>4, <1>11, <1>12, OthersStable

LEMMA TruncateStable ==
    ASSUME Moved, CommitInv, StableInv, NEW n \in Server, TruncateOplog(n), source[n] \in Server
    PROVE  \A k \in Server : StableStep(k)
  <1>0. TypeInv
    BY DEF Moved, Moves
  <1>1. /\ UNCHANGED <<stable, candidates, waiting, published>> /\ role[n] = "Rollback"
        /\ role' = [role EXCEPT ![n] = "Truncated"]
        /\ \E l : log' = [log EXCEPT ![n] = l]
    BY DEF TruncateOplog, commitVars, stableVars
  <1>2. /\ \A k \in Server \ {n} : log'[k] = log[k] /\ role'[k] = role[k]
        /\ role'[n] = "Truncated"
    BY <1>0, <1>1 DEF TypeInv, LogType, ElectionType
  <1>3. /\ \A c \in OpTimes : Has(log[n], c) /\ AtMost(c, Top(log'[n])) => Has(log'[n], c)
        /\ AtMost(stable[n], Top(log'[n]))
    BY TruncateCommit
  <1>4. StableOf(n) /\ stable[n] \in OpTimes /\ candidates[n] \subseteq OpTimes
    BY StableTypes DEF StableInv
  <1>5. waiting[n] = {}
    BY <1>1, <1>4 DEF StableOf, isPrimary, Leading
  <1>6. Has(log'[n], stable[n])
    BY <1>3, <1>4 DEF StableOf
  <1>7. \A x \in candidates[n] :
            AtMost(stable[n], x) /\ (Before(x, Top(log'[n])) => Has(log'[n], x))
    <2>1. \A x \in candidates[n] : AtMost(stable[n], x) /\ Has(log[n], x)
      BY <1>1, <1>4 DEF StableOf
    <2>2. \A x : Before(x, Top(log'[n])) => AtMost(x, Top(log'[n]))
      BY DEF AtMost
    <2> QED BY <1>3, <1>4, <2>1, <2>2
  <1>8. KeepsStable(n)
    BY <1>1, <1>2, <1>5, <1>6, <1>7 DEF KeepsStable
  <1>9. StableStep(n)
    BY <1>1, <1>8, KeptStable
  <1> QED BY <1>1, <1>2, <1>9, OthersStable

LEMMA FinishRollbackStable ==
    ASSUME Moved, StableInv, NEW n \in Server, FinishRollback(n)
    PROVE  \A k \in Server : StableStep(k)
  <1>0. TypeInv
    BY DEF Moved, Moves
  <1>1. /\ UNCHANGED <<log, stable, waiting, published>> /\ role[n] = "Truncated"
        /\ role' = [role EXCEPT ![n] = "Secondary"]
        /\ candidates' = [candidates EXCEPT
                            ![n] = eraseCandidates(resetCandidates(n, Top(log[n])), Top(log[n]))]
    BY DEF FinishRollback
  <1>2. /\ \A k \in Server \ {n} : role'[k] = role[k] /\ candidates'[k] = candidates[k]
        /\ role'[n] = "Secondary"
        /\ candidates'[n] = eraseCandidates(resetCandidates(n, Top(log[n])), Top(log[n]))
    BY <1>0, <1>1 DEF TypeInv, StableType, ElectionType
  <1>3. StableOf(n) /\ stable[n] \in OpTimes /\ HasFacts
    BY StableTypes DEF StableInv
  <1>4. waiting[n] = {}
    BY <1>1, <1>3 DEF StableOf, isPrimary, Leading
  <1>5. Has(log[n], stable[n]) /\ AtMost(stable[n], Top(log[n])) /\ Has(log[n], Top(log[n]))
    BY <1>3 DEF StableOf, HasFacts
  <1>6. \A x \in candidates'[n] : AtMost(stable[n], x) /\ Has(log[n], x)
    <2>1. resetCandidates(n, Top(log[n])) \subseteq candidates[n] \cup {Top(log[n])}
      BY DEF resetCandidates
    <2>2. \A x \in candidates'[n] :
            x = Top(log[n]) \/ (x \in candidates[n] /\ Before(x, Top(log[n])))
      BY <1>2, <2>1 DEF eraseCandidates, AtMost
    <2> QED BY <1>3, <1>5, <2>2 DEF StableOf
  <1>7. KeepsStable(n)
    BY <1>1, <1>2, <1>4, <1>5, <1>6 DEF KeepsStable
  <1>8. StableStep(n)
    BY <1>1, <1>7, KeptStable
  <1> QED BY <1>1, <1>2, <1>8, OthersStable

\* The steps that leave stable timestamps alone.
LEMMA IdleStable ==
    ASSUME Moved, StableInv, UNCHANGED <<log, stable, candidates, published>>,
           \A k \in Server :
                /\ role[k] = "Truncated" => role'[k] = "Truncated"
                /\ waiting'[k] = waiting[k] \/ (waiting'[k] = {} /\ ~isPrimary(k)')
                /\ isPrimary(k) => isPrimary(k)' \/ waiting'[k] = {}
    PROVE  \A k \in Server : StableStep(k)
  <1>1. \A k \in Server : SameStable(k)
    BY DEF SameStable
  <1> QED BY <1>1, SameStableSteps

LEMMA ElectionStable ==
    ASSUME Moved, StableInv, NEW n \in Server, NEW Q \in SUBSET (Server \ {n}), RunElection(n, Q)
    PROVE  \A k \in Server : StableStep(k)
  <1>1. /\ UNCHANGED <<log, stable, candidates, published, waiting>> /\ role[n] = "Secondary"
        /\ role' = [role EXCEPT ![n] = IF IsMajority(Q \cup {n}) THEN "LeaderElect" ELSE @]
    BY DEF RunElection, commitVars, stableVars
  <1>2. \A k \in Server \ {n} : role'[k] = role[k]
    BY <1>1 DEF Moved, Moves, TypeInv, ElectionType
  <1>3. \A k \in Server : /\ role[k] = "Truncated" => role'[k] = "Truncated"
                          /\ isPrimary(k) => isPrimary(k)'
    BY <1>1, <1>2 DEF isPrimary, Leading
  <1> QED BY <1>1, <1>3, IdleStable

LEMMA StepDownStable ==
    ASSUME Moved, StableInv, NEW n \in Server, FinishStepDown(n)
    PROVE  \A k \in Server : StableStep(k)
  <1>1. /\ UNCHANGED <<log, stable, candidates, published>> /\ isPrimary(n)
        /\ role' = [role EXCEPT ![n] = "Secondary"] /\ waiting' = [waiting EXCEPT ![n] = {}]
    BY DEF FinishStepDown, oplogVars
  <1>2. /\ \A k \in Server \ {n} : role'[k] = role[k] /\ waiting'[k] = waiting[k]
        /\ role'[n] = "Secondary" /\ waiting'[n] = {}
    BY <1>1 DEF Moved, Moves, TypeInv, ElectionType, StableType
  <1>3. role[n] # "Truncated" /\ ~isPrimary(n)'
    BY <1>1, <1>2 DEF isPrimary, Leading
  <1>4. \A k \in Server \ {n} : isPrimary(k)' <=> isPrimary(k)
    BY <1>2 DEF isPrimary
  <1> QED BY <1>1, <1>2, <1>3, <1>4, IdleStable

LEMMA RollbackStable ==
    ASSUME Moved, StableInv, NEW n \in Server,
           AbandonRollback(n) \/ \E m \in Server : EnterRollback(n, m)
    PROVE  \A k \in Server : StableStep(k)
  <1>1. /\ UNCHANGED <<log, stable, candidates, published, waiting>>
        /\ role[n] \in {"Secondary", "Rollback"}
        /\ role' = [role EXCEPT ![n] = "Secondary"] \/ role' = [role EXCEPT ![n] = "Rollback"]
    BY DEF AbandonRollback, EnterRollback, oplogVars, commitVars, stableVars
  <1>2. \A k \in Server \ {n} : role'[k] = role[k]
    BY <1>1 DEF Moved, Moves, TypeInv, ElectionType
  <1>3. \A k \in Server : /\ role[k] = "Truncated" => role'[k] = "Truncated"
                          /\ isPrimary(k) => isPrimary(k)'
    BY <1>1, <1>2 DEF isPrimary, Leading
  <1> QED BY <1>1, <1>3, IdleStable

LEMMA TermStable ==
    ASSUME Moved, StableInv, NEW n \in Server, NEW t \in 0..MaxTerm, updateTerm(n, t),
           UNCHANGED <<log, commitVars>>
    PROVE  \A k \in Server : StableStep(k)
  <1>1. /\ \A k \in Server \ {n} : role'[k] = role[k]
        /\ isPrimary(n)' <=> isPrimary(n)
        /\ (role'[n] \in RollingBack \/ role[n] \in RollingBack) => role'[n] = role[n]
    BY UpdateTermFacts DEF Moved, Moves
  <1>2. \A k \in Server : /\ role[k] = "Truncated" => role'[k] = "Truncated"
                          /\ isPrimary(k) => isPrimary(k)'
    BY <1>1 DEF isPrimary, RollingBack
  <1> QED BY <1>2, IdleStable DEF commitVars, stableVars

\* n starts again, from its last checkpoint; nothing happens to the others.
Restarts(n) ==
    /\ published' = published /\ StableOf(n)'
    /\ StartsWith(log[n], log'[n])
    /\ stable'[n] = stable[n] \/ stable'[n] = Null
    /\ ~isPrimary(n)'
    /\ \A k \in Server \ {n} : /\ StableStep(k)
                               /\ log'[k] = log[k] /\ stable'[k] = stable[k]
                               /\ waiting'[k] = waiting[k]

LEMMA RestartStable ==
    ASSUME Moved, CommitInv, StableInv, NEW n \in Server, Restart(n)
    PROVE  Restarts(n)
  <1>0. /\ TypeInv /\ log \in [Server -> Seq(Terms)] /\ stable \in [Server -> OpTimes]
        /\ candidates \in [Server -> SUBSET OpTimes] /\ waiting \in [Server -> SUBSET OpTimes]
        /\ role \in [Server -> Roles] /\ Null \in published /\ StableOf(n)
    BY DEF Moved, Moves, TypeInv, StableType, LogType, ElectionType, CommitInv, StableInv
  <1>1. PICK len \in DurableLen(n) .. Len(log[n]) :
          /\ log' = [log EXCEPT ![n] = Cut(n, len)]
          /\ candidates' = [candidates EXCEPT ![n] = {Top(Cut(n, len))}]
          /\ stable' = [stable EXCEPT ![n] = IF stable[n].i <= len THEN stable[n] ELSE Null]
    BY DEF Restart, DurableLen, Cut
  <1>2. len \in 0..Len(log[n])
    <2>1. DurableLen(n) \in Nat /\ Len(log[n]) \in Nat
      BY <1>0, RoleFacts
    <2> QED BY <2>1
  <1>3. /\ role' = [role EXCEPT ![n] = "Secondary"] /\ waiting' = [waiting EXCEPT ![n] = {}]
        /\ published' = published
    BY DEF Restart
  <1>4. \A k \in Server \ {n} :
            /\ log'[k] = log[k] /\ stable'[k] = stable[k] /\ candidates'[k] = candidates[k]
            /\ role'[k] = role[k] /\ waiting'[k] = waiting[k]
    BY <1>0, <1>1, <1>3
  <1>5. \A k \in Server \ {n} : StableStep(k)
    <2>1. \A k \in Server \ {n} : SameStable(k)
      BY <1>4 DEF SameStable, isPrimary
    <2> QED BY <1>3, <2>1, SameStableSteps
  <1>6. /\ log'[n] = Cut(n, len) /\ candidates'[n] = {Top(log'[n])} /\ waiting'[n] = {}
        /\ stable'[n] = IF stable[n].i <= len THEN stable[n] ELSE Null
    BY <1>0, <1>1, <1>3
  <1>7. role'[n] = "Secondary" /\ ~isPrimary(n)'
    BY <1>0, <1>3 DEF isPrimary, Leading
  <1>8. StartsWith(log[n], log'[n])
    BY <1>0, <1>2, <1>6, CutFacts
  <1>9. stable[n] \in OpTimes /\ HasFacts' /\ HasFacts
    BY StableTypes
  <1>10. Has(log'[n], stable'[n])
    <2>1. Has(log'[n], Null)
      BY <1>9, OpTimeFacts DEF HasFacts
    <2>2. CASE stable[n].i <= len /\ stable[n] # Null
      <3> SUFFICES ASSUME NEW s \in OpTimes, s = stable[n], s.i <= len, s # Null
                   PROVE  Has(log'[n], s)
        BY <1>6, <1>9, <2>2
      <3>1. Holds(n, s)
        BY <1>0, <1>9 DEF StableOf, HasFacts
      <3>2. Holds(n, s)'
        BY <1>0, <1>2, <1>6, <3>1, CutFacts DEF Holds
      <3> QED BY <1>9, <3>2 DEF HasFacts
    <2> QED BY <1>6, <2>1, <2>2
  <1>11. Committed(stable[n])'
    <2>1. \A e : Committed(e) => Committed(e)'
      BY CommittedKept DEF Moved
    <2> SUFFICES ASSUME NEW s, s = stable'[n] PROVE Committed(s)'
      BY DEF Committed, Entry, Decided, Under, Holds
    <2>2. CASE s = Null
      BY <2>2 DEF Committed
    <2>3. CASE s # Null
      <3>1. s = stable[n]
        BY <1>6, <2>3
      <3>2. Committed(s)
        BY <1>0, <3>1 DEF StableOf
      <3> QED BY <2>1, <3>2
    <2> QED BY <2>2, <2>3
  <1>12. \E c \in published' : AtMost(stable'[n], c)
    <2>1. CASE stable'[n] = Null
      BY <1>0, <1>3, <2>1 DEF AtMost
    <2>2. CASE stable'[n] = stable[n]
      BY <1>0, <1>3, <2>2 DEF StableOf
    <2> QED BY <1>6, <2>1, <2>2
  <1>13. AtMost(stable[n], Top(log[n]))' /\ Has(log'[n], Top(log'[n]))
    <2>1. stable'[n] \in OpTimes
      BY StableTypes
    <2> SUFFICES ASSUME NEW s \in OpTimes, s = stable'[n]
                 PROVE  AtMost(s, Top(log[n]))' /\ Has(log'[n], Top(log'[n]))
      BY <2>1 DEF AtMost, Before
    <2> QED BY <1>9, <1>10 DEF HasFacts
  <1>14. StableOf(n)'
    BY <1>6, <1>10, <1>11, <1>12, <1>13 DEF StableOf, AtMost, Before
  <1> QED BY <1>3, <1>4, <1>5, <1>6, <1>7, <1>8, <1>14 DEF Restarts

LEMMA NextStable ==
    ASSUME Moved, CommitInv, CommitInv', StableInv, ~LateBatches, ~StaleRollbacks, [Next]_vars
    PROVE  (\A k \in Server : StableStep(k)) \/ (\E n \in Server : Restarts(n))
  <1>1. CASE UNCHANGED vars
    BY <1>1, IdleStable
       DEF vars, electionVars, oplogVars, commitVars, stableVars, isPrimary
  <1>2. CASE Next
    <2>0. \A m \in Server : term[m] \in 0..MaxTerm
      BY DEF Moved, Moves, TypeInv, ElectionType
    <2>1. PICK n \in Server :
            \/ \E Q \in SUBSET (Server \ {n}) : RunElection(n, Q)
            \/ SignalDrainComplete(n) \/ ClientWrite(n)
            \/ FinishStepDown(n)
            \/ UpdateCommitPoint(n) \/ JournalFlush(n)
                \/ \E c \in published : HeartbeatCommitPoint(n, c)
            \/ ProcessBatch(n) \/ \E m \in Server : Sync(n, m)
            \/ TruncateOplog(n)
            \/ FinishRollback(n)
            \/ AbandonRollback(n) \/ \E m \in Server : EnterRollback(n, m)
            \/ Restart(n)
            \/ \E m \in Server : LearnTerm(n, m)
            \/ \E m \in Server : ReportPosition(n, m)
            \/ \E m \in Server : FetchBatch(n, m)
      BY <1>2, Zenon DEF Next
    <2>2. CASE \E Q \in SUBSET (Server \ {n}) : RunElection(n, Q)
      BY <2>2, ElectionStable
    <2>3. CASE SignalDrainComplete(n) \/ ClientWrite(n)
      BY <2>3, ClientCommit, WriteStable
    <2>4. CASE FinishStepDown(n)
      BY <2>4, StepDownStable
    <2>5. CASE UpdateCommitPoint(n) \/ JournalFlush(n)
                \/ \E c \in published : HeartbeatCommitPoint(n, c)
      BY <2>5, CommitPointStable
    <2>6. CASE ProcessBatch(n) \/ \E m \in Server : Sync(n, m)
      BY <2>6, BatchStable
    <2>7. CASE TruncateOplog(n)
      <3>1. source[n] \in Server
        BY <2>7 DEF TruncateOplog, Moved, Moves, AppliedInv, Says
      <3> QED BY <2>7, <3>1, TruncateStable
    <2>8. CASE FinishRollback(n)
      BY <2>8, FinishRollbackStable
    <2>9. CASE AbandonRollback(n) \/ \E m \in Server : EnterRollback(n, m)
      BY <2>9, RollbackStable
    <2>10. CASE Restart(n)
      BY <2>10, RestartStable
    <2>11. CASE \E m \in Server : LearnTerm(n, m)
      BY <2>0, <2>11, TermStable DEF LearnTerm, oplogVars
    <2>12. CASE \E m \in Server : ReportPosition(n, m)
      BY <2>0, <2>12, TermStable DEF ReportPosition
    <2>13. CASE \E m \in Server : FetchBatch(n, m)
      BY <2>13, IdleStable
         DEF FetchBatch, electionVars, oplogVars, commitVars, stableVars, isPrimary
    <2> QED BY <2>1, <2>2, <2>3, <2>4, <2>5, <2>6, <2>7, <2>8, <2>9, <2>10, <2>11, <2>12,
               <2>13
  <1> QED BY <1>1, <1>2

-----------------------------------------------------------------------------
(* The invariant holds. *)

LEMMA InitSafe == Init => SafeInv
  <1> SUFFICES ASSUME Init PROVE SafeInv
    OBVIOUS
  <1>1. \A n \in Server :
            /\ log[n] = <<>> /\ Fetched(n) = <<>> /\ Len(log[n]) = 0 /\ Len(Fetched(n)) = 0
            /\ Top(log[n]) = Null /\ Top(Fetched(n)) = Null
    BY DEF Init, Fetched, Top, OpAt, Null
  <1>2. \A n \in Server :
            /\ role[n] = "Secondary" /\ ~isPrimary(n) /\ role[n] \notin Counting
            /\ lastApplied[n] = Null /\ lastDurable[n] = Null /\ lastVote[n] = 0
            /\ lastCommitted[n] = Null /\ stable[n] = Null /\ candidates[n] = {Null}
            /\ firstOp[n] = Infinity /\ batch[n] = NoBatch /\ waiting[n] = {}
            /\ \A v \in Server : reports[n][v] = Null
    BY DEF Init, isPrimary, Leading, Counting
  <1>3. Null \in OpTimes /\ Null.t = 0 /\ Null.i = 0 /\ AtMost(Null, Null)
    BY OpTimeFacts, OpTimeOrder DEF Null, OpTime
  <1>4. \A n \in Server : \A c : ~Holds(n, c) /\ ~Got(n, c)
    BY <1>1 DEF Holds, Got
  <1>5. \A n \in Server : Has(log[n], Null)
    BY <1>1, <1>3 DEF Has, OpAt, Null, OpTime
  <1>6. ShapeInv
    BY <1>1 DEF ShapeInv, SortedInv, OneBranchInv
  <1>7. AppliedInv
    <2> SUFFICES ASSUME NEW n \in Server PROVE Says(n) /\ Led(lastApplied[n])
      BY DEF AppliedInv
    <2>1. Says(n)
      BY <1>1, <1>2, <1>5 DEF Says
    <2>2. Voted(0) = Server
      <3>1. \A v \in Server : lastVote[v] >= 0
        BY <1>2
      <3> QED BY <3>1 DEF Voted
    <2>3. IsMajority(Server)
      BY ServersAreMajority
    <2> QED BY <1>2, <1>3, <2>1, <2>2, <2>3 DEF Led
  <1>8. ReportInv
    BY <1>2 DEF ReportInv, Heard
  <1>9. FateInv
    BY <1>4 DEF FateInv, Exists
  <1>10. Committed(Null) /\ published = {Null}
    BY DEF Committed, Init
  <1>11. CommitInv
    BY <1>1, <1>2, <1>3, <1>4, <1>10 DEF CommitInv, CommitOf
  <1>12. StableInv
    BY <1>2, <1>3, <1>5, <1>10 DEF StableInv, StableOf
  <1> QED BY <1>6, <1>7, <1>8, <1>9, <1>11, <1>12 DEF SafeInv

LEMMA NextMoved ==
    ASSUME ~LateBatches, ~StaleRollbacks, Inv, Inv', SafeInv, [Next]_vars
    PROVE  Moved /\ ShapeInv'
  <1>1. /\ TypeInv /\ TypeInv' /\ MembersInv /\ MembersInv' /\ LogInv /\ LogInv'
        /\ ShapeInv /\ AppliedInv /\ ReportInv /\ FateInv
    BY DEF Inv, SafeInv
  <1>2. OplogFacts
    BY <1>1, OplogFactsHold
  <1>3. \A k \in Server : Says(k) /\ Heard(k)
    BY <1>1 DEF AppliedInv, ReportInv
  <1>4. (\A k \in Server : MemberStep(k)) \/ (\E p \in Server : Writes(p))
    BY <1>1, <1>2, <1>3, NextSteps
  <1>5. ShapeInv'
    BY <1>1, <1>2, <1>4, CopyingShape, WritingShape
  <1>6. OplogFacts'
    BY <1>1, <1>5, NextOplogFacts
  <1>7. Moves
    BY <1>1, <1>2, <1>4, <1>6 DEF Moves
  <1>8. AppliedInv'
    BY <1>1, <1>2, <1>4, <1>6, NextApplied
  <1>9. ReportInv'
    BY <1>1, <1>2, <1>4, CopyReports, WriteReports
  <1>10. FateInv'
    BY <1>1, <1>2, <1>4, <1>6, CopyFates, WriteFates
  <1>11. CommitFacts
    BY <1>1, <1>2, CommitFactsHold
  <1>12. CommitFacts'
    BY <1>1, <1>6, <1>8, <1>9, <1>10, NextCommitFacts
  <1> QED BY <1>1, <1>5, <1>7, <1>8, <1>9, <1>10, <1>11, <1>12 DEF Moved

LEMMA NextSafe ==
    ASSUME ~LateBatches, ~StaleRollbacks, Inv, Inv', SafeInv, [Next]_vars
    PROVE  /\ SafeInv'
           /\ Moved /\ CommitInv /\ CommitInv' /\ StableInv /\ StableInv'
           /\ (\A k \in Server : StableStep(k)) \/ (\E n \in Server : Restarts(n))
  <1>1. Moved /\ ShapeInv' /\ CommitInv /\ StableInv
    BY NextMoved DEF SafeInv
  <1>2. CommitInv'
    BY <1>1, NextCommit
  <1>3. (\A k \in Server : StableStep(k)) \/ (\E n \in Server : Restarts(n))
    BY <1>1, <1>2, NextStable
  <1>4. StableInv'
    BY <1>3 DEF StableInv, StableStep, Restarts
  <1> QED BY <1>1, <1>2, <1>3, <1>4 DEF SafeInv, Moved

LEMMA SafeInvariance ==
    ASSUME ~LateBatches, ~StaleRollbacks
    PROVE  Spec => [](Inv /\ SafeInv)
  <1>1. Inv /\ Inv' /\ SafeInv /\ [Next]_vars => SafeInv'
    BY NextSafe
  <1> QED BY <1>1, Invariance, InitSafe, PTL DEF Spec

\* What the invariant says of a state.
LEMMA SafeFacts ==
    Inv /\ SafeInv =>
        /\ TypeInv /\ MembersInv /\ LogInv /\ OplogFacts /\ CommitFacts /\ HasFacts
        /\ CommitInv /\ StableInv
  BY OplogFactsHold, CommitFactsHold, HasFactsHold DEF Inv, SafeInv

-----------------------------------------------------------------------------
(* Theorems. *)

(* What any member ever took for its commit point is never lost: whoever lacks it is       *)
(* refused by a majority of the voters, in every later state, unless the fetcher of a new  *)
(* primary handles a batch late or the source of a roll back falls behind (_runRollback).  *)
THEOREM CommittedEntriesSurvive ==
    ASSUME ~LateBatches, ~StaleRollbacks
    PROVE  Spec => []CommittedSurvives
  <1>1. Inv /\ SafeInv => CommittedSurvives
    <2> SUFFICES ASSUME Inv, SafeInv, NEW c \in published PROVE Safe(c)
      BY DEF CommittedSurvives
    <2>1. CommitFacts /\ Committed(c) /\ c \in OpTimes
      BY SafeFacts DEF CommitInv, TypeInv, CommitType
    <2> QED BY <2>1 DEF CommitFacts
  <1> QED BY <1>1, SafeInvariance, PTL

(* What a member has up to its commit point is safe although the commit point may be on    *)
(* another branch, and its stable timestamp is on its oplog, safe, and not after every     *)
(* commit point: roll back via the stable timestamp never goes behind it.                  *)
THEOREM CommitPointsAreOnMyBranch ==
    ASSUME ~LateBatches, ~StaleRollbacks
    PROVE  Spec => []OnMyBranch
  <1>1. Inv /\ SafeInv => OnMyBranch
    <2> SUFFICES ASSUME Inv, SafeInv, NEW n \in Server
                 PROVE  /\ \A i \in DOMAIN log[n] :
                            AtMost(OpAt(log[n], i), lastCommitted[n]) => Safe(OpAt(log[n], i))
                        /\ Has(log[n], stable[n]) /\ Safe(stable[n])
                        /\ \E c \in published : AtMost(stable[n], c)
      BY DEF OnMyBranch
    <2>1. /\ TypeInv /\ CommitFacts /\ CommitOf(n) /\ StableOf(n)
          /\ stable[n] \in OpTimes
      BY SafeFacts DEF CommitInv, StableInv, TypeInv, StableType
    <2>2. Has(log[n], stable[n]) /\ Safe(stable[n]) /\ \E c \in published : AtMost(stable[n], c)
      BY <2>1 DEF StableOf, CommitFacts
    <2>3. ASSUME NEW i \in DOMAIN log[n], AtMost(OpAt(log[n], i), lastCommitted[n])
          PROVE  Safe(OpAt(log[n], i))
      <3>1. log[n] \in Seq(Terms) /\ Len(log[n]) <= MaxLog
        BY <2>1, LogFacts DEF TypeInv
      <3>2. i \in 1..Len(log[n])
        BY <3>1
      <3>3. /\ Entry(OpAt(log[n], i)) /\ OpAt(log[n], i).i = i
            /\ OpAt(log[n], i).t = log[n][i]
        BY <3>1, <3>2, OpAtEntry
      <3> SUFFICES ASSUME NEW e \in OpTimes, Entry(e), e.i = i, e.t = log[n][i],
                          AtMost(e, lastCommitted[n])
                   PROVE  Safe(e)
        BY <2>3, <3>3 DEF Entry
      <3>4. Holds(n, e)
        BY <3>2 DEF Holds
      <3>5. Committed(e)
        BY <2>1, <3>4 DEF CommitOf
      <3> QED BY <2>1, <3>5 DEF CommitFacts
    <2> QED BY <2>2, <2>3
  <1> QED BY <1>1, SafeInvariance, PTL

\* The waiters that are woken on a primary.
LEMMA WokenIsSafe ==
    ASSUME Moved, StableInv', NEW n \in Server, isPrimary(n)', NEW w \in waiting[n],
           Holds(n, w)', AtMost(w, stable'[n]), w # Null
    PROVE  Has(log[n], w)' /\ Safe(w)'
  <1>1. w \in OpTimes /\ stable'[n] \in OpTimes /\ HasFacts' /\ OplogFacts' /\ CommitFacts'
    BY StableTypes DEF Moved, Moves
  <1> SUFFICES ASSUME NEW s \in OpTimes, s = stable'[n], AtMost(w, s)
               PROVE  Has(log[n], w)' /\ Safe(w)'
    BY <1>1
  <1>2. Has(log[n], w)'
    BY <1>1 DEF HasFacts
  <1>3. s # Null
    BY <1>1, OpTimeOrder, OpTimeFacts
  <1>4. StableOf(n)'
    BY DEF StableInv
  <1>5. Has(log'[n], s) /\ Committed(s)'
    <2>1. Has(log'[n], s)
      BY <1>4 DEF StableOf
    <2>2. Committed(stable[n])'
      BY <1>4 DEF StableOf
    <2> QED BY <2>1, <2>2 DEF Committed, Entry, Decided, Under, Holds, Durable, Fate
  <1>6. Holds(n, s)'
    BY <1>1, <1>3, <1>5 DEF HasFacts
  <1>7. Got(n, s)' /\ Got(n, w)'
    BY <1>1, <1>3, <1>6 DEF OplogFacts
  <1>8. w.i <= s.i
    BY <1>1, <1>3, <1>7 DEF OplogFacts, AtMost, Before
  <1>9. Committed(w)'
    BY <1>1, <1>3, <1>5, <1>6, <1>8 DEF CommitFacts
  <1> QED BY <1>1, <1>2, <1>9 DEF CommitFacts

(* A client that is told its write is majority committed is told the truth: the write is   *)
(* on the oplog of the primary that wakes the waiter, and no member that lacks it can be   *)
(* elected.                                                                                *)
THEOREM AcknowledgedWritesAreSafe ==
    ASSUME ~LateBatches, ~StaleRollbacks
    PROVE  Spec => AcknowledgedIsSafe
  <1> DEFINE A == \A n \in Server : isPrimary(n)' =>
                    \A w \in waiting[n] \ waiting'[n] : Has(log[n], w)' /\ Safe(w)'
  <1>1. ASSUME Inv, Inv', SafeInv, [Next]_vars PROVE A
    <2> SUFFICES ASSUME NEW n \in Server, isPrimary(n)', NEW w \in waiting[n], w \notin waiting'[n]
                 PROVE  Has(log[n], w)' /\ Safe(w)'
      OBVIOUS
    <2>1. /\ Moved /\ StableInv /\ StableInv'
          /\ (\A k \in Server : StableStep(k)) \/ (\E m \in Server : Restarts(m))
      BY <1>1, NextSafe
    <2>2. StableStep(n)
      BY <2>1 DEF Restarts
    <2>3. Holds(n, w)' /\ AtMost(w, stable'[n])
      BY <2>2 DEF StableStep
    <2>4. w # Null
      <3>1. w.i # 0
        BY <2>3, LogTypes, <2>1 DEF Holds
      <3> QED BY <3>1 DEF Null, OpTime
    <2> QED BY <2>1, <2>3, <2>4, WokenIsSafe
  <1>2. Inv /\ Inv' /\ SafeInv /\ [Next]_vars => [A]_vars
    BY <1>1
  <1> QED BY <1>2, SafeInvariance, PTL DEF Spec, AcknowledgedIsSafe

-----------------------------------------------------------------------------
(* The history of committed entries. *)

LastCommit == Latest(published)

\* Members that have an entry have the same up to it.
MatchFacts ==
    \A m, n \in Server, c \in OpTimes :
        c # Null /\ Holds(m, c) /\ Holds(n, c) => \A j \in 1..c.i : log[m][j] = log[n][j]

LEMMA MatchFactsHold == TypeInv /\ MembersInv /\ LogInv => MatchFacts
  <1> SUFFICES ASSUME TypeInv, MembersInv, LogInv, NEW m \in Server, NEW n \in Server,
                      NEW c \in OpTimes, Holds(m, c), Holds(n, c), NEW j \in 1..c.i
               PROVE  log[m][j] = log[n][j]
    BY DEF MatchFacts
  <1>1. \A k \in Server : /\ Len(log[k]) \in Nat /\ Len(Fetched(k)) \in Nat
                          /\ StartsWith(Fetched(k), log[k])
    BY ViewsHold DEF OplogViews, OplogView
  <1>2. /\ c.i \in 1..Len(log[m]) /\ c.i \in 1..Len(log[n]) /\ log[m][c.i] = log[n][c.i]
        /\ c.i \in Nat
    BY <1>1 DEF Holds
  <1>3. j \in 1..Len(log[m]) /\ j \in 1..Len(log[n])
    BY <1>1, <1>2
  <1>4. /\ c.i \in 1..Len(Fetched(m)) /\ Fetched(m)[c.i] = log[m][c.i]
        /\ Fetched(m)[j] = log[m][j]
    BY <1>1, <1>2, <1>3, StartsAt
  <1>5. /\ c.i <= Len(Fetched(n)) /\ Fetched(n)[c.i] = log[n][c.i]
        /\ Fetched(n)[j] = log[n][j]
    BY <1>1, <1>2, <1>3, StartsAt
  <1>6. Fetched(m)[j] = Fetched(n)[j]
    BY <1>2, <1>4, <1>5 DEF LogInv, MatchInv
  <1> QED BY <1>4, <1>5, <1>6

\* The history is what any member has up to the last commit point, if it has it; and the
\* snapshot of a member is what it has up to its stable timestamp.
HistoryFacts ==
    /\ LastCommit \in published /\ LastCommit \in OpTimes /\ Committed(LastCommit)
    /\ \A d \in published : AtMost(d, LastCommit)
    /\ history \in Seq(Terms) /\ Len(history) = LastCommit.i
    /\ \A n \in Server : LastCommit # Null /\ Holds(n, LastCommit) =>
        \A j \in 1..LastCommit.i : history[j] = log[n][j]
    /\ DOMAIN snapshot = Server
    /\ \A n \in Server :
        /\ snapshot[n] \in Seq(Terms) /\ Len(snapshot[n]) = stable[n].i
        /\ stable[n].i <= LastCommit.i /\ stable[n].i <= Len(log[n])
        /\ \A j \in 1..stable[n].i : snapshot[n][j] = log[n][j] /\ history[j] = log[n][j]

LEMMA HistoryFactsHold == Inv /\ SafeInv => HistoryFacts
  <1> SUFFICES ASSUME Inv, SafeInv PROVE HistoryFacts
    OBVIOUS
  <1>0. /\ TypeInv /\ MembersInv /\ LogInv /\ OplogFacts /\ CommitFacts /\ HasFacts
        /\ CommitInv /\ StableInv
    BY SafeFacts
  <1>1. published \subseteq OpTimes /\ Null \in published
    BY <1>0 DEF TypeInv, CommitType, CommitInv
  <1>2. /\ LastCommit \in published /\ LastCommit \in OpTimes
        /\ \A d \in published : AtMost(d, LastCommit)
    BY <1>1, LatestFacts DEF LastCommit
  <1> SUFFICES ASSUME NEW c \in published, c \in OpTimes, c = LastCommit,
                      \A d \in published : AtMost(d, c)
               PROVE  HistoryFacts
    BY <1>2
  <1>3. Committed(c) /\ c.i \in Nat
    BY <1>0, OpTimeFacts DEF CommitInv
  <1>4. \A n \in Server : log[n] \in Seq(Terms) /\ Len(log[n]) \in Nat
    BY <1>0, LogFacts DEF TypeInv
  <1>5. MatchFacts
    BY <1>0, MatchFactsHold
  <1>6. \A n \in Server : Has(log[n], c) => c.i \in 0..Len(log[n])
    BY <1>0, <1>3, <1>4 DEF HasFacts
  <1>7. c # Null => \A n \in Server : Has(log[n], c) <=> Holds(n, c)
    BY <1>0 DEF HasFacts
  <1>8. c # Null => \E v \in Server : Holds(v, c)
    BY <1>0, <1>3 DEF CommitFacts
  <1>9. /\ history \in Seq(Terms) /\ Len(history) = c.i
        /\ c # Null => \E v \in Server : Holds(v, c) /\ \A j \in 1..c.i : history[j] = log[v][j]
    <2>1. CASE \E n \in Server : Has(log[n], c)
      <3> DEFINE v == CHOOSE n \in Server : Has(log[n], c)
      <3>1. v \in Server /\ Has(log[v], c)
        BY <2>1
      <3>2. history = SubSeq(log[v], 1, c.i)
        BY <2>1 DEF history, LastCommit
      <3> HIDE DEF v
      <3>3. c.i \in 0..Len(log[v]) /\ log[v] \in Seq(Terms)
        BY <1>4, <1>6, <3>1
      <3> QED BY <1>7, <3>1, <3>2, <3>3, PrefixOf
    <2>2. CASE ~\E n \in Server : Has(log[n], c)
      <3>1. c = Null /\ history = <<>>
        BY <1>7, <1>8, <2>2 DEF history, LastCommit
      <3> QED BY <3>1 DEF Null, OpTime
    <2> QED BY <2>1, <2>2
  <1>10. ASSUME NEW n \in Server, c # Null, Holds(n, c), NEW j \in 1..c.i
         PROVE  history[j] = log[n][j]
    <2>1. PICK v \in Server : Holds(v, c) /\ \A i \in 1..c.i : history[i] = log[v][i]
      BY <1>9, <1>10
    <2> QED BY <1>5, <1>10, <2>1 DEF MatchFacts
  <1>11. ASSUME NEW n \in Server
         PROVE  /\ snapshot[n] \in Seq(Terms) /\ Len(snapshot[n]) = stable[n].i
                /\ stable[n].i <= c.i /\ stable[n].i <= Len(log[n])
                /\ \A j \in 1..stable[n].i :
                    snapshot[n][j] = log[n][j] /\ history[j] = log[n][j]
    <2>1. StableOf(n) /\ stable[n] \in OpTimes
      BY <1>0 DEF StableInv, TypeInv, StableType
    <2>2. snapshot[n] = SubSeq(log[n], 1, stable[n].i)
      BY DEF snapshot
    <2> SUFFICES ASSUME NEW s \in OpTimes, s = stable[n]
                 PROVE  /\ snapshot[n] \in Seq(Terms) /\ Len(snapshot[n]) = s.i
                        /\ s.i <= c.i /\ s.i <= Len(log[n])
                        /\ \A j \in 1..s.i : snapshot[n][j] = log[n][j] /\ history[j] = log[n][j]
      BY <2>1
    <2>3. Has(log[n], s) /\ Committed(s) /\ AtMost(s, c)
      <3>1. PICK d \in published : AtMost(s, d)
        BY <2>1 DEF StableOf
      <3>2. d \in OpTimes /\ AtMost(d, c)
        BY <1>1
      <3>3. AtMost(s, c)
        BY <3>1, <3>2, OpTimeOrder
      <3> QED BY <2>1, <3>3 DEF StableOf
    <2>4. s.i \in Nat /\ s.i <= Len(log[n])
      BY <1>0, <2>3, OpTimeFacts DEF HasFacts
    <2>5. s.i \in 0..Len(log[n])
      BY <1>4, <2>4
    <2>6. /\ snapshot[n] \in Seq(Terms) /\ Len(snapshot[n]) = s.i
          /\ \A j \in 1..s.i : snapshot[n][j] = log[n][j]
      BY <1>4, <2>2, <2>5, PrefixOf
    <2>7. CASE s = Null
      <3>1. s.i = 0
        BY <2>7 DEF Null, OpTime
      <3> QED BY <1>3, <2>4, <2>6, <3>1
    <2>8. CASE s # Null
      <3>1. c # Null
        BY <2>3, <2>8, OpTimeOrder, OpTimeFacts
      <3>2. PICK v \in Server : Holds(v, s) /\ Holds(v, c)
        BY <1>0, <1>3, <2>3, <2>8, <3>1 DEF CommitFacts
      <3>3. Got(v, s) /\ Got(v, c)
        BY <1>0, <2>8, <3>1, <3>2 DEF OplogFacts
      <3>4. s.i <= c.i
        BY <1>0, <2>3, <2>8, <3>1, <3>3 DEF OplogFacts
      <3>5. Holds(n, s)
        BY <1>0, <2>3, <2>8 DEF HasFacts
      <3>6. \A j \in 1..s.i : j \in 1..c.i /\ log[n][j] = log[v][j]
        BY <1>3, <1>5, <2>4, <2>8, <3>2, <3>4, <3>5 DEF MatchFacts
      <3>7. \A j \in 1..s.i : history[j] = log[n][j]
        BY <1>10, <3>1, <3>2, <3>6
      <3> QED BY <2>4, <2>6, <3>4, <3>7
    <2> QED BY <2>7, <2>8
  <1>12. DOMAIN snapshot = Server
    BY DEF snapshot
  <1> QED BY <1>2, <1>3, <1>9, <1>10, <1>11, <1>12 DEF HistoryFacts

LEMMA NextHistoryFacts == Inv' /\ SafeInv' => HistoryFacts' /\ MatchFacts'
  <1>1. Inv /\ SafeInv => HistoryFacts /\ MatchFacts
    BY HistoryFactsHold, MatchFactsHold, SafeFacts
  <1> QED BY <1>1, PTL

\* Entry by entry.
LEMMA PrefixMeans ==
    ASSUME NEW s \in Seq(Terms), NEW t \in Seq(Terms), Len(s) <= Len(t),
           \A j \in 1..Len(s) : s[j] = t[j]
    PROVE  Promise!IsPrefix(s, t)
  <1>1. Len(s) \in Nat /\ Len(t) \in Nat /\ Len(s) \in 0..Len(t)
    BY LenProperties
  <1> DEFINE u == SubSeq(t, 1, Len(s))
  <1>2. u \in Seq(Terms) /\ Len(u) = Len(s) /\ \A j \in 1..Len(s) : u[j] = t[j]
    BY <1>1, PrefixOf
  <1> HIDE DEF u
  <1>3. s = u
    BY <1>2, SeqEqual
  <1> QED BY <1>3 DEF Promise!IsPrefix, u

\* As far as an oplog stays as long as it was, its entries stay.
LEMMA SameEntries ==
    ASSUME Moved, NEW k \in Server, NEW j \in Nat, j >= 1, j <= Len(log[k]), j <= Len(log'[k])
    PROVE  log'[k][j] = log[k][j]
  <1>1. Len(log[k]) \in Nat /\ Len(log'[k]) \in Nat
    BY LogTypes
  <1>2. j \in 1..Len(log[k]) /\ j \in 1..Len(log'[k])
    BY <1>1
  <1>3. StartsWith(log'[k], log[k]) \/ StartsWith(log[k], log'[k])
    <2>1. CASE \A i \in Server : MemberStep(i)
      BY <2>1 DEF MemberStep
    <2>2. CASE \E p \in Server : Writes(p)
      <3>1. PICK p \in Server : Writes(p)
        BY <2>2
      <3>2. CASE k = p
        <4>1. log[k] \in Seq(Terms) /\ log'[k] = Append(log[k], term[k])
          BY <3>1, <3>2, LogFacts DEF Moved, Moves, TypeInv, Writes
        <4> QED BY <4>1 DEF StartsWith
      <3>3. CASE k # p
        <4>1. log'[k] = log[k]
          BY <3>1, <3>3 DEF Writes, OnlyMember, SameMember
        <4> QED BY <1>1, <4>1, StartsWithItself
      <3> QED BY <3>2, <3>3
    <2> QED BY <2>1, <2>2 DEF Moved, Moves
  <1> QED BY <1>1, <1>2, <1>3, StartsAt

\* The history only grows, and grows only when a later commit point is published.
LEMMA HistoryGrows ==
    ASSUME Moved, HistoryFacts, HistoryFacts', MatchFacts', published \subseteq published'
    PROVE  /\ Promise!IsPrefix(history, history')
           /\ published' = published => history' = history
  <1>1. /\ LastCommit \in OpTimes /\ LastCommit' \in OpTimes
        /\ LastCommit \in published /\ LastCommit' \in published'
        /\ Committed(LastCommit) /\ \A d \in published' : AtMost(d, LastCommit)'
        /\ history \in Seq(Terms) /\ Len(history) = LastCommit.i
        /\ history' \in Seq(Terms) /\ Len(history') = LastCommit'.i
    BY DEF HistoryFacts
  <1> SUFFICES ASSUME NEW c \in OpTimes, c = LastCommit, NEW d \in OpTimes, d = LastCommit',
                      Committed(c), AtMost(c, d)
               PROVE  /\ Promise!IsPrefix(history, history')
                      /\ published' = published => history' = history
    BY <1>1 DEF AtMost, Before
  <1>2. c.i \in Nat /\ d.i \in Nat
    BY OpTimeFacts
  <1>3. published' = published => c = d
    BY DEF LastCommit
  <1>4. CASE c = Null
    <2>1. Len(history) = 0
      BY <1>1, <1>4 DEF Null, OpTime
    <2>2. Promise!IsPrefix(history, history')
      <3>1. Len(history) <= Len(history') /\ \A j \in 1..Len(history) : history[j] = history'[j]
        BY <1>1, <1>2, <2>1
      <3> QED BY <1>1, <3>1, PrefixMeans
    <2>3. c = d => history' = history
      <3>1. ASSUME c = d PROVE Len(history') = 0
        BY <1>1, <2>1, <3>1
      <3> QED BY <1>1, <2>1, <3>1, SeqEqual
    <2> QED BY <1>3, <2>2, <2>3
  <1>5. CASE c # Null
    <2>1. Committed(c)' /\ \E v \in Server : Holds(v, c) /\ Holds(v, c)'
      BY <1>5, CommittedKept DEF Moved
    <2>2. PICK v \in Server : Holds(v, c) /\ Holds(v, c)'
      BY <2>1
    <2>3. d # Null
      BY <1>5, OpTimeOrder, OpTimeFacts
    <2>4. Committed(d)'
      <3>1. Committed(LastCommit)'
        BY DEF HistoryFacts
      <3> QED BY <3>1 DEF Committed, Entry, Decided, Under, Holds, Durable, Fate
    <2>5. PICK u \in Server : Holds(u, c)' /\ Holds(u, d)'
      BY <1>5, <2>1, <2>3, <2>4 DEF Moved, CommitFacts
    <2>6. c.i <= d.i
      <3>1. OplogFacts' /\ AtMost(c, d)'
        BY DEF Moved, Moves, AtMost, Before
      <3>2. Got(u, c)' /\ Got(u, d)'
        BY <1>5, <2>3, <2>5, <3>1 DEF OplogFacts
      <3> QED BY <1>5, <2>3, <3>1, <3>2 DEF OplogFacts
    <2>7. ASSUME NEW j \in 1..c.i PROVE history[j] = history'[j]
      <3>1. j \in Nat /\ j >= 1 /\ j <= c.i /\ j \in 1..d.i
        BY <1>2, <2>6
      <3>2. history[j] = log[v][j]
        BY <1>5, <2>2 DEF HistoryFacts
      <3>3. log'[v][j] = log[v][j]
        <4>1. Len(log[v]) \in Nat /\ Len(log'[v]) \in Nat
          BY LogTypes
        <4>2. c.i \in 1..Len(log[v]) /\ c.i \in 1..Len(log'[v])
          BY <2>2 DEF Holds
        <4>3. j <= Len(log[v]) /\ j <= Len(log'[v])
          BY <1>2, <3>1, <4>1, <4>2
        <4> QED BY <3>1, <4>3, SameEntries
      <3>4. log'[v][j] = log'[u][j]
        BY <1>5, <2>2, <2>5 DEF MatchFacts
      <3>5. history'[j] = log'[u][j]
        <4>1. LastCommit' # Null /\ Holds(u, LastCommit)'
          BY <2>3, <2>5 DEF Holds
        <4> QED BY <3>1, <4>1 DEF HistoryFacts
      <3> QED BY <3>2, <3>3, <3>4, <3>5
    <2>8. Promise!IsPrefix(history, history')
      BY <1>1, <2>6, <2>7, PrefixMeans
    <2>9. c = d => history' = history
      <3>1. ASSUME c = d PROVE Len(history') = Len(history)
        BY <1>1, <3>1
      <3> QED BY <1>1, <2>7, <3>1, SeqEqual
    <2> QED BY <1>3, <2>8, <2>9
  <1> QED BY <1>4, <1>5

LEMMA SnapshotGrows ==
    ASSUME Moved, HistoryFacts, HistoryFacts', NEW k \in Server, StableStep(k)
    PROVE  Promise!IsPrefix(snapshot[k], snapshot'[k])
  <1>1. /\ snapshot[k] \in Seq(Terms) /\ Len(snapshot[k]) = stable[k].i
        /\ stable[k].i <= Len(log[k])
        /\ \A j \in 1..stable[k].i : snapshot[k][j] = log[k][j]
    BY DEF HistoryFacts
  <1>2. /\ snapshot'[k] \in Seq(Terms) /\ Len(snapshot'[k]) = stable'[k].i
        /\ \A j \in 1..stable'[k].i : snapshot'[k][j] = log'[k][j]
    BY DEF HistoryFacts
  <1>3. /\ stable[k] \in OpTimes /\ stable'[k] \in OpTimes /\ HasFacts' /\ OplogFacts'
    BY StableTypes DEF Moved, Moves
  <1>4. /\ Has(log'[k], stable[k]) /\ Has(log'[k], stable'[k]) /\ AtMost(stable[k], stable'[k])
    <2>1. Has(log[k], stable[k])'
      BY DEF StableStep, StableOf
    <2> QED BY <2>1 DEF StableStep
  <1> SUFFICES ASSUME NEW s \in OpTimes, s = stable[k], NEW t \in OpTimes, t = stable'[k],
                      Has(log'[k], s), Has(log'[k], t), AtMost(s, t)
               PROVE  Promise!IsPrefix(snapshot[k], snapshot'[k])
    BY <1>3, <1>4
  <1>5. s.i \in Nat /\ t.i \in Nat
    BY OpTimeFacts
  <1>6. s.i <= t.i
    <2>1. CASE s = Null
      BY <1>5, <2>1 DEF Null, OpTime
    <2>2. CASE s # Null
      <3>1. t # Null /\ AtMost(s, t)'
        BY <2>2, OpTimeOrder, OpTimeFacts DEF AtMost, Before
      <3>2. Holds(k, s)' /\ Holds(k, t)'
        BY <1>3, <2>2, <3>1 DEF HasFacts
      <3>3. Got(k, s)' /\ Got(k, t)'
        BY <1>3, <2>2, <3>1, <3>2 DEF OplogFacts
      <3> QED BY <1>3, <2>2, <3>1, <3>3 DEF OplogFacts
    <2> QED BY <2>1, <2>2
  <1>7. ASSUME NEW j \in 1..s.i PROVE snapshot[k][j] = snapshot'[k][j]
    <2>1. j \in Nat /\ j >= 1 /\ j <= s.i /\ j \in 1..t.i
      BY <1>5, <1>6
    <2>2. Len(log[k]) \in Nat /\ Len(log'[k]) \in Nat
      BY LogTypes
    <2>3. s.i <= Len(log'[k])
      BY DEF Has
    <2>4. j <= Len(log[k]) /\ j <= Len(log'[k])
      BY <1>1, <1>5, <2>1, <2>2, <2>3
    <2>5. log'[k][j] = log[k][j]
      BY <2>1, <2>4, SameEntries
    <2> QED BY <1>1, <1>2, <2>1, <2>5
  <1> QED BY <1>1, <1>2, <1>6, <1>7, PrefixMeans

LEMMA SnapshotRestarts ==
    ASSUME Moved, HistoryFacts, HistoryFacts', NEW n \in Server, Restarts(n)
    PROVE  /\ Promise!IsPrefix(snapshot'[n], snapshot[n])
           /\ \A m \in Server : m # n => snapshot'[m] = snapshot[m]
  <1>1. /\ snapshot[n] \in Seq(Terms) /\ Len(snapshot[n]) = stable[n].i
        /\ stable[n].i <= Len(log[n])
        /\ \A j \in 1..stable[n].i : snapshot[n][j] = log[n][j]
    BY DEF HistoryFacts
  <1>2. /\ snapshot'[n] \in Seq(Terms) /\ Len(snapshot'[n]) = stable'[n].i
        /\ stable'[n].i <= Len(log'[n])
        /\ \A j \in 1..stable'[n].i : snapshot'[n][j] = log'[n][j]
    BY DEF HistoryFacts
  <1>3. stable[n] \in OpTimes /\ stable'[n] \in OpTimes
    BY StableTypes
  <1>4. stable[n].i \in Nat /\ stable'[n].i \in Nat /\ Null.i = 0
    BY <1>3, OpTimeFacts DEF Null, OpTime
  <1>5. stable'[n].i <= stable[n].i
    BY <1>4 DEF Restarts
  <1>6. ASSUME NEW j \in 1..stable'[n].i PROVE snapshot'[n][j] = snapshot[n][j]
    <2>1. j \in Nat /\ j >= 1 /\ j \in 1..stable[n].i
      BY <1>4, <1>5
    <2>2. Len(log[n]) \in Nat /\ Len(log'[n]) \in Nat
      BY LogTypes
    <2>3. j <= Len(log[n]) /\ j <= Len(log'[n])
      BY <1>1, <1>2, <1>4, <2>1, <2>2
    <2>4. log'[n][j] = log[n][j]
      BY <2>1, <2>3, SameEntries
    <2> QED BY <1>1, <1>2, <2>1, <2>4
  <1>7. Promise!IsPrefix(snapshot'[n], snapshot[n])
    BY <1>1, <1>2, <1>5, <1>6, PrefixMeans
  <1>8. \A m \in Server : m # n => snapshot'[m] = snapshot[m]
    BY DEF Restarts, snapshot
  <1> QED BY <1>7, <1>8

\* Every snapshot is part of the history.
LEMMA SnapshotInHistory ==
    HistoryFacts => \A k \in Server : Promise!IsPrefix(snapshot[k], history)
  <1> SUFFICES ASSUME HistoryFacts, NEW k \in Server
               PROVE  Promise!IsPrefix(snapshot[k], history)
    OBVIOUS
  <1>1. /\ snapshot[k] \in Seq(Terms) /\ history \in Seq(Terms)
        /\ Len(snapshot[k]) = stable[k].i /\ Len(history) = LastCommit.i
        /\ stable[k].i <= LastCommit.i
        /\ \A j \in 1..stable[k].i : snapshot[k][j] = history[j]
    BY DEF HistoryFacts
  <1>2. Len(snapshot[k]) <= Len(history) /\ \A j \in 1..Len(snapshot[k]) : snapshot[k][j] = history[j]
    BY <1>1
  <1> QED BY <1>1, <1>2, PrefixMeans

LEMMA NextSnapshotInHistory ==
    HistoryFacts' => \A k \in Server : Promise!IsPrefix(snapshot'[k], history')
  <1>1. HistoryFacts' => (\A k \in Server : Promise!IsPrefix(snapshot[k], history))'
    BY SnapshotInHistory, PTL
  <1> QED BY <1>1 DEF Promise!IsPrefix

LEMMA PromiseStep ==
    ASSUME ~LateBatches, ~StaleRollbacks, Inv, Inv', SafeInv, [Next]_vars
    PROVE  Promise!Next
  <1>1. /\ Moved /\ SafeInv'
        /\ (\A k \in Server : StableStep(k)) \/ (\E n \in Server : Restarts(n))
    BY NextSafe
  <1>2. HistoryFacts /\ HistoryFacts' /\ MatchFacts'
    BY <1>1, HistoryFactsHold, NextHistoryFacts
  <1>3. \A k \in Server : Promise!IsPrefix(snapshot'[k], history')
    BY <1>2, NextSnapshotInHistory
  <1>4. published \subseteq published'
    <2>1. CASE UNCHANGED vars
      BY <2>1 DEF vars, commitVars
    <2>2. CASE Next
      <3>1. PICK n \in Server :
              \/ \E Q \in SUBSET (Server \ {n}) : RunElection(n, Q)
              \/ SignalDrainComplete(n) \/ ClientWrite(n) \/ FinishStepDown(n)
              \/ JournalFlush(n) \/ UpdateCommitPoint(n)
                  \/ \E c \in published : HeartbeatCommitPoint(n, c)
              \/ ProcessBatch(n) \/ \E m \in Server : Sync(n, m)
              \/ TruncateOplog(n) \/ FinishRollback(n) \/ AbandonRollback(n) \/ Restart(n)
              \/ \E m \in Server : \/ LearnTerm(n, m) \/ ReportPosition(n, m)
                                   \/ FetchBatch(n, m) \/ EnterRollback(n, m)
        BY <2>2, Zenon DEF Next
      <3>2. CASE \E Q \in SUBSET (Server \ {n}) : RunElection(n, Q)
        BY <3>2 DEF RunElection, commitVars
      <3>3. CASE SignalDrainComplete(n) \/ ClientWrite(n) \/ FinishStepDown(n)
        BY <3>3 DEF SignalDrainComplete, ClientWrite, write, FinishStepDown
      <3>4. CASE JournalFlush(n) \/ UpdateCommitPoint(n)
                  \/ \E c \in published : HeartbeatCommitPoint(n, c)
        <4>1. \E c : advanceCommitPoint(n, c)
          BY <3>4, Zenon
             DEF JournalFlush, UpdateCommitPoint, updateLastCommitted, HeartbeatCommitPoint
        <4> QED BY <4>1 DEF advanceCommitPoint
      <3>5. CASE ProcessBatch(n) \/ \E m \in Server : Sync(n, m)
        <4>1. \E b : onSuccessfulBatch(n, b)
          BY <3>5 DEF ProcessBatch, Sync
        <4> QED BY <4>1 DEF onSuccessfulBatch, advanceCommitPoint, advanceAndApply
      <3>6. CASE TruncateOplog(n) \/ FinishRollback(n) \/ AbandonRollback(n) \/ Restart(n)
        BY <3>6 DEF TruncateOplog, FinishRollback, AbandonRollback, Restart, commitVars
      <3>7. CASE \E m \in Server : \/ LearnTerm(n, m) \/ ReportPosition(n, m)
                                   \/ FetchBatch(n, m) \/ EnterRollback(n, m)
        BY <3>7 DEF LearnTerm, ReportPosition, FetchBatch, EnterRollback, commitVars
      <3> QED BY <3>1, <3>2, <3>3, <3>4, <3>5, <3>6, <3>7
    <2> QED BY <2>1, <2>2
  <1>5. /\ Promise!IsPrefix(history, history')
        /\ published' = published => history' = history
    BY <1>1, <1>2, <1>4, HistoryGrows
  <1> SUFFICES ASSUME NEW h, h = history', NEW s, s = snapshot'
               PROVE  /\ Promise!Commit(h, s) \/ \E n \in Server : Promise!Restart(n, h, s)
                      /\ \A n \in Server : Promise!IsPrefix(s[n], h)
    BY DEF Promise!Next
  <1>6. CASE \A k \in Server : StableStep(k)
    <2>1. \A k \in Server : Promise!IsPrefix(snapshot[k], snapshot'[k])
      BY <1>1, <1>2, <1>6, SnapshotGrows
    <2>2. Promise!Commit(h, s)
      BY <1>5, <2>1 DEF Promise!Commit
    <2> QED BY <1>3, <2>2
  <1>7. CASE \E n \in Server : Restarts(n)
    <2>1. PICK n \in Server : Restarts(n)
      BY <1>7
    <2>2. /\ Promise!IsPrefix(snapshot'[n], snapshot[n])
          /\ \A m \in Server : m # n => snapshot'[m] = snapshot[m]
      BY <1>1, <1>2, <2>1, SnapshotRestarts
    <2>3. history' = history
      BY <1>5, <2>1 DEF Restarts
    <2>4. Promise!Restart(n, h, s)
      BY <2>2, <2>3 DEF Promise!Restart
    <2> QED BY <1>3, <2>4
  <1> QED BY <1>1, <1>6, <1>7

LEMMA PromiseInit == Init => Promise!Init
  <1> SUFFICES ASSUME Init PROVE Promise!Init
    OBVIOUS
  <1>1. \A n \in Server : log[n] = <<>> /\ stable[n] = Null
    BY DEF Init
  <1>2. published = {Null} /\ Null.i = 0 /\ published \subseteq OpTimes
    BY OpTimeFacts DEF Init, Null, OpTime
  <1>3. Latest(published) = Null
    BY <1>2, LatestFacts
  <1>4. SubSeq(<<>>, 1, 0) = <<>>
    OBVIOUS
  <1>5. history = <<>>
    BY <1>1, <1>2, <1>3, <1>4 DEF history
  <1>6. snapshot = [n \in Server |-> <<>>]
    BY <1>1, <1>2, <1>4 DEF snapshot
  <1> QED BY <1>5, <1>6 DEF Promise!Init

(* There is one history of majority committed entries, which only grows through elections, *)
(* roll backs and crashes, and what a member serves to majority reads (its snapshot at the *)
(* stable timestamp) is a part of it, and shrinks only when the member restarts.           *)
THEOREM ReplicationImplementsHistory ==
    ASSUME ~LateBatches, ~StaleRollbacks
    PROVE  Spec => ImplementsMajorityHistory
  <1>1. Init => Promise!Init
    BY PromiseInit
  <1>2. Inv /\ Inv' /\ SafeInv /\ [Next]_vars => [Promise!Next]_(Promise!vars)
    BY PromiseStep
  <1> QED BY <1>1, <1>2, SafeInvariance, PTL DEF Spec, ImplementsMajorityHistory, Promise!Spec
=============================================================================
