------------------------- MODULE LockManagerProofs -------------------------
(***************************************************************************)
(* Theorems about LockManager, for any number of lockers and partitions,   *)
(* any modes asked for and any depth of recursion.                         *)
(*                                                                         *)
(* They leave out one execution of the code, which run LockManagerRace     *)
(* exhibits: an upgrade that is granted after its owner gave it up and     *)
(* before that owner obtained the bucket mutex (NoGrantRace).              *)
(***************************************************************************)
EXTENDS LockManager, FiniteSetTheorems, SequenceTheorems, TLAPS

NoGrantRace == ~(AbandonConversions /\ GrantRacesAbandon)

-----------------------------------------------------------------------------
(* The inductive invariant. *)

NoDuplicates(list) == \A i, j \in 1..Len(list) : list[i] = list[j] => i = j

OnHead(l) == l \in Linked(grantedList)
Queued(l) == l \in Linked(conflictList)
OnPartition(l) == l \in Linked(plhGrantedList[PartitionOf[l]])

\* A request is linked once, and in the partition of its locker if in any.
ListsInv ==
    /\ NoDuplicates(grantedList)
    /\ NoDuplicates(conflictList)
    /\ \A p \in Partition :
        /\ NoDuplicates(plhGrantedList[p])
        /\ \A l \in Linked(plhGrantedList[p]) : PartitionOf[l] = p

Asking == {"lockPartition", "lockBucket", "lockMigrate"}
Upgrading == {"convertBucket", "convertMigrate"}
Scanning == {"grantConversions", "grantWaiters"}

\* What the references, the status and the place in the code have to do with each other.
StatusInv(l) ==
    /\ pc[l] = "idle" => \/ recursiveCount[l] = 0 /\ status[l] = "NEW"
                         \/ recursiveCount[l] > 0 /\ status[l] = "GRANTED"
    /\ pc[l] \in Asking => recursiveCount[l] = 1 /\ status[l] = "NEW"
    /\ pc[l] \in Upgrading => recursiveCount[l] > 1 /\ status[l] = "GRANTED"
    /\ pc[l] = "wait" => /\ recursiveCount[l] > 0
                         /\ status[l] = "WAITING" => recursiveCount[l] = 1 /\ ~partitioned[l]
                         /\ status[l] = "CONVERTING" => recursiveCount[l] > 1
                         /\ status[l] # "NEW"
    /\ pc[l] = "unlockPartition" => status[l] \in {"GRANTED", "CONVERTING"}
    /\ pc[l] = "unlockBucket" => status[l] # "NEW"
    /\ pc[l] \in {"unlockPartition", "unlockBucket"} =>
        IF status[l] = "CONVERTING" THEN recursiveCount[l] > 0 /\ bucketMutex = l
                                    ELSE recursiveCount[l] = 0
    /\ pc[l] \in Scanning => \/ recursiveCount[l] = 0 /\ status[l] \in {"GRANTED", "WAITING"}
                             \/ recursiveCount[l] > 0 /\ status[l] = "GRANTED"
    /\ pc[l] # "cleanupMigrate"

\* The modes of a request.
ModeInv(l) ==
    /\ recursiveCount[l] > 0 \/ status[l] # "NEW" => mode[l] \in Mode
    /\ status[l] = "CONVERTING" => convertMode[l] \in Mode
    /\ pc[l] \in Upgrading => newMode[l] \in Mode
    /\ pc[l] \notin Upgrading => newMode[l] = MODE_NONE
    /\ pc[l] \in Asking /\ partitioned[l] => mode[l] \in IntentModes
    /\ pc[l] = "lockPartition" => partitioned[l]

\* Where a request is linked.
PlaceInv(l) ==
    /\ Queued(l) <=> status[l] = "WAITING" /\ pc[l] \in {"wait", "unlockBucket"}
    /\ OnHead(l) \/ OnPartition(l) <=>
        /\ status[l] \in {"GRANTED", "CONVERTING"}
        /\ ~(pc[l] \in Scanning /\ recursiveCount[l] = 0)
    /\ ~(OnHead(l) /\ OnPartition(l))
    /\ OnPartition(l) => /\ partitioned[l]
                         /\ mode[l] \in IntentModes
                         /\ status[l] = "GRANTED"
                         /\ pc[l] \in {"idle", "unlockPartition"} \cup Upgrading

\* A notification belongs to the grant that the locker waits for.
NotifyInv(l) ==
    /\ pc[l] = "wait" => (notified[l] <=> status[l] = "GRANTED")
    /\ pc[l] \in Asking \cup Upgrading => ~notified[l]
    /\ Queued(l) => ~notified[l]
    /\ status[l] = "CONVERTING" => ~notified[l]

RequestInv ==
    \A l \in Locker : StatusInv(l) /\ ModeInv(l) /\ PlaceInv(l) /\ NotifyInv(l)

\* Threads that work on the lock head in several steps own the bucket mutex.
MutexInv ==
    /\ \A t \in Thread :
        pc[t] \in {"lockMigrate", "convertMigrate", "cleanupMigrate"} \cup Scanning
            => bucketMutex = t
    /\ pc[Cleaner] \in {"idle", "cleanupMigrate"}

\* No two requests on the lock head conflict.
Compatible ==
    \A a, b \in Linked(grantedList) : a # b => ~conflicts(mode[a], {mode[b]})

Inv ==
    /\ TypeOK
    /\ ListsInv
    /\ RequestInv
    /\ MutexInv
    /\ CountsMatchLists
    /\ PartitionedIsUncontended
    /\ Compatible

-----------------------------------------------------------------------------
(* Lists of requests: what the operations on them do to the set of linked   *)
(* requests.                                                                *)

(* push_back links one request. *)
LEMMA PushBack ==
    ASSUME NEW S, NEW s \in Seq(S), NEW x \in S
    PROVE  /\ push_back(s, x) \in Seq(S)
           /\ Linked(push_back(s, x)) = Linked(s) \cup {x}
           /\ NoDuplicates(s) /\ x \notin Linked(s) => NoDuplicates(push_back(s, x))
  <1> DEFINE t == Append(s, x)
  <1>1. /\ t \in Seq(S) /\ Len(t) = Len(s) + 1
        /\ \A i \in 1..Len(s) : t[i] = s[i]
        /\ t[Len(s) + 1] = x
        /\ Len(s) \in Nat
    BY AppendProperties, LenProperties
  <1> HIDE DEF t
  <1>2. Linked(t) = Linked(s) \cup {x}
    BY <1>1 DEF Linked
  <1>3. NoDuplicates(s) /\ x \notin Linked(s) => NoDuplicates(t)
    BY <1>1 DEF Linked, NoDuplicates
  <1> QED BY <1>1, <1>2, <1>3 DEF push_back, t

(* push_front links one request. *)
LEMMA PushFront ==
    ASSUME NEW S, NEW s \in Seq(S), NEW x \in S
    PROVE  /\ push_front(s, x) \in Seq(S)
           /\ Linked(push_front(s, x)) = Linked(s) \cup {x}
           /\ NoDuplicates(s) /\ x \notin Linked(s) => NoDuplicates(push_front(s, x))
  <1> DEFINE t == <<x>> \o s
  <1>0. <<x>> \in Seq(S) /\ Len(<<x>>) = 1 /\ <<x>>[1] = x
    OBVIOUS
  <1>1. /\ t \in Seq(S) /\ Len(t) = Len(s) + 1
        /\ \A i \in 1..Len(t) : t[i] = IF i = 1 THEN x ELSE s[i - 1]
        /\ Len(s) \in Nat
    BY <1>0, ConcatProperties, LenProperties
  <1> HIDE DEF t
  <1>2. Linked(t) = Linked(s) \cup {x}
    <2>1. \A y \in Linked(s) : y \in Linked(t)
      <3> SUFFICES ASSUME NEW i \in 1..Len(s) PROVE s[i] \in Linked(t)
        BY DEF Linked
      <3>1. i + 1 \in 1..Len(t) /\ t[i + 1] = s[i]
        BY <1>1
      <3> QED BY <3>1 DEF Linked
    <2>2. x \in Linked(t)
      BY <1>1 DEF Linked
    <2>3. \A y \in Linked(t) : y = x \/ y \in Linked(s)
      BY <1>1 DEF Linked
    <2> QED BY <2>1, <2>2, <2>3
  <1>3. NoDuplicates(s) /\ x \notin Linked(s) => NoDuplicates(t)
    <2> SUFFICES ASSUME NoDuplicates(s), x \notin Linked(s),
                        NEW i \in 1..Len(t), NEW j \in 1..Len(t), t[i] = t[j], i < j
                 PROVE  FALSE
      BY <1>1 DEF NoDuplicates
    <2>1. j - 1 \in 1..Len(s) /\ t[j] = s[j - 1]
      BY <1>1
    <2>2. CASE i = 1
      BY <1>1, <2>1, <2>2 DEF Linked
    <2>3. CASE i # 1
      <3>1. i - 1 \in 1..Len(s) /\ t[i] = s[i - 1]
        BY <1>1, <2>3
      <3>2. i - 1 = j - 1
        BY <2>1, <3>1 DEF NoDuplicates
      <3> QED BY <3>2
    <2> QED BY <2>2, <2>3
  <1> QED BY <1>1, <1>2, <1>3 DEF push_front, t

(* Taking a request off a list unlinks that one only. *)
LEMMA RemoveAtPosition ==
    ASSUME NEW S, NEW s \in Seq(S), NEW k \in 1..Len(s), NoDuplicates(s)
    PROVE  /\ RemoveAt(s, k) \in Seq(S)
           /\ Len(RemoveAt(s, k)) = Len(s) - 1
           /\ Linked(RemoveAt(s, k)) = Linked(s) \ {s[k]}
           /\ NoDuplicates(RemoveAt(s, k))
  <1> DEFINE t == RemoveAt(s, k)
             old(i) == IF i < k THEN i ELSE i + 1
  <1>0. Len(s) \in Nat /\ Len(s) - 1 \in Nat /\ \A i \in 1..Len(s) : s[i] \in S
    BY LenProperties, ElementOfSeq
  <1>1. /\ t \in Seq(S) /\ Len(t) = Len(s) - 1
        /\ \A i \in 1..(Len(s) - 1) : t[i] = IF i < k THEN s[i] ELSE s[i + 1]
    BY <1>0 DEF RemoveAt
  <1> HIDE DEF t
  <1>2. Linked(t) = Linked(s) \ {s[k]}
    <2>1. ASSUME NEW y \in Linked(s), y # s[k] PROVE y \in Linked(t)
      <3>1. PICK i \in 1..Len(s) : y = s[i]
        BY DEF Linked
      <3>2. CASE i < k
        <4>1. i \in 1..Len(t) /\ t[i] = y
          BY <1>0, <1>1, <3>1, <3>2
        <4> QED BY <4>1 DEF Linked
      <3>3. CASE i > k
        <4>1. i - 1 \in 1..Len(t) /\ t[i - 1] = y
          BY <1>0, <1>1, <3>1, <3>3
        <4> QED BY <4>1 DEF Linked
      <3> QED BY <2>1, <3>1, <3>2, <3>3
    <2>2. ASSUME NEW y \in Linked(t) PROVE y \in Linked(s) /\ y # s[k]
      <3>1. PICK i \in 1..Len(t) : y = t[i]
        BY DEF Linked
      <3>2. /\ old(i) \in 1..Len(s)
            /\ old(i) # k
            /\ y = s[old(i)]
        BY <1>0, <1>1, <3>1
      <3> QED BY <3>2 DEF Linked, NoDuplicates
    <2> QED BY <2>1, <2>2
  <1>3. NoDuplicates(t)
    <2> SUFFICES ASSUME NEW i \in 1..Len(t), NEW j \in 1..Len(t), t[i] = t[j]
                 PROVE  i = j
      BY DEF NoDuplicates
    <2>1. /\ old(i) \in 1..Len(s) /\ t[i] = s[old(i)]
          /\ old(j) \in 1..Len(s) /\ t[j] = s[old(j)]
      BY <1>0, <1>1
    <2>2. old(i) = old(j)
      BY <2>1 DEF NoDuplicates
    <2> QED BY <2>2
  <1> QED BY <1>1, <1>2, <1>3 DEF t

(* LockRequestList::remove of a linked request. *)
LEMMA RemoveRequest ==
    ASSUME NEW S, NEW s \in Seq(S), NoDuplicates(s), NEW x \in Linked(s)
    PROVE  /\ remove(s, x) \in Seq(S)
           /\ Linked(remove(s, x)) = Linked(s) \ {x}
           /\ NoDuplicates(remove(s, x))
  <1> DEFINE k == CHOOSE i \in 1..Len(s) : s[i] = x
  <1>1. k \in 1..Len(s) /\ s[k] = x
    BY DEF Linked
  <1> QED BY <1>1, RemoveAtPosition DEF remove

(* The front request of a partition, and what is left when it has moved. *)
LEMMA PopFront ==
    ASSUME NEW S, NEW s \in Seq(S), s # <<>>, NoDuplicates(s)
    PROVE  /\ Head(s) \in S
           /\ Head(s) \in Linked(s)
           /\ Tail(s) \in Seq(S)
           /\ Linked(Tail(s)) = Linked(s) \ {Head(s)}
           /\ NoDuplicates(Tail(s))
  <1>1. /\ Len(s) \in Nat \ {0} /\ Head(s) = s[1] /\ s[1] \in S
        /\ Tail(s) \in Seq(S) /\ Len(Tail(s)) = Len(s) - 1
        /\ \A i \in 1..Len(Tail(s)) : Tail(s)[i] = s[i + 1]
    BY HeadTailProperties, EmptySeq
  <1> DEFINE t == Tail(s)
  <1> HIDE DEF t
  <1>2. Linked(t) = Linked(s) \ {s[1]}
    <2>1. ASSUME NEW y \in Linked(s), y # s[1] PROVE y \in Linked(t)
      <3>1. PICK i \in 1..Len(s) : y = s[i]
        BY DEF Linked
      <3>2. i - 1 \in 1..Len(t) /\ t[i - 1] = y
        BY <1>1, <2>1, <3>1 DEF t
      <3> QED BY <3>2 DEF Linked
    <2>2. ASSUME NEW y \in Linked(t) PROVE y \in Linked(s) /\ y # s[1]
      <3>1. PICK i \in 1..Len(t) : y = t[i]
        BY DEF Linked
      <3> QED BY <1>1, <3>1 DEF Linked, NoDuplicates, t
    <2> QED BY <2>1, <2>2
  <1>3. NoDuplicates(t)
    BY <1>1 DEF NoDuplicates, t
  <1>4. s[1] \in Linked(s)
    BY <1>1 DEF Linked
  <1> QED BY <1>1, <1>2, <1>3, <1>4 DEF t

(* A prefix of a list. *)
LEMMA PrefixOf ==
    ASSUME NEW S, NEW s \in Seq(S), NEW n \in 0..Len(s)
    PROVE  /\ SubSeq(s, 1, n) \in Seq(S)
           /\ Len(SubSeq(s, 1, n)) = n
           /\ \A i \in 1..n : SubSeq(s, 1, n)[i] = s[i]
  OBVIOUS

(* Popping the last partition loses no other one. *)
LEMMA PopBack ==
    ASSUME NEW S, NEW s \in Seq(S), s # <<>>
    PROVE  /\ s[Len(s)] \in S
           /\ SubSeq(s, 1, Len(s) - 1) \in Seq(S)
           /\ Linked(s) \subseteq Linked(SubSeq(s, 1, Len(s) - 1)) \cup {s[Len(s)]}
           /\ Linked(SubSeq(s, 1, Len(s) - 1)) \subseteq Linked(s)
  <1>1. Len(s) \in Nat \ {0} /\ \A i \in 1..Len(s) : s[i] \in S
    BY EmptySeq, ElementOfSeq
  <1> DEFINE t == SubSeq(s, 1, Len(s) - 1)
  <1>2. /\ t \in Seq(S) /\ Len(t) = Len(s) - 1
        /\ \A i \in 1..(Len(s) - 1) : t[i] = s[i]
    <2>1. Len(s) - 1 \in 0..Len(s)
      BY <1>1
    <2> QED BY <2>1, PrefixOf
  <1> HIDE DEF t
  <1>3. Linked(s) \subseteq Linked(t) \cup {s[Len(s)]} /\ Linked(t) \subseteq Linked(s)
    BY <1>1, <1>2 DEF Linked
  <1> QED BY <1>1, <1>2, <1>3 DEF t

-----------------------------------------------------------------------------
(* The counts of the lock head. *)

Holders(m) == {l \in Linked(grantedList) : mode[l] = m}
Converting == {l \in Linked(grantedList) : status[l] = "CONVERTING"}
Upgraders(m) == {l \in Converting : convertMode[l] = m}
Waiters(m) == {l \in Linked(conflictList) : mode[l] = m}
Prior == {l \in Linked(grantedList) : compatibleFirst[l]}

GrantedCountsMatch ==
    /\ \A m \in Mode : grantedCounts[m] = Cardinality(Holders(m)) + Cardinality(Upgraders(m))
    /\ conversionsCount = Cardinality(Converting)
    /\ compatibleFirstCount = Cardinality(Prior)

ConflictCountsMatch == \A m \in Mode : conflictCounts[m] = Cardinality(Waiters(m))

(* Sets of requests are finite, and grow and shrink by one. *)
LEMMA CountRequests ==
    ASSUME NEW S \in SUBSET Locker
    PROVE  /\ Cardinality(S) \in Nat
           /\ \A x \in Locker \ S : Cardinality(S \cup {x}) = Cardinality(S) + 1
           /\ \A x \in S : /\ Cardinality(S \ {x}) = Cardinality(S) - 1
                           /\ Cardinality(S) > 0
           /\ \A x, y \in S : x # y => Cardinality(S) > 1
  <1>1. IsFiniteSet(S)
    BY LockerAssumption, FS_Subset
  <1>2. Cardinality(S) \in Nat
    BY <1>1, FS_CardinalityType
  <1>3. \A x \in Locker \ S : Cardinality(S \cup {x}) = Cardinality(S) + 1
    BY <1>1, FS_AddElement
  <1>4. ASSUME NEW x \in S
        PROVE  /\ Cardinality(S \ {x}) = Cardinality(S) - 1
               /\ Cardinality(S) > 0
               /\ IsFiniteSet(S \ {x})
    BY <1>1, <1>2, FS_RemoveElement, FS_EmptySet
  <1>5. ASSUME NEW x \in S, NEW y \in S, x # y PROVE Cardinality(S) > 1
    <2>1. y \in S \ {x} /\ IsFiniteSet(S \ {x})
      BY <1>4, <1>5
    <2>2. Cardinality(S \ {x}) \in Nat
      BY <2>1, FS_CardinalityType
    <2>3. Cardinality(S \ {x}) # 0
      BY <2>1, FS_EmptySet
    <2> QED BY <1>2, <1>4, <2>2, <2>3
  <1> QED BY <1>2, <1>3, <1>4, <1>5

(* The two halves of CountsMatchLists. *)
LEMMA CountsSplit ==
    /\ CountsMatchLists <=> GrantedCountsMatch /\ ConflictCountsMatch
    /\ (CountsMatchLists <=> GrantedCountsMatch /\ ConflictCountsMatch)'
  BY DEF CountsMatchLists, GrantedCountsMatch, ConflictCountsMatch, Holders, Converting,
         Upgraders, Waiters, Prior

(* The requests on the lock head are requests of lockers. *)
LEMMA LinkedLockers ==
    ASSUME TypeOK
    PROVE  /\ Linked(grantedList) \subseteq Locker
           /\ Linked(conflictList) \subseteq Locker
           /\ \A p \in Partition : Linked(plhGrantedList[p]) \subseteq Locker
  <1>1. ASSUME NEW s \in Seq(Locker) PROVE Linked(s) \subseteq Locker
    BY ElementOfSeq DEF Linked
  <1> QED BY <1>1 DEF TypeOK

(* What is on the lock head is counted in its mode, once for every request, *)
(* and an upgrade that waits also in the mode it waits for.                 *)
LEMMA Counted ==
    ASSUME TypeOK, CountsMatchLists, NEW a \in Linked(grantedList), mode[a] \in Mode
    PROVE  /\ grantedCounts[mode[a]] > 0
           /\ \A b \in Linked(grantedList) : b # a /\ mode[b] = mode[a] => grantedCounts[mode[a]] > 1
           /\ compatibleFirst[a] => compatibleFirstCount > 0
           /\ status[a] = "CONVERTING" /\ convertMode[a] \in Mode =>
                /\ conversionsCount > 0
                /\ grantedCounts[convertMode[a]] > 0
                /\ mode[a] = convertMode[a] => grantedCounts[mode[a]] > 1
                /\ \A b \in Linked(grantedList) :
                     mode[b] = convertMode[a] => grantedCounts[convertMode[a]] > 1
  <1>0. GrantedCountsMatch
    BY CountsSplit
  <1>1. /\ \A m \in Mode : Holders(m) \in SUBSET Locker /\ Upgraders(m) \in SUBSET Locker
        /\ Converting \in SUBSET Locker
        /\ Prior \in SUBSET Locker
    BY LinkedLockers DEF Holders, Upgraders, Converting, Prior
  <1>2. \A m \in Mode : Cardinality(Holders(m)) \in Nat /\ Cardinality(Upgraders(m)) \in Nat
    BY <1>1, CountRequests
  <1>3. a \in Holders(mode[a])
    BY DEF Holders
  <1>4. Cardinality(Holders(mode[a])) > 0
    BY <1>1, <1>3, CountRequests
  <1>5. grantedCounts[mode[a]] > 0
    BY <1>0, <1>2, <1>4 DEF GrantedCountsMatch
  <1>6. ASSUME NEW b \in Linked(grantedList), b # a, mode[b] = mode[a]
        PROVE  grantedCounts[mode[a]] > 1
    <2>1. b \in Holders(mode[a])
      BY <1>6 DEF Holders
    <2>2. Cardinality(Holders(mode[a])) > 1
      BY <1>1, <1>3, <1>6, <2>1, CountRequests
    <2> QED BY <1>0, <1>2, <2>2 DEF GrantedCountsMatch
  <1>7. compatibleFirst[a] => compatibleFirstCount > 0
    <2>1. compatibleFirst[a] => a \in Prior
      BY DEF Prior
    <2> QED BY <1>0, <1>1, <2>1, CountRequests DEF GrantedCountsMatch
  <1>8. ASSUME status[a] = "CONVERTING", convertMode[a] \in Mode
        PROVE  /\ conversionsCount > 0
               /\ grantedCounts[convertMode[a]] > 0
               /\ \A b \in Linked(grantedList) :
                     mode[b] = convertMode[a] => grantedCounts[convertMode[a]] > 1
    <2>1. a \in Converting /\ a \in Upgraders(convertMode[a])
      BY <1>8 DEF Converting, Upgraders
    <2>2. conversionsCount > 0
      BY <1>0, <1>1, <2>1, CountRequests DEF GrantedCountsMatch
    <2>3. Cardinality(Upgraders(convertMode[a])) > 0
      BY <1>1, <1>8, <2>1, CountRequests
    <2>4. grantedCounts[convertMode[a]] > 0
      BY <1>0, <1>2, <1>8, <2>3 DEF GrantedCountsMatch
    <2>5. ASSUME NEW b \in Linked(grantedList), mode[b] = convertMode[a]
          PROVE  grantedCounts[convertMode[a]] > 1
      <3>1. b \in Holders(convertMode[a])
        BY <2>5 DEF Holders
      <3>2. Cardinality(Holders(convertMode[a])) > 0
        BY <1>1, <1>8, <3>1, CountRequests
      <3> QED BY <1>0, <1>2, <1>8, <2>3, <3>2 DEF GrantedCountsMatch
    <2> QED BY <2>2, <2>4, <2>5
  <1> QED BY <1>5, <1>6, <1>7, <1>8

(* A queued request is counted in the mode it waits for. *)
LEMMA WaiterCounted ==
    ASSUME TypeOK, CountsMatchLists, NEW a \in Linked(conflictList), mode[a] \in Mode
    PROVE  conflictCounts[mode[a]] > 0
  <1>1. Waiters(mode[a]) \in SUBSET Locker /\ a \in Waiters(mode[a])
    BY LinkedLockers DEF Waiters
  <1>2. conflictCounts[mode[a]] = Cardinality(Waiters(mode[a]))
    BY CountsSplit DEF ConflictCountsMatch
  <1> QED BY <1>1, <1>2, CountRequests

(* The steps that change the granted queue keep its counts right. *)

(* A request is granted and linked. *)
LEMMA CountsOnGrant ==
    ASSUME TypeOK, GrantedCountsMatch, NEW l \in Locker, l \notin Linked(grantedList),
           mode[l] \in Mode,
           Linked(grantedList') = Linked(grantedList) \cup {l},
           status' = [status EXCEPT ![l] = "GRANTED"],
           UNCHANGED <<mode, convertMode, compatibleFirst, conversionsCount>>,
           grantedCounts' = Inc(grantedCounts, mode[l]),
           compatibleFirstCount' = compatibleFirstCount + IF compatibleFirst[l] THEN 1 ELSE 0
    PROVE  GrantedCountsMatch'
  <1>0. Linked(grantedList) \subseteq Locker
    BY LinkedLockers
  <1>1. ASSUME NEW m \in Mode
        PROVE  grantedCounts'[m] = Cardinality(Holders(m)') + Cardinality(Upgraders(m)')
    <2>1. Holders(m)' = IF m = mode[l] THEN Holders(m) \cup {l} ELSE Holders(m)
      BY DEF Holders
    <2>2. Upgraders(m)' = Upgraders(m)
      BY <1>0 DEF Upgraders, Converting, TypeOK
    <2>3. Holders(m) \in SUBSET Locker /\ Upgraders(m) \in SUBSET Locker /\ l \notin Holders(m)
      BY <1>0 DEF Holders, Upgraders, Converting
    <2>4. /\ Cardinality(Holders(m)) \in Nat /\ Cardinality(Upgraders(m)) \in Nat
          /\ Cardinality(Holders(m) \cup {l}) = Cardinality(Holders(m)) + 1
      BY <2>3, CountRequests
    <2>5. grantedCounts[m] = Cardinality(Holders(m)) + Cardinality(Upgraders(m))
      BY DEF GrantedCountsMatch
    <2>6. grantedCounts'[m] = IF m = mode[l] THEN grantedCounts[m] + 1 ELSE grantedCounts[m]
      BY DEF Inc, TypeOK, Count
    <2> QED BY <2>1, <2>2, <2>4, <2>5, <2>6
  <1>2. Converting' = Converting
    BY <1>0 DEF Converting, TypeOK
  <1>3. compatibleFirstCount' = Cardinality(Prior')
    <2>1. Prior' = IF compatibleFirst[l] THEN Prior \cup {l} ELSE Prior
      BY DEF Prior
    <2>2. Prior \in SUBSET Locker /\ l \notin Prior
      BY <1>0 DEF Prior
    <2>3. Cardinality(Prior) \in Nat /\ Cardinality(Prior \cup {l}) = Cardinality(Prior) + 1
      BY <2>2, CountRequests
    <2> QED BY <2>1, <2>3 DEF GrantedCountsMatch
  <1> QED BY <1>1, <1>2, <1>3 DEF GrantedCountsMatch

(* A granted request is unlinked. *)
LEMMA CountsOnRelease ==
    ASSUME TypeOK, GrantedCountsMatch, NEW l \in Locker, l \in Linked(grantedList),
           mode[l] \in Mode, status[l] = "GRANTED",
           Linked(grantedList') = Linked(grantedList) \ {l},
           UNCHANGED <<status, mode, convertMode, compatibleFirst, conversionsCount>>,
           grantedCounts' = Dec(grantedCounts, mode[l]),
           compatibleFirstCount' = compatibleFirstCount - IF compatibleFirst[l] THEN 1 ELSE 0
    PROVE  GrantedCountsMatch'
  <1>0. Linked(grantedList) \subseteq Locker
    BY LinkedLockers
  <1>1. ASSUME NEW m \in Mode
        PROVE  grantedCounts'[m] = Cardinality(Holders(m)') + Cardinality(Upgraders(m)')
    <2>1. Holders(m)' = IF m = mode[l] THEN Holders(m) \ {l} ELSE Holders(m)
      BY DEF Holders
    <2>2. Upgraders(m)' = Upgraders(m)
      BY DEF Upgraders, Converting
    <2>3. /\ Holders(m) \in SUBSET Locker /\ Upgraders(m) \in SUBSET Locker
          /\ m = mode[l] => l \in Holders(m)
      BY <1>0 DEF Holders, Upgraders, Converting
    <2>4. /\ Cardinality(Holders(m)) \in Nat /\ Cardinality(Upgraders(m)) \in Nat
          /\ m = mode[l] => Cardinality(Holders(m) \ {l}) = Cardinality(Holders(m)) - 1
      BY <2>3, CountRequests
    <2>5. grantedCounts[m] = Cardinality(Holders(m)) + Cardinality(Upgraders(m))
      BY DEF GrantedCountsMatch
    <2>6. grantedCounts'[m] = IF m = mode[l] THEN grantedCounts[m] - 1 ELSE grantedCounts[m]
      BY DEF Dec, TypeOK, Count
    <2> QED BY <2>1, <2>2, <2>4, <2>5, <2>6
  <1>2. Converting' = Converting
    BY DEF Converting
  <1>3. compatibleFirstCount' = Cardinality(Prior')
    <2>1. Prior' = IF compatibleFirst[l] THEN Prior \ {l} ELSE Prior
      BY DEF Prior
    <2>2. Prior \in SUBSET Locker /\ (compatibleFirst[l] => l \in Prior)
      BY <1>0 DEF Prior
    <2>3. /\ Cardinality(Prior) \in Nat
          /\ compatibleFirst[l] => Cardinality(Prior \ {l}) = Cardinality(Prior) - 1
      BY <2>2, CountRequests
    <2> QED BY <2>1, <2>3 DEF GrantedCountsMatch
  <1> QED BY <1>1, <1>2, <1>3 DEF GrantedCountsMatch

(* A granted request changes its mode at once: an upgrade without conflicts *)
(* or a downgrade.                                                          *)
LEMMA CountsOnModeChange ==
    ASSUME TypeOK, GrantedCountsMatch, NEW l \in Locker, NEW n \in Mode,
           l \in Linked(grantedList), mode[l] \in Mode, n # mode[l],
           status[l] = "GRANTED",
           mode' = [mode EXCEPT ![l] = n],
           UNCHANGED <<grantedList, status, convertMode, compatibleFirst, conversionsCount,
                       compatibleFirstCount>>,
           grantedCounts' = Dec(Inc(grantedCounts, n), mode[l])
    PROVE  GrantedCountsMatch'
  <1>0. Linked(grantedList) \subseteq Locker
    BY LinkedLockers
  <1>1. ASSUME NEW m \in Mode
        PROVE  grantedCounts'[m] = Cardinality(Holders(m)') + Cardinality(Upgraders(m)')
    <2>1. Holders(m)' = IF m = mode[l] THEN Holders(m) \ {l}
                        ELSE IF m = n THEN Holders(m) \cup {l} ELSE Holders(m)
      BY <1>0 DEF Holders, TypeOK
    <2>2. Upgraders(m)' = Upgraders(m)
      BY DEF Upgraders, Converting
    <2>3. /\ Holders(m) \in SUBSET Locker /\ Upgraders(m) \in SUBSET Locker
          /\ m = mode[l] <=> l \in Holders(m)
      BY <1>0 DEF Holders, Upgraders, Converting
    <2>4. /\ Cardinality(Holders(m)) \in Nat /\ Cardinality(Upgraders(m)) \in Nat
          /\ m = mode[l] => Cardinality(Holders(m) \ {l}) = Cardinality(Holders(m)) - 1
          /\ m # mode[l] => Cardinality(Holders(m) \cup {l}) = Cardinality(Holders(m)) + 1
      BY <2>3, CountRequests
    <2>5. grantedCounts[m] = Cardinality(Holders(m)) + Cardinality(Upgraders(m))
      BY DEF GrantedCountsMatch
    <2>6. grantedCounts'[m] = IF m = mode[l] THEN grantedCounts[m] - 1
                              ELSE IF m = n THEN grantedCounts[m] + 1 ELSE grantedCounts[m]
      BY DEF Inc, Dec, TypeOK, Count
    <2> QED BY <2>1, <2>2, <2>4, <2>5, <2>6
  <1>2. Converting' = Converting /\ Prior' = Prior
    BY DEF Converting, Prior
  <1> QED BY <1>1, <1>2 DEF GrantedCountsMatch

(* An upgrade starts to wait, counted in both modes. *)
LEMMA CountsOnUpgradeWait ==
    ASSUME TypeOK, GrantedCountsMatch, NEW l \in Locker, NEW n \in Mode,
           l \in Linked(grantedList), status[l] = "GRANTED",
           status' = [status EXCEPT ![l] = "CONVERTING"],
           convertMode' = [convertMode EXCEPT ![l] = n],
           UNCHANGED <<grantedList, mode, compatibleFirst, compatibleFirstCount>>,
           grantedCounts' = Inc(grantedCounts, n),
           conversionsCount' = conversionsCount + 1
    PROVE  GrantedCountsMatch'
  <1>0. Linked(grantedList) \subseteq Locker
    BY LinkedLockers
  <1>1. ASSUME NEW m \in Mode
        PROVE  grantedCounts'[m] = Cardinality(Holders(m)') + Cardinality(Upgraders(m)')
    <2>1. Upgraders(m)' = IF m = n THEN Upgraders(m) \cup {l} ELSE Upgraders(m)
      BY <1>0 DEF Upgraders, Converting, TypeOK
    <2>2. Holders(m)' = Holders(m)
      BY DEF Holders
    <2>3. Holders(m) \in SUBSET Locker /\ Upgraders(m) \in SUBSET Locker /\ l \notin Upgraders(m)
      BY <1>0 DEF Holders, Upgraders, Converting
    <2>4. /\ Cardinality(Holders(m)) \in Nat /\ Cardinality(Upgraders(m)) \in Nat
          /\ Cardinality(Upgraders(m) \cup {l}) = Cardinality(Upgraders(m)) + 1
      BY <2>3, CountRequests
    <2>5. grantedCounts[m] = Cardinality(Holders(m)) + Cardinality(Upgraders(m))
      BY DEF GrantedCountsMatch
    <2>6. grantedCounts'[m] = IF m = n THEN grantedCounts[m] + 1 ELSE grantedCounts[m]
      BY DEF Inc, TypeOK, Count
    <2> QED BY <2>1, <2>2, <2>4, <2>5, <2>6
  <1>2. conversionsCount' = Cardinality(Converting')
    <2>1. Converting' = Converting \cup {l}
      BY <1>0 DEF Converting, TypeOK
    <2>2. Converting \in SUBSET Locker /\ l \notin Converting
      BY <1>0 DEF Converting
    <2>3. Cardinality(Converting \cup {l}) = Cardinality(Converting) + 1
      BY <2>2, CountRequests
    <2> QED BY <2>1, <2>3 DEF GrantedCountsMatch
  <1>3. Prior' = Prior
    BY DEF Prior
  <1> QED BY <1>1, <1>2, <1>3 DEF GrantedCountsMatch

(* An upgrade ends its wait, granted (with its new mode) or given up: it is *)
(* no longer counted in the other mode.                                     *)
LEMMA CountsOnUpgradeEnd ==
    ASSUME TypeOK, GrantedCountsMatch, NEW q \in Locker, NEW kept \in Mode, NEW other \in Mode,
           q \in Linked(grantedList), status[q] = "CONVERTING",
           \/ kept = convertMode[q] /\ other = mode[q]
           \/ kept = mode[q] /\ other = convertMode[q],
           mode' = [mode EXCEPT ![q] = kept],
           status' = [status EXCEPT ![q] = "GRANTED"],
           convertMode' = [convertMode EXCEPT ![q] = MODE_NONE],
           UNCHANGED <<grantedList, compatibleFirst, compatibleFirstCount>>,
           grantedCounts' = Dec(grantedCounts, other),
           conversionsCount' = conversionsCount - 1
    PROVE  GrantedCountsMatch'
  <1>0. Linked(grantedList) \subseteq Locker
    BY LinkedLockers
  <1>1. ASSUME NEW m \in Mode
        PROVE  grantedCounts'[m] = Cardinality(Holders(m)') + Cardinality(Upgraders(m)')
    <2>1. Upgraders(m)' = Upgraders(m) \ {q}
      BY <1>0 DEF Upgraders, Converting, TypeOK
    <2>2. Holders(m)' = IF m = kept THEN Holders(m) \cup {q} ELSE Holders(m) \ {q}
      BY <1>0 DEF Holders, TypeOK
    <2>3. /\ Holders(m) \in SUBSET Locker /\ Upgraders(m) \in SUBSET Locker
          /\ q \in Holders(m) <=> m = mode[q]
          /\ q \in Upgraders(m) <=> m = convertMode[q]
      BY <1>0 DEF Holders, Upgraders, Converting
    <2>4. /\ Cardinality(Holders(m)) \in Nat /\ Cardinality(Upgraders(m)) \in Nat
          /\ q \in Upgraders(m) => Cardinality(Upgraders(m) \ {q}) = Cardinality(Upgraders(m)) - 1
          /\ q \in Holders(m) => Cardinality(Holders(m) \ {q}) = Cardinality(Holders(m)) - 1
          /\ q \notin Holders(m) => Cardinality(Holders(m) \cup {q}) = Cardinality(Holders(m)) + 1
      BY <2>3, CountRequests
    <2>5. /\ q \notin Upgraders(m) => Upgraders(m) \ {q} = Upgraders(m)
          /\ q \notin Holders(m) => Holders(m) \ {q} = Holders(m)
          /\ q \in Holders(m) => Holders(m) \cup {q} = Holders(m)
      OBVIOUS
    <2>6. grantedCounts[m] = Cardinality(Holders(m)) + Cardinality(Upgraders(m))
      BY DEF GrantedCountsMatch
    <2>7. grantedCounts'[m] = IF m = other THEN grantedCounts[m] - 1 ELSE grantedCounts[m]
      BY DEF Dec, TypeOK, Count
    <2>8. Cardinality(Upgraders(m)') = Cardinality(Upgraders(m)) - IF m = convertMode[q] THEN 1 ELSE 0
      <3>1. Cardinality(Upgraders(m)') = Cardinality(Upgraders(m) \ {q})
        BY <2>1
      <3>2. CASE q \in Upgraders(m)
        BY <2>3, <2>4, <3>1, <3>2
      <3>3. CASE q \notin Upgraders(m)
        <4>1. Cardinality(Upgraders(m) \ {q}) = Cardinality(Upgraders(m))
          BY <2>5, <3>3
        <4> QED BY <2>3, <2>4, <3>1, <3>3, <4>1
      <3> QED BY <3>2, <3>3
    <2>9. CASE kept = convertMode[q] /\ other = mode[q]
      <3>1. CASE m = kept
        BY <2>2, <2>3, <2>4, <2>5, <2>6, <2>7, <2>8, <2>9, <3>1
      <3>2. CASE m # kept
        <4>1. Cardinality(Holders(m)') = Cardinality(Holders(m) \ {q})
          BY <2>2, <3>2
        <4>2. CASE q \in Holders(m)
          BY <2>3, <2>4, <2>6, <2>7, <2>8, <2>9, <3>2, <4>1, <4>2
        <4>3. CASE q \notin Holders(m)
          <5>1. Cardinality(Holders(m)') = Cardinality(Holders(m))
            BY <2>5, <4>1, <4>3
          <5> QED BY <2>3, <2>4, <2>6, <2>7, <2>8, <2>9, <3>2, <4>3, <5>1
        <4> QED BY <4>2, <4>3
      <3> QED BY <3>1, <3>2
    <2>10. CASE kept = mode[q] /\ other = convertMode[q]
      <3>1. Holders(m)' = Holders(m)
        BY <2>2, <2>3, <2>5, <2>10
      <3> QED BY <2>4, <2>6, <2>7, <2>8, <2>10, <3>1
    <2> QED BY <2>9, <2>10
  <1>2. conversionsCount' = Cardinality(Converting')
    <2>1. Converting' = Converting \ {q}
      BY <1>0 DEF Converting, TypeOK
    <2>2. Converting \in SUBSET Locker /\ q \in Converting
      BY <1>0 DEF Converting
    <2>3. Cardinality(Converting \ {q}) = Cardinality(Converting) - 1
      BY <2>2, CountRequests
    <2> QED BY <2>1, <2>3 DEF GrantedCountsMatch
  <1>3. Prior' = Prior
    BY DEF Prior
  <1> QED BY <1>1, <1>2, <1>3 DEF GrantedCountsMatch

(* A request is queued. *)
LEMMA CountsOnEnqueue ==
    ASSUME TypeOK, ConflictCountsMatch, NEW l \in Locker, l \notin Linked(conflictList),
           mode[l] \in Mode,
           Linked(conflictList') = Linked(conflictList) \cup {l},
           UNCHANGED mode,
           conflictCounts' = Inc(conflictCounts, mode[l])
    PROVE  ConflictCountsMatch'
  <1> SUFFICES ASSUME NEW m \in Mode PROVE conflictCounts'[m] = Cardinality(Waiters(m)')
    BY DEF ConflictCountsMatch
  <1>1. Waiters(m)' = IF m = mode[l] THEN Waiters(m) \cup {l} ELSE Waiters(m)
    BY DEF Waiters
  <1>2. Waiters(m) \in SUBSET Locker /\ l \notin Waiters(m)
    BY LinkedLockers DEF Waiters
  <1>3. Cardinality(Waiters(m) \cup {l}) = Cardinality(Waiters(m)) + 1
    BY <1>2, CountRequests
  <1>4. conflictCounts[m] = Cardinality(Waiters(m))
    BY DEF ConflictCountsMatch
  <1> QED BY <1>1, <1>3, <1>4 DEF Inc, TypeOK, Count

(* A request leaves the queue. *)
LEMMA CountsOnDequeue ==
    ASSUME TypeOK, ConflictCountsMatch, NEW l \in Locker, l \in Linked(conflictList),
           mode[l] \in Mode,
           Linked(conflictList') = Linked(conflictList) \ {l},
           UNCHANGED mode,
           conflictCounts' = Dec(conflictCounts, mode[l])
    PROVE  ConflictCountsMatch'
  <1> SUFFICES ASSUME NEW m \in Mode PROVE conflictCounts'[m] = Cardinality(Waiters(m)')
    BY DEF ConflictCountsMatch
  <1>1. Waiters(m)' = IF m = mode[l] THEN Waiters(m) \ {l} ELSE Waiters(m)
    BY DEF Waiters
  <1>2. Waiters(m) \in SUBSET Locker /\ (m = mode[l] => l \in Waiters(m))
    BY LinkedLockers DEF Waiters
  <1>3. m = mode[l] => Cardinality(Waiters(m) \ {l}) = Cardinality(Waiters(m)) - 1
    BY <1>2, CountRequests
  <1>4. conflictCounts[m] = Cardinality(Waiters(m))
    BY DEF ConflictCountsMatch
  <1> QED BY <1>1, <1>3, <1>4 DEF Dec, TypeOK, Count

-----------------------------------------------------------------------------
(* Modes. *)

(* LockConflictsTable is symmetric. *)
LEMMA ConflictsSymmetric ==
    ASSUME NEW m \in Mode, NEW n \in Mode
    PROVE  conflicts(m, {n}) <=> conflicts(n, {m})
  BY DEF conflicts, LockConflictsTable, Mode, MODE_NONE

(* Intent modes never conflict. *)
LEMMA IntentsCompatible ==
    ASSUME NEW m \in IntentModes, NEW S \in SUBSET IntentModes
    PROVE  ~conflicts(m, S)
  BY DEF conflicts, LockConflictsTable, Mode, IntentModes, MODE_NONE

(* A mode conflicts with a set of modes when it does with one of them. *)
LEMMA ConflictsWithOne ==
    ASSUME NEW m \in Mode, NEW S, NEW n \in S, conflicts(m, {n})
    PROVE  conflicts(m, S)
  BY DEF conflicts

(* A covered mode conflicts with nothing that the covering mode does not. *)
LEMMA CoveredConflicts ==
    ASSUME NEW m \in Mode, NEW n \in Mode, NEW S, isModeCovered(m, n), conflicts(m, S)
    PROVE  conflicts(n, S)
  BY DEF conflicts, isModeCovered

(* Every other holder is among the modes an upgrade is compared with. *)
LEMMA OthersAreCompared ==
    ASSUME Inv, NEW q \in Linked(grantedList), NEW b \in Linked(grantedList), b # q
    PROVE  /\ mode[b] \in grantedModes
           /\ mode[b] \in grantedModesWithout(q, {mode[q]})
           /\ status[q] = "CONVERTING" =>
                mode[b] \in grantedModesWithout(q, {mode[q], convertMode[q]})
  <1>1. q \in Locker /\ b \in Locker
    BY LinkedLockers DEF Inv
  <1>2. mode[q] \in Mode /\ mode[b] \in Mode /\ (status[q] = "CONVERTING" => convertMode[q] \in Mode)
    BY <1>1 DEF Inv, RequestInv, PlaceInv, ModeInv, OnHead
  <1>3. /\ grantedCounts[mode[b]] > 0
        /\ mode[b] = mode[q] => grantedCounts[mode[b]] > 1
        /\ status[q] = "CONVERTING" /\ mode[b] = convertMode[q] => grantedCounts[mode[b]] > 1
    BY <1>2, Counted DEF Inv
  <1> QED BY <1>2, <1>3 DEF grantedModes, grantedModesWithout

-----------------------------------------------------------------------------
(* Steps and the parts of the invariant they leave alone. *)

\* A step leaves the request of x alone.
Untouched(x) ==
    /\ pc'[x] = pc[x]
    /\ status'[x] = status[x]
    /\ mode'[x] = mode[x]
    /\ convertMode'[x] = convertMode[x]
    /\ recursiveCount'[x] = recursiveCount[x]
    /\ partitioned'[x] = partitioned[x]
    /\ newMode'[x] = newMode[x]
    /\ notified'[x] = notified[x]
    /\ OnHead(x)' <=> OnHead(x)
    /\ Queued(x)' <=> Queued(x)
    /\ OnPartition(x)' <=> OnPartition(x)

LockerInv(x) == StatusInv(x) /\ ModeInv(x) /\ PlaceInv(x) /\ NotifyInv(x)

(* The requests that a step leaves alone stay as they should be. *)
LEMMA OtherRequests ==
    ASSUME RequestInv, NEW x \in Locker, Untouched(x), bucketMutex = x => bucketMutex' = x
    PROVE  LockerInv(x)'
  <1>1. StatusInv(x) /\ ModeInv(x) /\ PlaceInv(x) /\ NotifyInv(x)
    BY DEF RequestInv
  <1>2. StatusInv(x)'
    BY <1>1 DEF Untouched, StatusInv
  <1>3. ModeInv(x)'
    BY <1>1 DEF Untouched, ModeInv
  <1>4. PlaceInv(x)'
    BY <1>1 DEF Untouched, PlaceInv
  <1>5. NotifyInv(x)'
    BY <1>1 DEF Untouched, NotifyInv
  <1> QED BY <1>2, <1>3, <1>4, <1>5 DEF LockerInv

(* With no partition on the lock head, no request is on a partition. *)
LEMMA NothingPartitioned ==
    ASSUME TypeOK, PartitionedIsUncontended, ~PartitionedHead, NEW p \in Partition
    PROVE  ~plhExists[p] /\ plhGrantedList[p] = <<>> /\ Linked(plhGrantedList[p]) = {}
  <1>1. partitions = <<>> /\ Len(partitions) = 0
    BY DEF PartitionedHead
  <1>2. ~plhExists[p]
    BY <1>1 DEF PartitionedIsUncontended
  <1>3. plhGrantedList[p] = <<>>
    BY <1>2 DEF PartitionedIsUncontended
  <1> QED BY <1>2, <1>3 DEF Linked

USE DEF reqVars, headVars, grantedVars, conflictVars, plhVars, mutexVars, scanVars

\* A step touches no request but that of l.
OnlyRequestOf(l) ==
    /\ \A t \in Thread \ {l} : pc'[t] = pc[t]
    /\ \A x \in Locker \ {l} :
        /\ status'[x] = status[x] /\ mode'[x] = mode[x]
        /\ convertMode'[x] = convertMode[x] /\ recursiveCount'[x] = recursiveCount[x]
        /\ partitioned'[x] = partitioned[x] /\ newMode'[x] = newMode[x]
        /\ notified'[x] = notified[x] /\ compatibleFirst'[x] = compatibleFirst[x]

\* A step keeps what a linked request of x is counted by.
KeepsModes(x) ==
    /\ mode'[x] = mode[x] /\ status'[x] = status[x]
    /\ convertMode'[x] = convertMode[x] /\ compatibleFirst'[x] = compatibleFirst[x]

SamePlace(x) ==
    /\ OnHead(x)' <=> OnHead(x)
    /\ Queued(x)' <=> Queued(x)
    /\ OnPartition(x)' <=> OnPartition(x)

(* The two lists of the lock head, its counts and the modes of the requests *)
(* on it stay as they are.                                                  *)
LEMMA HeadUnchanged ==
    ASSUME Inv, UNCHANGED <<grantedVars, conflictVars>>,
           \A x \in Linked(grantedList) \cup Linked(conflictList) : KeepsModes(x)
    PROVE  CountsMatchLists' /\ Compatible' /\ UNCHANGED <<grantedModes, conflictModes>>
  <1>1. CountsMatchLists'
    <2>1. /\ \A m \in Mode : /\ Holders(m)' = Holders(m)
                             /\ Upgraders(m)' = Upgraders(m)
                             /\ Waiters(m)' = Waiters(m)
          /\ Converting' = Converting
          /\ Prior' = Prior
      BY DEF Holders, Upgraders, Waiters, Converting, Prior, KeepsModes
    <2> QED BY <2>1, CountsSplit DEF Inv, GrantedCountsMatch, ConflictCountsMatch
  <1>2. Compatible'
    BY DEF Inv, Compatible, KeepsModes
  <1> QED BY <1>1, <1>2 DEF grantedModes, conflictModes

(* A partition gets another list of requests. *)
LEMMA PartitionList ==
    ASSUME Inv, NEW p \in Partition, NEW s \in Seq(Locker), NoDuplicates(s),
           \A x \in Linked(s) : PartitionOf[x] = p,
           plhGrantedList' = [plhGrantedList EXCEPT ![p] = s]
    PROVE  /\ plhGrantedList' \in [Partition -> Seq(Locker)]
           /\ plhGrantedList'[p] = s
           /\ \A r \in Partition \ {p} : plhGrantedList'[r] = plhGrantedList[r]
           /\ NoDuplicates(grantedList') /\ NoDuplicates(conflictList') => ListsInv'
           /\ \A x \in Locker :
                /\ PartitionOf[x] = p => (OnPartition(x)' <=> x \in Linked(s))
                /\ PartitionOf[x] # p => (OnPartition(x)' <=> OnPartition(x))
  <1>1. /\ plhGrantedList' \in [Partition -> Seq(Locker)]
        /\ plhGrantedList'[p] = s
        /\ \A r \in Partition \ {p} : plhGrantedList'[r] = plhGrantedList[r]
    BY DEF Inv, TypeOK
  <1>2. \A x \in Locker : PartitionOf[x] \in Partition
    BY PartitionAssumption
  <1>3. NoDuplicates(grantedList') /\ NoDuplicates(conflictList') => ListsInv'
    BY <1>1 DEF Inv, ListsInv
  <1> QED BY <1>1, <1>2, <1>3 DEF OnPartition

(* A step changes one request, and no other one is linked or unlinked. *)
LEMMA RequestStep ==
    ASSUME Inv, NEW l \in Locker, OnlyRequestOf(l), \A x \in Locker \ {l} : SamePlace(x),
           bucketMutex \in {Nobody, l, bucketMutex'},
           pc'[l] \in {"lockMigrate", "convertMigrate"} \cup Scanning => bucketMutex' = l,
           LockerInv(l)'
    PROVE  RequestInv' /\ MutexInv'
  <1>1. RequestInv'
    <2>1. ASSUME NEW x \in Locker, x # l PROVE LockerInv(x)'
      <3>1. Untouched(x)
        BY <2>1 DEF Untouched, Thread, OnlyRequestOf, SamePlace
      <3>2. bucketMutex = x => bucketMutex' = x
        BY <2>1, LockerAssumption
      <3> QED BY <3>1, <3>2, OtherRequests DEF Inv
    <2> QED BY <2>1 DEF RequestInv, LockerInv
  <1>2. MutexInv'
    <2>1. l # Cleaner /\ pc'[Cleaner] = pc[Cleaner]
      BY LockerAssumption DEF Thread, OnlyRequestOf
    <2>2. pc'[l] # "cleanupMigrate"
      BY DEF LockerInv, StatusInv
    <2>3. \A t \in Thread : t # Nobody
      BY LockerAssumption DEF Thread
    <2> QED BY <2>1, <2>2, <2>3 DEF Inv, MutexInv, OnlyRequestOf
  <1> QED BY <1>1, <1>2

(* A step of one locker that leaves the lists alone. *)
LEMMA OneRequestStep ==
    ASSUME Inv, NEW l \in Locker, TypeOK', OnlyRequestOf(l),
           UNCHANGED <<headExists, partitions, grantedVars, conflictVars, plhVars>>,
           OnHead(l) \/ Queued(l) => KeepsModes(l),
           bucketMutex \in {Nobody, l, bucketMutex'},
           pc'[l] \in {"lockMigrate", "convertMigrate"} \cup Scanning => bucketMutex' = l,
           SamePlace(l) => LockerInv(l)'
    PROVE  Inv'
  <1>1. \A x \in Locker : SamePlace(x)
    BY DEF OnHead, Queued, OnPartition, SamePlace
  <1>2. \A x \in Linked(grantedList) \cup Linked(conflictList) : KeepsModes(x)
    BY LinkedLockers DEF Inv, OnlyRequestOf, KeepsModes, OnHead, Queued
  <1>3. CountsMatchLists' /\ Compatible' /\ UNCHANGED <<grantedModes, conflictModes>>
    BY <1>2, HeadUnchanged
  <1>4. ListsInv'
    BY DEF Inv, ListsInv
  <1>5. PartitionedIsUncontended'
    BY <1>3 DEF Inv, PartitionedIsUncontended, PartitionedHead
  <1>6. RequestInv' /\ MutexInv'
    BY <1>1, RequestStep
  <1> QED BY <1>3, <1>4, <1>5, <1>6 DEF Inv

(* LockerImpl::_lockBegin makes a new request. *)
LEMMA LockBeginInv ==
    ASSUME Inv, NEW l \in Locker, NEW m \in AcquireModes, LockBegin(l, m), sameResource
    PROVE  Inv'
  <1> USE DEF LockBegin, goto, clearNotification
  <1>0. LockerInv(l) /\ TypeOK /\ MutexInv
    BY DEF Inv, RequestInv, LockerInv
  <1>a. /\ recursiveCount[l] = 0 /\ status[l] = "NEW" /\ newMode[l] = MODE_NONE
        /\ ~OnHead(l) /\ ~Queued(l) /\ ~OnPartition(l)
        /\ pc'[l] = IF m \in IntentModes THEN "lockPartition" ELSE "lockBucket"
        /\ m \in Mode /\ HasPriority(m) \in BOOLEAN
    BY <1>0, ModeAssumption DEF TypeOK, Thread, HasPriority, LockerInv, StatusInv, PlaceInv,
       ModeInv, Upgrading
  <1>1. TypeOK'
    BY <1>0, <1>a, ModeAssumption DEF TypeOK, Label, sameResource, Thread
  <1>2. OnlyRequestOf(l)
    BY <1>0 DEF TypeOK, OnlyRequestOf
  <1>3. OnHead(l) \/ Queued(l) => KeepsModes(l)
    BY <1>0, <1>a DEF TypeOK, KeepsModes, LockerInv, StatusInv, PlaceInv, ModeInv,
       NotifyInv, Asking, Upgrading, Scanning
  <1>4. SamePlace(l) => LockerInv(l)'
    BY <1>0, <1>a, ModeAssumption DEF TypeOK, SamePlace, LockerInv, StatusInv, PlaceInv,
       ModeInv, NotifyInv, Asking, Upgrading, Scanning, Thread, MODE_NONE
  <1>5. UNCHANGED <<headExists, partitions, grantedVars, conflictVars, plhVars>>
    OBVIOUS
  <1>6. /\ bucketMutex \in {Nobody, l, bucketMutex'}
        /\ pc'[l] \in {"lockMigrate", "convertMigrate"} \cup Scanning => bucketMutex' = l
    BY <1>0 DEF TypeOK, MutexInv, Scanning, Thread
  <1> QED BY <1>1, <1>2, <1>3, <1>4, <1>5, <1>6, OneRequestStep

(* LockManager::lock goes on to migrate the partitions. *)
LEMMA LockMigrateInv ==
    ASSUME Inv, NEW l \in Locker, LockMigrate(l), sameResource
    PROVE  Inv'
  <1> USE DEF LockMigrate, goto
  <1>0. LockerInv(l) /\ TypeOK /\ MutexInv
    BY DEF Inv, RequestInv, LockerInv
  <1>1. TypeOK'
    BY <1>0, ModeAssumption DEF TypeOK, Label, sameResource, Thread
  <1>2. OnlyRequestOf(l)
    BY <1>0 DEF TypeOK, OnlyRequestOf
  <1>3. OnHead(l) \/ Queued(l) => KeepsModes(l)
    BY <1>0 DEF TypeOK, KeepsModes, LockerInv, StatusInv, PlaceInv, ModeInv, NotifyInv,
       Asking, Upgrading, Scanning
  <1>4. SamePlace(l) => LockerInv(l)'
    BY <1>0, ModeAssumption DEF TypeOK, SamePlace, LockerInv, StatusInv, PlaceInv, ModeInv,
       NotifyInv, Asking, Upgrading, Scanning, Thread, MODE_NONE
  <1>5. UNCHANGED <<headExists, partitions, grantedVars, conflictVars, plhVars>>
    OBVIOUS
  <1>6. /\ bucketMutex \in {Nobody, l, bucketMutex'}
        /\ pc'[l] \in {"lockMigrate", "convertMigrate"} \cup Scanning => bucketMutex' = l
    BY <1>0 DEF TypeOK, MutexInv, Scanning, Thread
  <1> QED BY <1>1, <1>2, <1>3, <1>4, <1>5, <1>6, OneRequestStep

(* A covered mode is one reference more. *)
LEMMA ConvertCoveredInv ==
    ASSUME Inv, NEW l \in Locker, NEW m \in upgradeModes, ConvertCovered(l, m), sameResource
    PROVE  Inv'
  <1> USE DEF ConvertCovered, CanConvert, clearNotification
  <1>0. LockerInv(l) /\ TypeOK /\ MutexInv
    BY DEF Inv, RequestInv, LockerInv
  <1>a. m \in Mode /\ compatibleFirst' = compatibleFirst
    <2>1. ~HasPriority(m) /\ m \in Mode
      BY ModeAssumption DEF upgradeModes, HasPriority
    <2>2. compatibleFirst'[l] = compatibleFirst[l]
      BY <1>0, <2>1 DEF TypeOK
    <2> QED BY <1>0, <2>1, <2>2 DEF TypeOK
  <1>1. TypeOK'
    BY <1>0, <1>a, ModeAssumption DEF TypeOK, Label, sameResource, Thread
  <1>2. OnlyRequestOf(l)
    BY <1>0 DEF TypeOK, OnlyRequestOf
  <1>3. OnHead(l) \/ Queued(l) => KeepsModes(l)
    BY <1>0, <1>a DEF TypeOK, KeepsModes, LockerInv, StatusInv, PlaceInv, ModeInv,
       NotifyInv, Asking, Upgrading, Scanning
  <1>4. SamePlace(l) => LockerInv(l)'
    BY <1>0, <1>a, ModeAssumption DEF TypeOK, SamePlace, LockerInv, StatusInv, PlaceInv,
       ModeInv, NotifyInv, Asking, Upgrading, Scanning, Thread, MODE_NONE
  <1>5. UNCHANGED <<headExists, partitions, grantedVars, conflictVars, plhVars>>
    OBVIOUS
  <1>6. /\ bucketMutex \in {Nobody, l, bucketMutex'}
        /\ pc'[l] \in {"lockMigrate", "convertMigrate"} \cup Scanning => bucketMutex' = l
    BY <1>0 DEF TypeOK, MutexInv, Scanning, Thread
  <1> QED BY <1>1, <1>2, <1>3, <1>4, <1>5, <1>6, OneRequestStep

(* An upgrade begins. *)
LEMMA ConvertBeginInv ==
    ASSUME Inv, NEW l \in Locker, NEW m \in upgradeModes, ConvertBegin(l, m), sameResource
    PROVE  Inv'
  <1> USE DEF ConvertBegin, CanConvert, clearNotification, goto
  <1>0. LockerInv(l) /\ TypeOK /\ MutexInv
    BY DEF Inv, RequestInv, LockerInv
  <1>a. m \in Mode /\ compatibleFirst' = compatibleFirst
    <2>1. ~HasPriority(m) /\ m \in Mode
      BY ModeAssumption DEF upgradeModes, HasPriority
    <2>2. compatibleFirst'[l] = compatibleFirst[l]
      BY <1>0, <2>1 DEF TypeOK
    <2> QED BY <1>0, <2>1, <2>2 DEF TypeOK
  <1>1. TypeOK'
    BY <1>0, <1>a, ModeAssumption DEF TypeOK, Label, sameResource, Thread
  <1>2. OnlyRequestOf(l)
    BY <1>0 DEF TypeOK, OnlyRequestOf
  <1>3. OnHead(l) \/ Queued(l) => KeepsModes(l)
    BY <1>0, <1>a DEF TypeOK, KeepsModes, LockerInv, StatusInv, PlaceInv, ModeInv,
       NotifyInv, Asking, Upgrading, Scanning
  <1>4. SamePlace(l) => LockerInv(l)'
    BY <1>0, <1>a, ModeAssumption DEF TypeOK, SamePlace, LockerInv, StatusInv, PlaceInv,
       ModeInv, NotifyInv, Asking, Upgrading, Scanning, Thread, MODE_NONE
  <1>5. UNCHANGED <<headExists, partitions, grantedVars, conflictVars, plhVars>>
    OBVIOUS
  <1>6. /\ bucketMutex \in {Nobody, l, bucketMutex'}
        /\ pc'[l] \in {"lockMigrate", "convertMigrate"} \cup Scanning => bucketMutex' = l
    BY <1>0 DEF TypeOK, MutexInv, Scanning, Thread
  <1> QED BY <1>1, <1>2, <1>3, <1>4, <1>5, <1>6, OneRequestStep

(* LockManager::convert goes on to migrate the partitions. *)
LEMMA ConvertMigrateInv ==
    ASSUME Inv, NEW l \in Locker, ConvertMigrate(l), sameResource
    PROVE  Inv'
  <1> USE DEF ConvertMigrate, goto
  <1>0. LockerInv(l) /\ TypeOK /\ MutexInv
    BY DEF Inv, RequestInv, LockerInv
  <1>1. TypeOK'
    BY <1>0, ModeAssumption DEF TypeOK, Label, sameResource, Thread
  <1>2. OnlyRequestOf(l)
    BY <1>0 DEF TypeOK, OnlyRequestOf
  <1>3. OnHead(l) \/ Queued(l) => KeepsModes(l)
    BY <1>0 DEF TypeOK, KeepsModes, LockerInv, StatusInv, PlaceInv, ModeInv, NotifyInv,
       Asking, Upgrading, Scanning
  <1>4. SamePlace(l) => LockerInv(l)'
    BY <1>0, ModeAssumption DEF TypeOK, SamePlace, LockerInv, StatusInv, PlaceInv, ModeInv,
       NotifyInv, Asking, Upgrading, Scanning, Thread, MODE_NONE
  <1>5. UNCHANGED <<headExists, partitions, grantedVars, conflictVars, plhVars>>
    OBVIOUS
  <1>6. /\ bucketMutex \in {Nobody, l, bucketMutex'}
        /\ pc'[l] \in {"lockMigrate", "convertMigrate"} \cup Scanning => bucketMutex' = l
    BY <1>0 DEF TypeOK, MutexInv, Scanning, Thread
  <1> QED BY <1>1, <1>2, <1>3, <1>4, <1>5, <1>6, OneRequestStep

(* The wait ends with a grant. *)
LEMMA WaitGrantedInv ==
    ASSUME Inv, NEW l \in Locker, WaitGranted(l), sameResource
    PROVE  Inv'
  <1> USE DEF WaitGranted, goto
  <1>0. LockerInv(l) /\ TypeOK /\ MutexInv
    BY DEF Inv, RequestInv, LockerInv
  <1>1. TypeOK'
    BY <1>0, ModeAssumption DEF TypeOK, Label, sameResource, Thread
  <1>2. OnlyRequestOf(l)
    BY <1>0 DEF TypeOK, OnlyRequestOf
  <1>3. OnHead(l) \/ Queued(l) => KeepsModes(l)
    BY <1>0 DEF TypeOK, KeepsModes, LockerInv, StatusInv, PlaceInv, ModeInv, NotifyInv,
       Asking, Upgrading, Scanning
  <1>4. SamePlace(l) => LockerInv(l)'
    BY <1>0, ModeAssumption DEF TypeOK, SamePlace, LockerInv, StatusInv, PlaceInv, ModeInv,
       NotifyInv, Asking, Upgrading, Scanning, Thread, MODE_NONE
  <1>5. UNCHANGED <<headExists, partitions, grantedVars, conflictVars, plhVars>>
    OBVIOUS
  <1>6. /\ bucketMutex \in {Nobody, l, bucketMutex'}
        /\ pc'[l] \in {"lockMigrate", "convertMigrate"} \cup Scanning => bucketMutex' = l
    BY <1>0 DEF TypeOK, MutexInv, Scanning, Thread
  <1> QED BY <1>1, <1>2, <1>3, <1>4, <1>5, <1>6, OneRequestStep

(* The wait is given up. *)
LEMMA WaitAbandonedInv ==
    ASSUME Inv, NEW l \in Locker, WaitAbandoned(l), NoGrantRace, sameResource
    PROVE  Inv'
  <1> USE DEF WaitAbandoned, UnlockBegin, goto, NoGrantRace
  <1>0. LockerInv(l) /\ TypeOK /\ MutexInv
    BY DEF Inv, RequestInv, LockerInv
  <1>a. /\ recursiveCount[l] > 0 /\ recursiveCount[l] - 1 \in Nat
        /\ bucketMutex' \in Thread \cup {Nobody}
    BY <1>0 DEF TypeOK, LockerInv, StatusInv, Thread
  <1>1. TypeOK'
    BY <1>0, <1>a, ModeAssumption DEF TypeOK, Label, sameResource, Thread
  <1>2. OnlyRequestOf(l)
    BY <1>0 DEF TypeOK, OnlyRequestOf
  <1>3. OnHead(l) \/ Queued(l) => KeepsModes(l)
    BY <1>0, <1>a DEF TypeOK, KeepsModes, LockerInv, StatusInv, PlaceInv, ModeInv,
       NotifyInv, Asking, Upgrading, Scanning
  <1>4. SamePlace(l) => LockerInv(l)'
    BY <1>0, <1>a, ModeAssumption DEF TypeOK, SamePlace, LockerInv, StatusInv, PlaceInv,
       ModeInv, NotifyInv, Asking, Upgrading, Scanning, Thread, MODE_NONE
  <1>5. UNCHANGED <<headExists, partitions, grantedVars, conflictVars, plhVars>>
    OBVIOUS
  <1>6. /\ bucketMutex \in {Nobody, l, bucketMutex'}
        /\ pc'[l] \in {"lockMigrate", "convertMigrate"} \cup Scanning => bucketMutex' = l
    BY <1>0 DEF TypeOK, MutexInv, Scanning, Thread
  <1> QED BY <1>1, <1>2, <1>3, <1>4, <1>5, <1>6, OneRequestStep

(* A reference is dropped. *)
LEMMA UnlockInv ==
    ASSUME Inv, NEW l \in Locker, Unlock(l), sameResource
    PROVE  Inv'
  <1> USE DEF Unlock, UnlockBegin, goto
  <1>0. LockerInv(l) /\ TypeOK /\ MutexInv
    BY DEF Inv, RequestInv, LockerInv
  <1>1. TypeOK'
    BY <1>0, ModeAssumption DEF TypeOK, Label, sameResource, Thread
  <1>2. OnlyRequestOf(l)
    BY <1>0 DEF TypeOK, OnlyRequestOf
  <1>3. OnHead(l) \/ Queued(l) => KeepsModes(l)
    BY <1>0 DEF TypeOK, KeepsModes, LockerInv, StatusInv, PlaceInv, ModeInv, NotifyInv,
       Asking, Upgrading, Scanning
  <1>4. SamePlace(l) => LockerInv(l)'
    BY <1>0, ModeAssumption DEF TypeOK, SamePlace, LockerInv, StatusInv, PlaceInv, ModeInv,
       NotifyInv, Asking, Upgrading, Scanning, Thread, MODE_NONE
  <1>5. UNCHANGED <<headExists, partitions, grantedVars, conflictVars, plhVars>>
    OBVIOUS
  <1>6. /\ bucketMutex \in {Nobody, l, bucketMutex'}
        /\ pc'[l] \in {"lockMigrate", "convertMigrate"} \cup Scanning => bucketMutex' = l
    BY <1>0 DEF TypeOK, MutexInv, Scanning, Thread
  <1> QED BY <1>1, <1>2, <1>3, <1>4, <1>5, <1>6, OneRequestStep

(* The scan passes a granted request. *)
LEMMA SkipConversionInv ==
    ASSUME Inv, NEW l \in Locker, SkipConversion(l), sameResource
    PROVE  Inv'
  <1> USE DEF SkipConversion
  <1>0. LockerInv(l) /\ TypeOK /\ MutexInv
    BY DEF Inv, RequestInv, LockerInv
  <1>1. TypeOK'
    BY <1>0, ModeAssumption DEF TypeOK, Label, sameResource, Thread
  <1>2. OnlyRequestOf(l)
    BY <1>0 DEF TypeOK, OnlyRequestOf
  <1>3. OnHead(l) \/ Queued(l) => KeepsModes(l)
    BY <1>0 DEF TypeOK, KeepsModes, LockerInv, StatusInv, PlaceInv, ModeInv, NotifyInv,
       Asking, Upgrading, Scanning
  <1>4. SamePlace(l) => LockerInv(l)'
    BY <1>0, ModeAssumption DEF TypeOK, SamePlace, LockerInv, StatusInv, PlaceInv, ModeInv,
       NotifyInv, Asking, Upgrading, Scanning, Thread, MODE_NONE
  <1>5. UNCHANGED <<headExists, partitions, grantedVars, conflictVars, plhVars>>
    OBVIOUS
  <1>6. /\ bucketMutex \in {Nobody, l, bucketMutex'}
        /\ pc'[l] \in {"lockMigrate", "convertMigrate"} \cup Scanning => bucketMutex' = l
    BY <1>0 DEF TypeOK, MutexInv, Scanning, Thread
  <1> QED BY <1>1, <1>2, <1>3, <1>4, <1>5, <1>6, OneRequestStep

(* The scan of the upgrades ends. *)
LEMMA ConversionsDoneInv ==
    ASSUME Inv, NEW l \in Locker, ConversionsDone(l), sameResource
    PROVE  Inv'
  <1> USE DEF ConversionsDone, goto
  <1>0. LockerInv(l) /\ TypeOK /\ MutexInv
    BY DEF Inv, RequestInv, LockerInv
  <1>1. TypeOK'
    BY <1>0, ModeAssumption DEF TypeOK, Label, sameResource, Thread
  <1>2. OnlyRequestOf(l)
    BY <1>0 DEF TypeOK, OnlyRequestOf
  <1>3. OnHead(l) \/ Queued(l) => KeepsModes(l)
    BY <1>0 DEF TypeOK, KeepsModes, LockerInv, StatusInv, PlaceInv, ModeInv, NotifyInv,
       Asking, Upgrading, Scanning
  <1>4. SamePlace(l) => LockerInv(l)'
    BY <1>0, ModeAssumption DEF TypeOK, SamePlace, LockerInv, StatusInv, PlaceInv, ModeInv,
       NotifyInv, Asking, Upgrading, Scanning, Thread, MODE_NONE
  <1>5. UNCHANGED <<headExists, partitions, grantedVars, conflictVars, plhVars>>
    OBVIOUS
  <1>6. /\ bucketMutex \in {Nobody, l, bucketMutex'}
        /\ pc'[l] \in {"lockMigrate", "convertMigrate"} \cup Scanning => bucketMutex' = l
    BY <1>0 DEF TypeOK, MutexInv, Scanning, Thread
  <1> QED BY <1>1, <1>2, <1>3, <1>4, <1>5, <1>6, OneRequestStep

(* The scan passes a waiter. *)
LEMMA SkipWaiterInv ==
    ASSUME Inv, NEW l \in Locker, SkipWaiter(l), sameResource
    PROVE  Inv'
  <1> USE DEF SkipWaiter
  <1>0. LockerInv(l) /\ TypeOK /\ MutexInv
    BY DEF Inv, RequestInv, LockerInv
  <1>1. TypeOK'
    BY <1>0, ModeAssumption DEF TypeOK, Label, sameResource, Thread
  <1>2. OnlyRequestOf(l)
    BY <1>0 DEF TypeOK, OnlyRequestOf
  <1>3. OnHead(l) \/ Queued(l) => KeepsModes(l)
    BY <1>0 DEF TypeOK, KeepsModes, LockerInv, StatusInv, PlaceInv, ModeInv, NotifyInv,
       Asking, Upgrading, Scanning
  <1>4. SamePlace(l) => LockerInv(l)'
    BY <1>0, ModeAssumption DEF TypeOK, SamePlace, LockerInv, StatusInv, PlaceInv, ModeInv,
       NotifyInv, Asking, Upgrading, Scanning, Thread, MODE_NONE
  <1>5. UNCHANGED <<headExists, partitions, grantedVars, conflictVars, plhVars>>
    OBVIOUS
  <1>6. /\ bucketMutex \in {Nobody, l, bucketMutex'}
        /\ pc'[l] \in {"lockMigrate", "convertMigrate"} \cup Scanning => bucketMutex' = l
    BY <1>0 DEF TypeOK, MutexInv, Scanning, Thread
  <1> QED BY <1>1, <1>2, <1>3, <1>4, <1>5, <1>6, OneRequestStep

(* _onLockModeChanged and its caller end. *)
LEMMA LockModeChangedDoneInv ==
    ASSUME Inv, NEW l \in Locker, LockModeChangedDone(l), sameResource
    PROVE  Inv'
  <1>0. LockerInv(l) /\ TypeOK /\ MutexInv
    BY DEF Inv, RequestInv, LockerInv
  <1>a. /\ status' \in [Locker -> {"NEW", "GRANTED", "WAITING", "CONVERTING"}]
        /\ mode' \in [Locker -> Mode \cup {MODE_NONE}]
        /\ partitioned' \in [Locker -> BOOLEAN] /\ compatibleFirst' \in [Locker -> BOOLEAN]
    BY <1>0 DEF TypeOK, LockModeChangedDone, ForgetRequest
  <1>b. /\ pc' \in [Thread -> Label]
        /\ bucketMutex' \in Thread \cup {Nobody}
        /\ UNCHANGED <<convertMode, recursiveCount, newMode, notified, headVars, plhVars,
                       partitionMutex>>
        /\ iter' = 1 /\ checkConflictQueue' = FALSE /\ newlyCompatibleFirst' = FALSE
    BY <1>0 DEF TypeOK, Label, LockModeChangedDone, goto
  <1>1. TypeOK'
    <2>1. iter' \in Nat \ {0}
      BY <1>b
    <2>2. checkConflictQueue' \in BOOLEAN /\ newlyCompatibleFirst' \in BOOLEAN
      BY <1>b, Zenon
    <2>3. priorityResource' \in PriorityResources
      BY <1>0 DEF TypeOK, sameResource
    <2> QED BY <1>0, <1>a, <1>b, <2>1, <2>2, <2>3, Zenon DEF TypeOK
  <1>2. OnlyRequestOf(l)
    BY <1>0 DEF TypeOK, LockModeChangedDone, ForgetRequest, goto, OnlyRequestOf
  <1>3. OnHead(l) \/ Queued(l) => KeepsModes(l)
    BY <1>0, <1>a DEF TypeOK, LockModeChangedDone, ForgetRequest, KeepsModes, LockerInv,
       StatusInv, PlaceInv, ModeInv, NotifyInv, Asking, Upgrading, Scanning
  <1>4. SamePlace(l) => LockerInv(l)'
    BY <1>0, <1>a, ModeAssumption DEF TypeOK, LockModeChangedDone, ForgetRequest, goto,
       SamePlace, LockerInv, StatusInv, PlaceInv, ModeInv, NotifyInv, Asking, Upgrading,
       Scanning, Thread, MODE_NONE
  <1>5. UNCHANGED <<headExists, partitions, grantedVars, conflictVars, plhVars>>
    BY DEF LockModeChangedDone
  <1>6. /\ bucketMutex \in {Nobody, l, bucketMutex'}
        /\ pc'[l] \in {"lockMigrate", "convertMigrate"} \cup Scanning => bucketMutex' = l
    BY <1>0 DEF TypeOK, LockModeChangedDone, goto, MutexInv, Scanning, Thread
  <1> QED BY <1>1, <1>2, <1>3, <1>4, <1>5, <1>6, OneRequestStep

(* A new request is linked nowhere. *)
LEMMA NewIsUnlinked ==
    ASSUME Inv, NEW l \in Locker, status[l] = "NEW"
    PROVE  ~OnHead(l) /\ ~Queued(l) /\ ~OnPartition(l)
  BY DEF Inv, RequestInv, PlaceInv

(* Granting on a partition links a new request there. *)
LEMMA PartitionPush ==
    ASSUME Inv, NEW l \in Locker, status[l] = "NEW",
           plhGrantedList' = [plhGrantedList EXCEPT ![PartitionOf[l]] = push_back(@, l)]
    PROVE  /\ plhGrantedList' \in [Partition -> Seq(Locker)]
           /\ \A r \in Partition \ {PartitionOf[l]} : plhGrantedList'[r] = plhGrantedList[r]
           /\ UNCHANGED <<grantedList, conflictList>> => ListsInv'
           /\ OnPartition(l)'
           /\ \A x \in Locker \ {l} : OnPartition(x)' <=> OnPartition(x)
  <1> DEFINE p == PartitionOf[l]
             s == push_back(plhGrantedList[p], l)
  <1>1. p \in Partition /\ plhGrantedList[p] \in Seq(Locker)
    BY PartitionAssumption DEF Inv, TypeOK
  <1>2. l \notin Linked(plhGrantedList[p]) /\ NoDuplicates(plhGrantedList[p])
    BY <1>1, NewIsUnlinked DEF OnPartition, Inv, ListsInv
  <1>3. s \in Seq(Locker) /\ Linked(s) = Linked(plhGrantedList[p]) \cup {l} /\ NoDuplicates(s)
    BY <1>1, <1>2, PushBack
  <1>4. \A x \in Linked(s) : PartitionOf[x] = p
    BY <1>1, <1>3 DEF Inv, ListsInv
  <1>5. plhGrantedList' = [plhGrantedList EXCEPT ![p] = s]
    OBVIOUS
  <1> HIDE DEF s
  <1>6. /\ plhGrantedList' \in [Partition -> Seq(Locker)]
        /\ \A r \in Partition \ {p} : plhGrantedList'[r] = plhGrantedList[r]
        /\ NoDuplicates(grantedList') /\ NoDuplicates(conflictList') => ListsInv'
        /\ \A x \in Locker :
                /\ PartitionOf[x] = p => (OnPartition(x)' <=> x \in Linked(s))
                /\ PartitionOf[x] # p => (OnPartition(x)' <=> OnPartition(x))
    BY <1>1, <1>3, <1>4, <1>5, PartitionList
  <1> QED BY <1>3, <1>6 DEF OnPartition, Inv, ListsInv

(* The intent fast path. *)
LEMMA LockPartitionInv ==
    ASSUME Inv, NEW l \in Locker, LockPartition(l), sameResource
    PROVE  Inv'
  <1> DEFINE p == PartitionOf[l]
  <1>0. LockerInv(l) /\ TypeOK /\ MutexInv /\ p \in Partition
    BY PartitionAssumption DEF Inv, RequestInv, LockerInv
  <1>1. /\ pc[l] = "lockPartition" /\ status[l] = "NEW" /\ recursiveCount[l] = 1
        /\ mode[l] \in IntentModes /\ partitioned[l] /\ newMode[l] = MODE_NONE /\ ~notified[l]
    BY <1>0 DEF LockPartition, LockerInv, StatusInv, ModeInv, NotifyInv, Asking, Upgrading
  <1>2. ~OnHead(l) /\ ~Queued(l) /\ ~OnPartition(l)
    BY <1>1, NewIsUnlinked
  <1>3. CASE plhExists[p]
    <2>1. /\ plhGrantedList' = [plhGrantedList EXCEPT ![p] = push_back(@, l)]
          /\ status' = [status EXCEPT ![l] = "GRANTED"]
          /\ pc' = [pc EXCEPT ![l] = "idle"]
          /\ UNCHANGED <<mode, convertMode, recursiveCount, partitioned, compatibleFirst,
                         newMode, notified, headVars, plhExists, mutexVars, scanVars>>
      BY <1>3 DEF LockPartition, goto
    <2>2. /\ plhGrantedList' \in [Partition -> Seq(Locker)]
          /\ \A r \in Partition \ {p} : plhGrantedList'[r] = plhGrantedList[r]
          /\ ListsInv'
          /\ OnPartition(l)'
          /\ \A x \in Locker \ {l} : OnPartition(x)' <=> OnPartition(x)
      BY <1>1, <2>1, PartitionPush
    <2>3. TypeOK'
      BY <1>0, <2>1, <2>2 DEF TypeOK, Label, sameResource
    <2>4. OnHead(l)' = OnHead(l) /\ Queued(l)' = Queued(l)
      BY <2>1 DEF OnHead, Queued
    <2>a. /\ pc'[l] = "idle" /\ status'[l] = "GRANTED" /\ mode'[l] = mode[l] /\ mode[l] \in Mode
          /\ recursiveCount'[l] = 1 /\ partitioned'[l] /\ newMode'[l] = MODE_NONE /\ ~notified'[l]
      BY <1>0, <1>1, <2>1 DEF TypeOK, Thread, IntentModes, Mode
    <2>5. LockerInv(l)'
      BY <1>1, <1>2, <2>2, <2>4, <2>a DEF LockerInv, StatusInv, ModeInv, PlaceInv,
         NotifyInv, Asking, Upgrading, Scanning
    <2>6. OnlyRequestOf(l) /\ pc'[l] = "idle"
      BY <1>0, <2>1 DEF TypeOK, OnlyRequestOf, Thread
    <2>7. \A x \in Locker \ {l} : SamePlace(x)
      BY <2>1, <2>2 DEF SamePlace, OnHead, Queued
    <2>8. RequestInv' /\ MutexInv'
      BY <2>1, <2>5, <2>6, <2>7, RequestStep DEF Scanning
    <2>9. CountsMatchLists' /\ Compatible' /\ UNCHANGED <<grantedModes, conflictModes>>
      <3>1. \A x \in Linked(grantedList) \cup Linked(conflictList) : KeepsModes(x)
        BY <1>0, <1>2, <2>1, LinkedLockers DEF TypeOK, KeepsModes, OnHead, Queued
      <3> QED BY <2>1, <3>1, HeadUnchanged
    <2>10. PartitionedIsUncontended'
      BY <1>3, <2>1, <2>2, <2>9 DEF Inv, PartitionedIsUncontended, PartitionedHead
    <2> QED BY <2>2, <2>3, <2>8, <2>9, <2>10 DEF Inv
  <1>4. CASE ~plhExists[p]
    <2>1. /\ pc' = [pc EXCEPT ![l] = "lockBucket"]
          /\ UNCHANGED <<reqVars, headVars, plhVars, mutexVars, scanVars>>
      BY <1>4 DEF LockPartition, goto
    <2>2. TypeOK'
      BY <1>0, <2>1 DEF TypeOK, Label, sameResource
    <2>3. OnlyRequestOf(l) /\ KeepsModes(l) /\ pc'[l] = "lockBucket"
      BY <1>0, <2>1 DEF TypeOK, OnlyRequestOf, KeepsModes, Thread
    <2>4. SamePlace(l) => LockerInv(l)'
      BY <1>0, <1>1, <1>2, <2>1, <2>3 DEF TypeOK, SamePlace, LockerInv, StatusInv, ModeInv,
         PlaceInv, NotifyInv, Asking, Upgrading, Scanning
    <2> QED BY <2>1, <2>2, <2>3, <2>4, OneRequestStep DEF Scanning
  <1> QED BY <1>3, <1>4

(* An intent request starts or joins a partitioned lock. *)
LEMMA LockStartPartitionInv ==
    ASSUME Inv, NEW l \in Locker, LockStartPartition(l), sameResource
    PROVE  Inv'
  <1> DEFINE p == PartitionOf[l]
  <1>0. LockerInv(l) /\ TypeOK /\ MutexInv /\ p \in Partition
    BY PartitionAssumption DEF Inv, RequestInv, LockerInv
  <1>1. /\ pc[l] = "lockBucket" /\ status[l] = "NEW" /\ recursiveCount[l] = 1
        /\ mode[l] \in IntentModes /\ partitioned[l] /\ newMode[l] = MODE_NONE /\ ~notified[l]
        /\ grantedModes \subseteq IntentModes /\ conflictModes = {}
    BY <1>0 DEF LockStartPartition, CanPartition, LockerInv, StatusInv, ModeInv, NotifyInv,
       Asking, Upgrading
  <1>2. ~OnHead(l) /\ ~Queued(l) /\ ~OnPartition(l)
    BY <1>1, NewIsUnlinked
  <1>3. /\ plhGrantedList' = [plhGrantedList EXCEPT ![p] = push_back(@, l)]
        /\ plhExists' = [plhExists EXCEPT ![p] = TRUE]
        /\ partitions' = push_back(partitions, p)
        /\ headExists' = TRUE
        /\ status' = [status EXCEPT ![l] = "GRANTED"]
        /\ pc' = [pc EXCEPT ![l] = "idle"]
        /\ UNCHANGED <<mode, convertMode, recursiveCount, partitioned, compatibleFirst,
                       newMode, notified, grantedVars, conflictVars, mutexVars, scanVars>>
    BY DEF LockStartPartition, goto, push_back
  <1>4. /\ plhGrantedList' \in [Partition -> Seq(Locker)]
        /\ \A r \in Partition \ {p} : plhGrantedList'[r] = plhGrantedList[r]
        /\ ListsInv'
        /\ OnPartition(l)'
        /\ \A x \in Locker \ {l} : OnPartition(x)' <=> OnPartition(x)
    BY <1>1, <1>3, PartitionPush
  <1>5. partitions' \in Seq(Partition) /\ Linked(partitions') = Linked(partitions) \cup {p}
    BY <1>0, <1>3, PushBack DEF TypeOK
  <1>6. TypeOK'
    BY <1>0, <1>3, <1>4, <1>5 DEF TypeOK, Label, sameResource
  <1>7. OnHead(l)' = OnHead(l) /\ Queued(l)' = Queued(l)
    BY <1>3 DEF OnHead, Queued
  <1>a. /\ pc'[l] = "idle" /\ status'[l] = "GRANTED" /\ mode'[l] = mode[l] /\ mode[l] \in Mode
        /\ recursiveCount'[l] = 1 /\ partitioned'[l] /\ newMode'[l] = MODE_NONE /\ ~notified'[l]
    BY <1>0, <1>1, <1>3 DEF TypeOK, Thread, IntentModes, Mode
  <1>8. LockerInv(l)'
    BY <1>1, <1>2, <1>4, <1>7, <1>a DEF LockerInv, StatusInv, ModeInv, PlaceInv, NotifyInv,
       Asking, Upgrading, Scanning
  <1>9. OnlyRequestOf(l) /\ pc'[l] = "idle"
    BY <1>0, <1>3 DEF TypeOK, OnlyRequestOf, Thread
  <1>10. \A x \in Locker \ {l} : SamePlace(x)
    BY <1>3, <1>4 DEF SamePlace, OnHead, Queued
  <1>11. RequestInv' /\ MutexInv'
    BY <1>3, <1>8, <1>9, <1>10, RequestStep DEF Scanning
  <1>12. CountsMatchLists' /\ Compatible' /\ UNCHANGED <<grantedModes, conflictModes>>
    <2>1. \A x \in Linked(grantedList) \cup Linked(conflictList) : KeepsModes(x)
      BY <1>0, <1>2, <1>3, LinkedLockers DEF TypeOK, KeepsModes, OnHead, Queued
    <2> QED BY <1>3, <2>1, HeadUnchanged
  <1>13. PartitionedIsUncontended'
    <2>1. ASSUME NEW r \in Partition
          PROVE  /\ plhExists'[r] => headExists' /\ r \in Linked(partitions')
                 /\ plhGrantedList'[r] # <<>> => plhExists'[r]
      <3>1. CASE r = p
        BY <1>0, <1>3, <1>5, <3>1 DEF TypeOK
      <3>2. CASE r # p
        BY <1>0, <1>3, <1>4, <1>5, <3>2 DEF TypeOK, Inv, PartitionedIsUncontended, Linked
      <3> QED BY <3>1, <3>2
    <2> QED BY <1>1, <1>12, <2>1 DEF PartitionedIsUncontended, PartitionedHead, Linked
  <1> QED BY <1>4, <1>6, <1>11, <1>12, <1>13 DEF Inv

(* The unlock fast path. *)
LEMMA UnlockPartitionInv ==
    ASSUME Inv, NEW l \in Locker, UnlockPartition(l), sameResource
    PROVE  Inv'
  <1> DEFINE p == PartitionOf[l]
             s == remove(plhGrantedList[p], l)
  <1>0. LockerInv(l) /\ TypeOK /\ MutexInv /\ p \in Partition
    BY PartitionAssumption DEF Inv, RequestInv, LockerInv
  <1>1. CASE l \in Linked(plhGrantedList[p])
    <2>1. /\ plhGrantedList' = [plhGrantedList EXCEPT ![p] = s]
          /\ status' = [status EXCEPT ![l] = "NEW"]
          /\ mode' = [mode EXCEPT ![l] = MODE_NONE]
          /\ partitioned' = [partitioned EXCEPT ![l] = FALSE]
          /\ compatibleFirst' = [compatibleFirst EXCEPT ![l] = FALSE]
          /\ pc' = [pc EXCEPT ![l] = "idle"]
          /\ UNCHANGED <<convertMode, recursiveCount, newMode, notified, headVars, plhExists,
                         mutexVars, scanVars>>
      BY <1>1 DEF UnlockPartition, ForgetRequest, goto
    <2>2. plhGrantedList[p] \in Seq(Locker) /\ NoDuplicates(plhGrantedList[p])
      BY <1>0 DEF TypeOK, Inv, ListsInv
    <2>3. s \in Seq(Locker) /\ Linked(s) = Linked(plhGrantedList[p]) \ {l} /\ NoDuplicates(s)
      BY <1>1, <2>2, RemoveRequest
    <2>4. \A x \in Linked(s) : PartitionOf[x] = p
      BY <1>0, <2>3 DEF Inv, ListsInv
    <2> HIDE DEF s
    <2>5. /\ plhGrantedList' \in [Partition -> Seq(Locker)]
          /\ \A r \in Partition \ {p} : plhGrantedList'[r] = plhGrantedList[r]
          /\ NoDuplicates(grantedList') /\ NoDuplicates(conflictList') => ListsInv'
          /\ \A x \in Locker :
                /\ PartitionOf[x] = p => (OnPartition(x)' <=> x \in Linked(s))
                /\ PartitionOf[x] # p => (OnPartition(x)' <=> OnPartition(x))
      BY <1>0, <2>1, <2>3, <2>4, PartitionList
    <2>6. /\ ListsInv' /\ ~OnPartition(l)'
          /\ \A x \in Locker \ {l} : OnPartition(x)' <=> OnPartition(x)
      BY <2>1, <2>3, <2>5 DEF OnPartition, Inv, ListsInv
    <2>7. TypeOK'
      BY <1>0, <2>1, <2>5 DEF TypeOK, Label, sameResource
    <2>8. /\ OnPartition(l) /\ ~OnHead(l) /\ ~Queued(l) /\ status[l] = "GRANTED"
          /\ recursiveCount[l] = 0 /\ pc[l] = "unlockPartition"
      BY <1>0, <1>1 DEF OnPartition, LockerInv, PlaceInv, StatusInv, UnlockPartition
    <2>9. OnHead(l)' = OnHead(l) /\ Queued(l)' = Queued(l)
      BY <2>1 DEF OnHead, Queued
    <2>a. /\ pc'[l] = "idle" /\ status'[l] = "NEW" /\ recursiveCount'[l] = 0
          /\ newMode'[l] = newMode[l]
      BY <1>0, <2>1, <2>8 DEF TypeOK, Thread
    <2>10. LockerInv(l)'
      BY <1>0, <2>6, <2>8, <2>9, <2>a DEF LockerInv, StatusInv, ModeInv, PlaceInv,
         NotifyInv, Asking, Upgrading, Scanning
    <2>11. OnlyRequestOf(l) /\ pc'[l] = "idle"
      BY <1>0, <2>1 DEF TypeOK, OnlyRequestOf, Thread
    <2>12. \A x \in Locker \ {l} : SamePlace(x)
      BY <2>1, <2>6 DEF SamePlace, OnHead, Queued
    <2>13. RequestInv' /\ MutexInv'
      BY <2>1, <2>10, <2>11, <2>12, RequestStep DEF Scanning
    <2>14. CountsMatchLists' /\ Compatible' /\ UNCHANGED <<grantedModes, conflictModes>>
      <3>1. \A x \in Linked(grantedList) \cup Linked(conflictList) : KeepsModes(x)
        BY <1>0, <2>1, <2>8, LinkedLockers DEF TypeOK, KeepsModes, OnHead, Queued
      <3> QED BY <2>1, <3>1, HeadUnchanged
    <2>15. PartitionedIsUncontended'
      <3>1. plhExists[p]
        BY <1>0, <1>1 DEF Inv, PartitionedIsUncontended, Linked
      <3> QED BY <2>1, <2>5, <2>14, <3>1 DEF Inv, PartitionedIsUncontended, PartitionedHead
    <2> QED BY <2>6, <2>7, <2>13, <2>14, <2>15 DEF Inv
  <1>2. CASE l \notin Linked(plhGrantedList[p])
    <2>1. /\ pc[l] = "unlockPartition"
          /\ pc' = [pc EXCEPT ![l] = "unlockBucket"]
          /\ UNCHANGED <<reqVars, headVars, plhVars, mutexVars, scanVars>>
      BY <1>2 DEF UnlockPartition, goto
    <2>2. TypeOK'
      BY <1>0, <2>1 DEF TypeOK, Label, sameResource
    <2>3. OnlyRequestOf(l) /\ KeepsModes(l) /\ pc'[l] = "unlockBucket"
      BY <1>0, <2>1 DEF TypeOK, OnlyRequestOf, KeepsModes, Thread
    <2>4. SamePlace(l) => LockerInv(l)'
      BY <1>0, <1>2, <2>1, <2>3 DEF TypeOK, SamePlace, OnPartition, LockerInv, StatusInv,
         ModeInv, PlaceInv, NotifyInv, Asking, Upgrading, Scanning
    <2> QED BY <2>1, <2>2, <2>3, <2>4, OneRequestStep DEF Scanning
  <1> QED BY <1>1, <1>2

(* A request without conflicts is granted on the lock head. *)
LEMMA GrantOnHead ==
    ASSUME Inv, NEW q \in Locker, ~OnHead(q), mode[q] \in Mode,
           ~conflicts(mode[q], grantedModes),
           grantedList' = push_back(grantedList, q),
           grantedCounts' = Inc(grantedCounts, mode[q]),
           compatibleFirstCount' = compatibleFirstCount + IF compatibleFirst[q] THEN 1 ELSE 0,
           status' = [status EXCEPT ![q] = "GRANTED"],
           UNCHANGED <<mode, convertMode, compatibleFirst, conversionsCount>>
    PROVE  /\ grantedList' \in Seq(Locker) /\ NoDuplicates(grantedList')
           /\ grantedCounts' \in Count /\ compatibleFirstCount' \in Nat
           /\ \A x \in Locker : OnHead(x)' <=> OnHead(x) \/ x = q
           /\ GrantedCountsMatch'
           /\ grantedModes' = grantedModes \cup {mode[q]}
           /\ Compatible'
  <1>0. TypeOK /\ NoDuplicates(grantedList) /\ Linked(grantedList) \subseteq Locker
    BY LinkedLockers DEF Inv, ListsInv
  <1>1. /\ grantedList' \in Seq(Locker) /\ NoDuplicates(grantedList')
        /\ Linked(grantedList') = Linked(grantedList) \cup {q}
    BY <1>0, PushBack DEF OnHead, TypeOK
  <1>2. /\ grantedCounts' \in Count /\ compatibleFirstCount' \in Nat
        /\ grantedModes' = grantedModes \cup {mode[q]}
    BY <1>0 DEF TypeOK, Count, Inc, grantedModes
  <1>3. GrantedCountsMatch'
    BY <1>0, <1>1, CountsSplit, CountsOnGrant DEF Inv, OnHead
  <1>4. Compatible'
    <2>1. ASSUME NEW b \in Linked(grantedList)
          PROVE  ~conflicts(mode[q], {mode[b]}) /\ ~conflicts(mode[b], {mode[q]})
      <3>1. b \in Locker /\ OnHead(b)
        BY <1>0 DEF OnHead
      <3>2. mode[b] \in Mode
        BY <3>1 DEF Inv, RequestInv, PlaceInv, ModeInv
      <3>3. mode[b] \in grantedModes
        BY <1>0, <3>2, Counted DEF Inv, grantedModes
      <3> QED BY <3>2, <3>3, ConflictsWithOne, ConflictsSymmetric
    <2> QED BY <1>1, <2>1 DEF Inv, Compatible
  <1> QED BY <1>1, <1>2, <1>3, <1>4 DEF OnHead

(* The conflict queue stays as it is. *)
LEMMA QueueUnchanged ==
    ASSUME Inv, UNCHANGED conflictVars, \A x \in Linked(conflictList) : mode'[x] = mode[x]
    PROVE  /\ ConflictCountsMatch'
           /\ NoDuplicates(conflictList')
           /\ conflictModes' = conflictModes
           /\ \A x \in Locker : Queued(x)' <=> Queued(x)
  <1>1. ConflictCountsMatch
    BY CountsSplit DEF Inv
  <1>2. \A m \in Mode : Waiters(m)' = Waiters(m)
    BY DEF Waiters
  <1> QED BY <1>1, <1>2 DEF ConflictCountsMatch, conflictModes, Queued, Inv, ListsInv

(* The granted queue stays as it is. *)
LEMMA GrantedUnchanged ==
    ASSUME Inv, UNCHANGED grantedVars, \A x \in Linked(grantedList) : KeepsModes(x)
    PROVE  /\ GrantedCountsMatch'
           /\ NoDuplicates(grantedList')
           /\ grantedModes' = grantedModes
           /\ Compatible'
           /\ \A x \in Locker : OnHead(x)' <=> OnHead(x)
  <1>1. GrantedCountsMatch
    BY CountsSplit DEF Inv
  <1>2. /\ \A m \in Mode : Holders(m)' = Holders(m) /\ Upgraders(m)' = Upgraders(m)
        /\ Converting' = Converting /\ Prior' = Prior
    BY DEF Holders, Upgraders, Converting, Prior, KeepsModes
  <1> QED BY <1>1, <1>2 DEF GrantedCountsMatch, grantedModes, OnHead, Inv, ListsInv,
             Compatible,
                            KeepsModes

(* A request is put on the conflict queue, at either end. *)
LEMMA Enqueue ==
    ASSUME Inv, NEW l \in Locker, ~Queued(l), mode[l] \in Mode,
           conflictList' = push_front(conflictList, l) \/ conflictList' = push_back(conflictList, l),
           conflictCounts' = Inc(conflictCounts, mode[l]),
           UNCHANGED mode
    PROVE  /\ conflictList' \in Seq(Locker) /\ NoDuplicates(conflictList')
           /\ conflictCounts' \in Count
           /\ \A x \in Locker : Queued(x)' <=> Queued(x) \/ x = l
           /\ ConflictCountsMatch'
  <1>0. TypeOK /\ NoDuplicates(conflictList) /\ ConflictCountsMatch
    BY CountsSplit DEF Inv, ListsInv
  <1>1. /\ conflictList' \in Seq(Locker) /\ NoDuplicates(conflictList')
        /\ Linked(conflictList') = Linked(conflictList) \cup {l}
    <2>1. CASE conflictList' = push_front(conflictList, l)
      BY <1>0, <2>1, PushFront DEF Queued, TypeOK
    <2>2. CASE conflictList' = push_back(conflictList, l)
      BY <1>0, <2>2, PushBack DEF Queued, TypeOK
    <2> QED BY <2>1, <2>2
  <1>2. conflictCounts' \in Count
    BY <1>0 DEF TypeOK, Count, Inc
  <1>3. ConflictCountsMatch'
    BY <1>0, <1>1, CountsOnEnqueue DEF Queued
  <1> QED BY <1>1, <1>2, <1>3 DEF Queued

(* A lock head without partitions has nothing to say about partitions. *)
LEMMA UnpartitionedStays ==
    ASSUME Inv, ~PartitionedHead, UNCHANGED <<partitions, plhVars>>
    PROVE  /\ PartitionedIsUncontended'
           /\ \A x \in Locker : ~OnPartition(x) /\ ~OnPartition(x)'
           /\ NoDuplicates(grantedList') /\ NoDuplicates(conflictList') => ListsInv'
  <1>1. \A p \in Partition :
          ~plhExists[p] /\ plhGrantedList[p] = <<>> /\ Linked(plhGrantedList[p]) = {}
    BY NothingPartitioned DEF Inv
  <1>2. \A x \in Locker : PartitionOf[x] \in Partition
    BY PartitionAssumption
  <1> QED BY <1>1, <1>2 DEF PartitionedIsUncontended, PartitionedHead, OnPartition,
             ListsInv, Inv

(* LockHead::newRequest for a request that lock() brings to the lock head. *)
LEMMA LockNewRequestInv ==
    ASSUME Inv, NEW l \in Locker, LockNewRequest(l), sameResource
    PROVE  Inv'
  <1>0. LockerInv(l) /\ TypeOK /\ MutexInv
    BY DEF Inv, RequestInv, LockerInv
  <1>1. /\ pc[l] \in Asking /\ status[l] = "NEW" /\ recursiveCount[l] = 1
        /\ mode[l] \in Mode /\ newMode[l] = MODE_NONE /\ ~notified[l]
    BY <1>0 DEF LockNewRequest, LockerInv, StatusInv, ModeInv, NotifyInv, Asking, Upgrading
  <1>2. ~OnHead(l) /\ ~Queued(l) /\ ~OnPartition(l)
    BY <1>1, NewIsUnlinked
  <1>3. /\ ~PartitionedHead
        /\ headExists' = TRUE
        /\ partitioned' = [partitioned EXCEPT ![l] = FALSE]
        /\ bucketMutex \in {Nobody, l}
        /\ bucketMutex' = Nobody
        /\ UNCHANGED <<mode, convertMode, recursiveCount, compatibleFirst, newMode,
                       notified, partitions, plhVars, partitionMutex, scanVars>>
    BY <1>0 DEF LockNewRequest, MutexInv, Thread
  <1>4. /\ PartitionedIsUncontended'
        /\ \A x \in Locker : ~OnPartition(x) /\ ~OnPartition(x)'
        /\ NoDuplicates(grantedList') /\ NoDuplicates(conflictList') => ListsInv'
    BY <1>3, UnpartitionedStays
  <1>5. CASE newRequestWaits(l) /\ goto(l, "wait")
    <2>1. /\ status' = [status EXCEPT ![l] = "WAITING"]
          /\ pc' = [pc EXCEPT ![l] = "wait"]
          /\ conflictList' = push_front(conflictList, l) \/ conflictList' = push_back(conflictList, l)
          /\ conflictCounts' = Inc(conflictCounts, mode[l])
          /\ UNCHANGED grantedVars
      BY <1>5 DEF newRequestWaits, goto
    <2>2. /\ conflictList' \in Seq(Locker) /\ NoDuplicates(conflictList')
          /\ conflictCounts' \in Count
          /\ \A x \in Locker : Queued(x)' <=> Queued(x) \/ x = l
          /\ ConflictCountsMatch'
      BY <1>1, <1>2, <1>3, <2>1, Enqueue
    <2>3. /\ GrantedCountsMatch' /\ NoDuplicates(grantedList') /\ Compatible'
          /\ \A x \in Locker : OnHead(x)' <=> OnHead(x)
      <3>1. \A x \in Linked(grantedList) : KeepsModes(x)
        BY <1>0, <1>2, <1>3, <2>1, LinkedLockers DEF TypeOK, KeepsModes, OnHead
      <3> QED BY <2>1, <3>1, GrantedUnchanged
    <2>4. TypeOK'
      BY <1>0, <1>3, <2>1, <2>2 DEF TypeOK, Label, sameResource
    <2>5. /\ pc'[l] = "wait" /\ status'[l] = "WAITING" /\ ~partitioned'[l]
          /\ mode'[l] = mode[l] /\ recursiveCount'[l] = 1 /\ newMode'[l] = MODE_NONE
          /\ ~notified'[l]
      BY <1>0, <1>1, <1>3, <2>1 DEF TypeOK, Thread
    <2>6. LockerInv(l)'
      BY <1>1, <1>2, <1>4, <2>2, <2>3, <2>5 DEF LockerInv, StatusInv, ModeInv, PlaceInv,
         NotifyInv, Asking, Upgrading, Scanning
    <2>7. OnlyRequestOf(l)
      BY <1>0, <1>3, <2>1 DEF TypeOK, OnlyRequestOf
    <2>8. \A x \in Locker \ {l} : SamePlace(x)
      BY <1>4, <2>2, <2>3 DEF SamePlace
    <2>9. RequestInv' /\ MutexInv'
      BY <1>3, <2>5, <2>6, <2>7, <2>8, RequestStep DEF Scanning
    <2> QED BY <1>4, <2>2, <2>3, <2>4, <2>9, CountsSplit DEF Inv
  <1>6. CASE newRequestGranted(l) /\ goto(l, "idle")
    <2>1. /\ status' = [status EXCEPT ![l] = "GRANTED"]
          /\ pc' = [pc EXCEPT ![l] = "idle"]
          /\ grantedList' = push_back(grantedList, l)
          /\ grantedCounts' = Inc(grantedCounts, mode[l])
          /\ compatibleFirstCount' = compatibleFirstCount + IF compatibleFirst[l] THEN 1 ELSE 0
          /\ UNCHANGED <<conversionsCount, conflictVars>>
          /\ ~conflicts(mode[l], grantedModes)
      BY <1>6 DEF newRequestGranted, goto, MustWait
    <2>2. /\ grantedList' \in Seq(Locker) /\ NoDuplicates(grantedList')
          /\ grantedCounts' \in Count /\ compatibleFirstCount' \in Nat
          /\ \A x \in Locker : OnHead(x)' <=> OnHead(x) \/ x = l
          /\ GrantedCountsMatch' /\ Compatible'
      BY <1>1, <1>2, <1>3, <2>1, GrantOnHead
    <2>3. /\ ConflictCountsMatch' /\ NoDuplicates(conflictList')
          /\ \A x \in Locker : Queued(x)' <=> Queued(x)
      BY <1>3, <2>1, QueueUnchanged
    <2>4. TypeOK'
      BY <1>0, <1>3, <2>1, <2>2 DEF TypeOK, Label, sameResource
    <2>5. /\ pc'[l] = "idle" /\ status'[l] = "GRANTED" /\ ~partitioned'[l]
          /\ mode'[l] = mode[l] /\ recursiveCount'[l] = 1 /\ newMode'[l] = MODE_NONE
          /\ ~notified'[l]
      BY <1>0, <1>1, <1>3, <2>1 DEF TypeOK, Thread
    <2>6. LockerInv(l)'
      BY <1>1, <1>2, <1>4, <2>2, <2>3, <2>5 DEF LockerInv, StatusInv, ModeInv, PlaceInv,
         NotifyInv, Asking, Upgrading, Scanning
    <2>7. OnlyRequestOf(l)
      BY <1>0, <1>3, <2>1 DEF TypeOK, OnlyRequestOf
    <2>8. \A x \in Locker \ {l} : SamePlace(x)
      BY <1>4, <2>2, <2>3 DEF SamePlace
    <2>9. RequestInv' /\ MutexInv'
      BY <1>3, <2>5, <2>6, <2>7, <2>8, RequestStep DEF Scanning
    <2> QED BY <1>4, <2>2, <2>3, <2>4, <2>9, CountsSplit DEF Inv
  <1> QED BY <1>5, <1>6 DEF LockNewRequest

(* A request on the lock head changes its mode to one that no other holder  *)
(* conflicts with.                                                          *)
LEMMA ModeChangeCompatible ==
    ASSUME Inv, NEW q \in Linked(grantedList), NEW n \in Mode,
           UNCHANGED grantedList, mode' = [mode EXCEPT ![q] = n],
           \A b \in Linked(grantedList) \ {q} : ~conflicts(n, {mode[b]})
    PROVE  Compatible'
  <1>1. Linked(grantedList) \subseteq Locker /\ mode \in [Locker -> Mode \cup {MODE_NONE}]
    BY LinkedLockers DEF Inv, TypeOK
  <1>2. \A b \in Linked(grantedList) : mode[b] \in Mode
    BY <1>1 DEF Inv, RequestInv, PlaceInv, ModeInv, OnHead
  <1>3. mode'[q] = n /\ \A b \in Linked(grantedList) \ {q} : mode'[b] = mode[b]
    BY <1>1
  <1>4. \A b \in Linked(grantedList) \ {q} : ~conflicts(mode[b], {n})
    BY <1>2, ConflictsSymmetric
  <1>5. ASSUME NEW a \in Linked(grantedList), NEW b \in Linked(grantedList), a # b
        PROVE  ~conflicts(mode'[a], {mode'[b]})
    <2>1. CASE a = q
      BY <1>3, <1>5, <2>1
    <2>2. CASE b = q
      BY <1>3, <1>4, <1>5, <2>2
    <2>3. CASE a # q /\ b # q
      BY <1>3, <1>5, <2>3 DEF Inv, Compatible
    <2> QED BY <2>1, <2>2, <2>3
  <1> QED BY <1>5 DEF Compatible

(* The partitions stay as they are, and no mode is added to the lock head. *)
LEMMA PartitionsStay ==
    ASSUME Inv, UNCHANGED <<headExists, partitions, plhVars>>,
           grantedModes' \subseteq grantedModes, conflictModes' \subseteq conflictModes
    PROVE  /\ PartitionedIsUncontended'
           /\ \A x \in Locker : OnPartition(x)' <=> OnPartition(x)
           /\ NoDuplicates(grantedList') /\ NoDuplicates(conflictList') => ListsInv'
  BY DEF Inv, PartitionedIsUncontended, PartitionedHead, OnPartition, ListsInv

(* The rest of LockManager::convert: the upgrade is granted or waits. *)
LEMMA ConvertInv ==
    ASSUME Inv, NEW l \in Locker, Convert(l), sameResource
    PROVE  Inv'
  <1>0. LockerInv(l) /\ TypeOK /\ MutexInv /\ GrantedCountsMatch
    BY CountsSplit DEF Inv, RequestInv, LockerInv
  <1>1. /\ pc[l] \in Upgrading /\ status[l] = "GRANTED" /\ recursiveCount[l] > 1
        /\ mode[l] \in Mode /\ newMode[l] \in Mode /\ ~notified[l]
    BY <1>0 DEF Convert, LockerInv, StatusInv, ModeInv, NotifyInv, Upgrading
  <1>2. /\ ~PartitionedHead
        /\ newMode' = [newMode EXCEPT ![l] = MODE_NONE]
        /\ bucketMutex \in {Nobody, l}
        /\ bucketMutex' = Nobody
        /\ UNCHANGED <<recursiveCount, partitioned, compatibleFirst, notified, headExists,
                       partitions, grantedList, compatibleFirstCount, conflictVars, plhVars,
                       partitionMutex, scanVars>>
    BY <1>0 DEF Convert, MutexInv, Thread
  <1>3. /\ PartitionedIsUncontended'
        /\ \A x \in Locker : ~OnPartition(x) /\ ~OnPartition(x)'
        /\ NoDuplicates(grantedList') /\ NoDuplicates(conflictList') => ListsInv'
    BY <1>2, UnpartitionedStays
  <1>4. OnHead(l) /\ ~Queued(l)
    BY <1>0, <1>1, <1>3 DEF LockerInv, PlaceInv, Scanning, Upgrading
  <1>5. \A x \in Locker : (OnHead(x)' <=> OnHead(x)) /\ (Queued(x)' <=> Queued(x))
    BY <1>2 DEF OnHead, Queued
  <1>6. NoDuplicates(grantedList') /\ NoDuplicates(conflictList')
    BY <1>2 DEF Inv, ListsInv
  <1>7. CASE conflicts(newMode[l], grantedModesWithout(l, {mode[l]}))
    <2>1. /\ status' = [status EXCEPT ![l] = "CONVERTING"]
          /\ convertMode' = [convertMode EXCEPT ![l] = newMode[l]]
          /\ conversionsCount' = conversionsCount + 1
          /\ grantedCounts' = Inc(grantedCounts, newMode[l])
          /\ pc' = [pc EXCEPT ![l] = "wait"]
          /\ UNCHANGED mode
      BY <1>7 DEF Convert, goto
    <2>2. GrantedCountsMatch'
      BY <1>0, <1>1, <1>2, <1>4, <2>1, CountsOnUpgradeWait DEF OnHead
    <2>3. ConflictCountsMatch' /\ Compatible'
      BY <1>2, <2>1, QueueUnchanged DEF Inv, Compatible
    <2>4. TypeOK'
      <3>1. grantedCounts' \in Count /\ conversionsCount' \in Nat
        BY <1>0, <1>1, <2>1 DEF TypeOK, Count, Inc
      <3> QED BY <1>0, <1>1, <1>2, <2>1, <3>1 DEF TypeOK, Label, sameResource
    <2>5. /\ pc'[l] = "wait" /\ status'[l] = "CONVERTING" /\ convertMode'[l] = newMode[l]
          /\ mode'[l] = mode[l] /\ recursiveCount'[l] = recursiveCount[l]
          /\ newMode'[l] = MODE_NONE /\ ~notified'[l]
      BY <1>0, <1>1, <1>2, <2>1 DEF TypeOK, Thread
    <2>6. LockerInv(l)'
      BY <1>0, <1>1, <1>3, <1>4, <1>5, <2>5 DEF TypeOK, LockerInv, StatusInv, ModeInv,
         PlaceInv, NotifyInv, Asking, Upgrading, Scanning
    <2>7. OnlyRequestOf(l) /\ \A x \in Locker \ {l} : SamePlace(x)
      BY <1>0, <1>2, <1>3, <1>5, <2>1 DEF TypeOK, OnlyRequestOf, SamePlace
    <2>8. RequestInv' /\ MutexInv'
      BY <1>2, <2>5, <2>6, <2>7, RequestStep DEF Scanning
    <2> QED BY <1>3, <1>6, <2>2, <2>3, <2>4, <2>8, CountsSplit DEF Inv
  <1>8. CASE ~conflicts(newMode[l], grantedModesWithout(l, {mode[l]}))
    <2>1. /\ grantedCounts' = Dec(Inc(grantedCounts, newMode[l]), mode[l])
          /\ mode' = [mode EXCEPT ![l] = newMode[l]]
          /\ pc' = [pc EXCEPT ![l] = "idle"]
          /\ UNCHANGED <<status, convertMode, conversionsCount>>
      BY <1>8 DEF Convert, goto
    <2>2. GrantedCountsMatch'
      <3>1. CASE newMode[l] # mode[l]
        BY <1>0, <1>1, <1>2, <1>4, <2>1, <3>1, CountsOnModeChange DEF OnHead
      <3>2. CASE newMode[l] = mode[l]
        <4>1. mode' = mode /\ grantedCounts' = grantedCounts
          BY <1>0, <1>1, <2>1, <3>2 DEF TypeOK, Count, Inc, Dec
        <4>2. \A x \in Linked(grantedList) : KeepsModes(x)
          BY <1>2, <2>1, <4>1 DEF KeepsModes
        <4> QED BY <1>2, <2>1, <4>1, <4>2, GrantedUnchanged
      <3> QED BY <3>1, <3>2
    <2>3. ConflictCountsMatch'
      <3>1. \A x \in Linked(conflictList) : mode'[x] = mode[x]
        BY <1>0, <1>4, <2>1, LinkedLockers DEF TypeOK, Queued
      <3> QED BY <1>2, <3>1, QueueUnchanged
    <2>4. Compatible'
      <3>1. \A b \in Linked(grantedList) \ {l} : ~conflicts(newMode[l], {mode[b]})
        BY <1>1, <1>4, <1>8, OthersAreCompared, ConflictsWithOne DEF OnHead
      <3> QED BY <1>1, <1>2, <1>4, <2>1, <3>1, ModeChangeCompatible DEF OnHead
    <2>5. TypeOK'
      <3>1. grantedCounts[mode[l]] > 0
        BY <1>1, <1>4, Counted DEF Inv, OnHead
      <3>2. grantedCounts' \in Count
        BY <1>0, <1>1, <2>1, <3>1 DEF TypeOK, Count, Inc, Dec
      <3> QED BY <1>0, <1>1, <1>2, <2>1, <3>2 DEF TypeOK, Label, sameResource
    <2>6. /\ pc'[l] = "idle" /\ status'[l] = "GRANTED" /\ mode'[l] = newMode[l]
          /\ recursiveCount'[l] = recursiveCount[l] /\ newMode'[l] = MODE_NONE /\ ~notified'[l]
      BY <1>0, <1>1, <1>2, <2>1 DEF TypeOK, Thread
    <2>7. LockerInv(l)'
      BY <1>0, <1>1, <1>3, <1>4, <1>5, <2>6 DEF TypeOK, LockerInv, StatusInv, ModeInv,
         PlaceInv, NotifyInv, Asking, Upgrading, Scanning
    <2>8. OnlyRequestOf(l) /\ \A x \in Locker \ {l} : SamePlace(x)
      BY <1>0, <1>2, <1>3, <1>5, <2>1 DEF TypeOK, OnlyRequestOf, SamePlace
    <2>9. RequestInv' /\ MutexInv'
      BY <1>2, <2>6, <2>7, <2>8, RequestStep DEF Scanning
    <2> QED BY <1>3, <1>6, <2>2, <2>3, <2>4, <2>5, <2>9, CountsSplit DEF Inv
  <1> QED BY <1>7, <1>8

(* unlock() takes a granted request off the lock head. *)
LEMMA UnlockGrantedInv ==
    ASSUME Inv, NEW l \in Locker, UnlockGranted(l), sameResource
    PROVE  Inv'
  <1>0. LockerInv(l) /\ TypeOK /\ MutexInv /\ GrantedCountsMatch
    BY CountsSplit DEF Inv, RequestInv, LockerInv
  <1>1. /\ pc[l] = "unlockBucket" /\ status[l] = "GRANTED" /\ recursiveCount[l] = 0
        /\ mode[l] \in Mode /\ newMode[l] = MODE_NONE
        /\ OnHead(l) /\ ~Queued(l) /\ ~OnPartition(l)
    BY <1>0 DEF UnlockGranted, LockerInv, StatusInv, ModeInv, PlaceInv, Upgrading, Scanning
  <1>2. /\ grantedList' = remove(grantedList, l)
        /\ grantedCounts' = Dec(grantedCounts, mode[l])
        /\ compatibleFirstCount' = compatibleFirstCount - IF compatibleFirst[l] THEN 1 ELSE 0
        /\ bucketMutex = Nobody /\ bucketMutex' = l
        /\ pc' = [pc EXCEPT ![l] = "grantConversions"]
        /\ iter' = 1 /\ checkConflictQueue' \in BOOLEAN /\ newlyCompatibleFirst' \in BOOLEAN
        /\ UNCHANGED <<reqVars, headExists, partitions, conversionsCount, conflictVars,
                       plhVars, partitionMutex>>
    BY DEF UnlockGranted, onLockModeChanged, goto
  <1>3. /\ grantedList' \in Seq(Locker) /\ NoDuplicates(grantedList')
        /\ Linked(grantedList') = Linked(grantedList) \ {l}
    BY <1>0, <1>1, <1>2, RemoveRequest DEF Inv, TypeOK, ListsInv, OnHead
  <1>4. GrantedCountsMatch'
    BY <1>0, <1>1, <1>2, <1>3, CountsOnRelease DEF OnHead
  <1>5. /\ ConflictCountsMatch' /\ NoDuplicates(conflictList') /\ conflictModes' = conflictModes
        /\ \A x \in Locker : Queued(x)' <=> Queued(x)
    BY <1>2, QueueUnchanged
  <1>6. /\ grantedCounts' \in Count /\ compatibleFirstCount' \in Nat
        /\ grantedModes' \subseteq grantedModes
    <2>1. grantedCounts[mode[l]] > 0 /\ (compatibleFirst[l] => compatibleFirstCount > 0)
      BY <1>1, Counted DEF Inv, OnHead
    <2> QED BY <1>0, <1>1, <1>2, <2>1 DEF TypeOK, Count, Dec, grantedModes
  <1>7. /\ PartitionedIsUncontended' /\ ListsInv'
        /\ \A x \in Locker : OnPartition(x)' <=> OnPartition(x)
    BY <1>2, <1>3, <1>5, <1>6, PartitionsStay
  <1>8. TypeOK'
    BY <1>0, <1>2, <1>3, <1>6 DEF TypeOK, Label, Thread, sameResource
  <1>9. Compatible'
    BY <1>2, <1>3 DEF Inv, Compatible
  <1>10. pc'[l] = "grantConversions" /\ ~OnHead(l)' /\ ~Queued(l)' /\ ~OnPartition(l)'
    BY <1>0, <1>1, <1>2, <1>3, <1>5, <1>7 DEF TypeOK, Thread, OnHead
  <1>11. LockerInv(l)'
    BY <1>1, <1>2, <1>10 DEF LockerInv, StatusInv, ModeInv, PlaceInv, NotifyInv, Asking,
       Upgrading, Scanning
  <1>12. OnlyRequestOf(l) /\ \A x \in Locker \ {l} : SamePlace(x)
    BY <1>0, <1>2, <1>3, <1>5, <1>7 DEF TypeOK, OnlyRequestOf, SamePlace, OnHead
  <1>13. RequestInv' /\ MutexInv'
    BY <1>2, <1>11, <1>12, RequestStep
  <1> QED BY <1>4, <1>5, <1>7, <1>8, <1>9, <1>13, CountsSplit DEF Inv

(* unlock() takes a waiter off the queue. *)
LEMMA UnlockWaitingInv ==
    ASSUME Inv, NEW l \in Locker, UnlockWaiting(l), sameResource
    PROVE  Inv'
  <1>0. LockerInv(l) /\ TypeOK /\ MutexInv /\ ConflictCountsMatch
    BY CountsSplit DEF Inv, RequestInv, LockerInv
  <1>1. /\ pc[l] = "unlockBucket" /\ status[l] = "WAITING" /\ recursiveCount[l] = 0
        /\ mode[l] \in Mode /\ newMode[l] = MODE_NONE
        /\ ~OnHead(l) /\ Queued(l) /\ ~OnPartition(l)
    BY <1>0 DEF UnlockWaiting, LockerInv, StatusInv, ModeInv, PlaceInv, Upgrading, Scanning
  <1>2. /\ conflictList' = remove(conflictList, l)
        /\ conflictCounts' = Dec(conflictCounts, mode[l])
        /\ bucketMutex = Nobody /\ bucketMutex' = l
        /\ pc' = [pc EXCEPT ![l] = "grantConversions"]
        /\ iter' = 1 /\ checkConflictQueue' \in BOOLEAN /\ newlyCompatibleFirst' \in BOOLEAN
        /\ UNCHANGED <<reqVars, headExists, partitions, grantedVars, plhVars, partitionMutex>>
    BY DEF UnlockWaiting, onLockModeChanged, goto
  <1>3. /\ conflictList' \in Seq(Locker) /\ NoDuplicates(conflictList')
        /\ Linked(conflictList') = Linked(conflictList) \ {l}
    BY <1>0, <1>1, <1>2, RemoveRequest DEF Inv, TypeOK, ListsInv, Queued
  <1>4. ConflictCountsMatch'
    BY <1>0, <1>1, <1>2, <1>3, CountsOnDequeue DEF Queued
  <1>5. /\ GrantedCountsMatch' /\ NoDuplicates(grantedList') /\ grantedModes' = grantedModes
        /\ Compatible'
        /\ \A x \in Locker : OnHead(x)' <=> OnHead(x)
    BY <1>2, GrantedUnchanged DEF KeepsModes
  <1>6. conflictCounts' \in Count /\ conflictModes' \subseteq conflictModes
    <2>1. conflictCounts[mode[l]] > 0
      BY <1>1, WaiterCounted DEF Inv, Queued
    <2> QED BY <1>0, <1>1, <1>2, <2>1 DEF TypeOK, Count, Dec, conflictModes
  <1>7. /\ PartitionedIsUncontended' /\ ListsInv'
        /\ \A x \in Locker : OnPartition(x)' <=> OnPartition(x)
    BY <1>2, <1>3, <1>5, <1>6, PartitionsStay
  <1>8. TypeOK'
    BY <1>0, <1>2, <1>3, <1>6 DEF TypeOK, Label, Thread, sameResource
  <1>9. pc'[l] = "grantConversions" /\ ~OnHead(l)' /\ ~Queued(l)' /\ ~OnPartition(l)'
    BY <1>0, <1>1, <1>2, <1>3, <1>5, <1>7 DEF TypeOK, Thread, Queued
  <1>10. LockerInv(l)'
    BY <1>1, <1>2, <1>9 DEF LockerInv, StatusInv, ModeInv, PlaceInv, NotifyInv, Asking,
       Upgrading, Scanning
  <1>11. OnlyRequestOf(l) /\ \A x \in Locker \ {l} : SamePlace(x)
    BY <1>0, <1>2, <1>3, <1>5, <1>7 DEF TypeOK, OnlyRequestOf, SamePlace, Queued
  <1>12. RequestInv' /\ MutexInv'
    BY <1>2, <1>10, <1>11, RequestStep
  <1> QED BY <1>4, <1>5, <1>7, <1>8, <1>12, CountsSplit DEF Inv

(* unlock() gives up an upgrade that waits. *)
LEMMA UnlockConvertingInv ==
    ASSUME Inv, NEW l \in Locker, UnlockConverting(l), sameResource
    PROVE  Inv'
  <1>0. LockerInv(l) /\ TypeOK /\ MutexInv /\ GrantedCountsMatch
    BY CountsSplit DEF Inv, RequestInv, LockerInv
  <1>1. /\ pc[l] = "unlockBucket" /\ status[l] = "CONVERTING" /\ recursiveCount[l] > 0
        /\ mode[l] \in Mode /\ convertMode[l] \in Mode /\ newMode[l] = MODE_NONE /\ ~notified[l]
        /\ OnHead(l) /\ ~Queued(l) /\ ~OnPartition(l)
    BY <1>0 DEF UnlockConverting, LockerInv, StatusInv, ModeInv, PlaceInv, NotifyInv,
       Upgrading, Scanning
  <1>2. /\ status' = [status EXCEPT ![l] = "GRANTED"]
        /\ convertMode' = [convertMode EXCEPT ![l] = MODE_NONE]
        /\ grantedCounts' = Dec(grantedCounts, convertMode[l])
        /\ conversionsCount' = conversionsCount - 1
        /\ bucketMutex \in {Nobody, l} /\ bucketMutex' = l
        /\ pc' = [pc EXCEPT ![l] = "grantConversions"]
        /\ iter' = 1 /\ checkConflictQueue' \in BOOLEAN /\ newlyCompatibleFirst' \in BOOLEAN
        /\ UNCHANGED <<mode, recursiveCount, partitioned, compatibleFirst, newMode, notified,
                       headExists, partitions, grantedList, compatibleFirstCount,
                       conflictVars, plhVars, partitionMutex>>
    BY DEF UnlockConverting, onLockModeChanged, goto
  <1>3. GrantedCountsMatch'
    <2>1. mode' = [mode EXCEPT ![l] = mode[l]]
      BY <1>0, <1>2 DEF TypeOK
    <2> QED BY <1>0, <1>1, <1>2, <2>1, CountsOnUpgradeEnd DEF OnHead
  <1>4. /\ ConflictCountsMatch' /\ NoDuplicates(conflictList') /\ conflictModes' = conflictModes
        /\ \A x \in Locker : Queued(x)' <=> Queued(x)
    BY <1>2, QueueUnchanged
  <1>5. /\ grantedCounts' \in Count /\ conversionsCount' \in Nat
        /\ grantedModes' \subseteq grantedModes
    <2>1. grantedCounts[convertMode[l]] > 0 /\ conversionsCount > 0
      BY <1>1, Counted DEF Inv, OnHead
    <2> QED BY <1>0, <1>1, <1>2, <2>1 DEF TypeOK, Count, Dec, grantedModes
  <1>6. /\ PartitionedIsUncontended' /\ ListsInv'
        /\ \A x \in Locker : OnPartition(x)' <=> OnPartition(x)
    BY <1>2, <1>4, <1>5, PartitionsStay DEF Inv, ListsInv
  <1>7. TypeOK'
    BY <1>0, <1>2, <1>5 DEF TypeOK, Label, Thread, sameResource
  <1>8. Compatible' /\ \A x \in Locker : OnHead(x)' <=> OnHead(x)
    BY <1>2 DEF Inv, Compatible, OnHead
  <1>9. pc'[l] = "grantConversions" /\ status'[l] = "GRANTED"
    BY <1>0, <1>2 DEF TypeOK, Thread
  <1>10. LockerInv(l)'
    BY <1>1, <1>2, <1>4, <1>6, <1>8, <1>9 DEF LockerInv, StatusInv, ModeInv, PlaceInv,
       NotifyInv, Asking, Upgrading, Scanning
  <1>11. OnlyRequestOf(l) /\ \A x \in Locker \ {l} : SamePlace(x)
    BY <1>0, <1>2, <1>4, <1>6, <1>8 DEF TypeOK, OnlyRequestOf, SamePlace
  <1>12. RequestInv' /\ MutexInv'
    BY <1>2, <1>10, <1>11, RequestStep
  <1> QED BY <1>3, <1>4, <1>6, <1>7, <1>8, <1>12, CountsSplit DEF Inv

(* downgrade() replaces a strong mode by a mode that it covers. *)
LEMMA DowngradeInv ==
    ASSUME Inv, NEW l \in Locker, NEW m \in AcquireModes, Downgrade(l, m), sameResource
    PROVE  Inv'
  <1>0. LockerInv(l) /\ TypeOK /\ MutexInv /\ GrantedCountsMatch /\ m \in Mode
    BY CountsSplit, ModeAssumption DEF Inv, RequestInv, LockerInv
  <1>1. /\ pc[l] = "idle" /\ status[l] = "GRANTED" /\ recursiveCount[l] > 0
        /\ mode[l] \in Mode \ IntentModes /\ newMode[l] = MODE_NONE /\ m # mode[l]
        /\ OnHead(l) /\ ~Queued(l) /\ ~OnPartition(l)
    BY <1>0 DEF Downgrade, LockerInv, StatusInv, ModeInv, PlaceInv, Upgrading, Scanning
  <1>2. /\ grantedCounts' = Dec(Inc(grantedCounts, m), mode[l])
        /\ mode' = [mode EXCEPT ![l] = m]
        /\ bucketMutex = Nobody /\ bucketMutex' = l
        /\ pc' = [pc EXCEPT ![l] = "grantConversions"]
        /\ iter' = 1 /\ checkConflictQueue' \in BOOLEAN /\ newlyCompatibleFirst' \in BOOLEAN
        /\ UNCHANGED <<status, convertMode, recursiveCount, partitioned, compatibleFirst,
                       newMode, notified, headExists, partitions, grantedList,
                       conversionsCount, compatibleFirstCount, conflictVars, plhVars,
                       partitionMutex>>
        /\ isModeCovered(m, mode[l])
    BY DEF Downgrade, onLockModeChanged, goto
  <1>3. GrantedCountsMatch'
    BY <1>0, <1>1, <1>2, CountsOnModeChange DEF OnHead
  <1>4. grantedCounts[mode[l]] > 0
    BY <1>1, Counted DEF Inv, OnHead
  <1>5. ~PartitionedHead
    BY <1>1, <1>4 DEF Inv, PartitionedIsUncontended, grantedModes
  <1>6. grantedCounts' \in Count
    BY <1>0, <1>1, <1>2, <1>4 DEF TypeOK, Count, Inc, Dec
  <1>7. /\ ConflictCountsMatch' /\ NoDuplicates(conflictList')
        /\ \A x \in Locker : Queued(x)' <=> Queued(x)
    <2>1. \A x \in Linked(conflictList) : mode'[x] = mode[x]
      BY <1>0, <1>1, <1>2, LinkedLockers DEF TypeOK, Queued
    <2> QED BY <1>2, <2>1, QueueUnchanged
  <1>8. /\ PartitionedIsUncontended' /\ ListsInv'
        /\ \A x \in Locker : ~OnPartition(x) /\ ~OnPartition(x)'
    BY <1>2, <1>5, <1>7, UnpartitionedStays DEF Inv, ListsInv
  <1>9. Compatible'
    <2>1. ASSUME NEW b \in Linked(grantedList) \ {l} PROVE ~conflicts(m, {mode[b]})
      <3>1. ~conflicts(mode[l], {mode[b]})
        BY <1>1 DEF Inv, Compatible, OnHead
      <3> QED BY <1>0, <1>1, <1>2, <3>1, CoveredConflicts
    <2> QED BY <1>0, <1>1, <1>2, <2>1, ModeChangeCompatible DEF OnHead
  <1>10. TypeOK'
    BY <1>0, <1>2, <1>6 DEF TypeOK, Label, Thread, sameResource
  <1>11. pc'[l] = "grantConversions" /\ mode'[l] = m /\ (OnHead(l)' <=> OnHead(l))
    BY <1>0, <1>2 DEF TypeOK, Thread, OnHead
  <1>12. LockerInv(l)'
    BY <1>0, <1>1, <1>2, <1>7, <1>8, <1>11 DEF LockerInv, StatusInv, ModeInv, PlaceInv,
       NotifyInv, Asking, Upgrading, Scanning
  <1>13. OnlyRequestOf(l) /\ \A x \in Locker \ {l} : SamePlace(x)
    BY <1>0, <1>2, <1>7, <1>8 DEF TypeOK, OnlyRequestOf, SamePlace, OnHead
  <1>14. RequestInv' /\ MutexInv'
    BY <1>2, <1>12, <1>13, RequestStep
  <1> QED BY <1>3, <1>7, <1>8, <1>9, <1>10, <1>14, CountsSplit DEF Inv

(* A locker other than the scanning one is not inside unlock() with an      *)
(* upgrade: it would own the bucket mutex.                                  *)
LEMMA ConvertingWaits ==
    ASSUME Inv, NEW l \in Locker, pc[l] \in Scanning, NEW q \in Locker, status[q] = "CONVERTING"
    PROVE  pc[q] = "wait" /\ q # l
  <1>1. bucketMutex = l /\ l \in Thread
    BY DEF Inv, MutexInv, Thread
  <1>2. q # l
    BY DEF Inv, RequestInv, StatusInv
  <1>3. pc[q] \in Label /\ StatusInv(q)
    BY DEF Inv, TypeOK, Thread, RequestInv
  <1> QED BY <1>1, <1>2, <1>3 DEF StatusInv, Label, Asking, Upgrading, Scanning

(* The scan grants an upgrade. *)
LEMMA GrantConversionInv ==
    ASSUME Inv, NEW l \in Locker, GrantConversion(l), sameResource
    PROVE  Inv'
  <1>0. TypeOK /\ MutexInv /\ GrantedCountsMatch
    BY CountsSplit DEF Inv
  <1>1. PICK q \in Locker : q = grantedList[iter] /\ q \in Linked(grantedList)
    BY <1>0, LinkedLockers DEF GrantConversion, MoreConversions, TypeOK, Linked
  <1>2. /\ pc[l] = "grantConversions" /\ status[q] = "CONVERTING"
        /\ ~conflicts(convertMode[q], grantedModesWithout(q, {mode[q], convertMode[q]}))
        /\ conversionsCount' = conversionsCount - 1
        /\ grantedCounts' = Dec(grantedCounts, mode[q])
        /\ status' = [status EXCEPT ![q] = "GRANTED"]
        /\ mode' = [mode EXCEPT ![q] = convertMode[q]]
        /\ convertMode' = [convertMode EXCEPT ![q] = MODE_NONE]
        /\ notified' = [notified EXCEPT ![q] = TRUE]
        /\ iter' = iter + 1
        /\ UNCHANGED <<pc, recursiveCount, partitioned, compatibleFirst, newMode, headExists,
                       partitions, grantedList, compatibleFirstCount, conflictVars, plhVars,
                       mutexVars, checkConflictQueue, newlyCompatibleFirst>>
    BY <1>1 DEF GrantConversion, Convertible
  <1>3. pc[q] = "wait" /\ LockerInv(q)
    BY <1>1, <1>2, ConvertingWaits DEF Scanning, Inv, RequestInv, LockerInv
  <1>4. /\ mode[q] \in Mode /\ convertMode[q] \in Mode /\ newMode[q] = MODE_NONE
        /\ recursiveCount[q] > 1 /\ OnHead(q) /\ ~Queued(q) /\ ~OnPartition(q)
    BY <1>1, <1>2, <1>3 DEF LockerInv, StatusInv, ModeInv, PlaceInv, Upgrading, OnHead
  <1>5. GrantedCountsMatch'
    BY <1>0, <1>1, <1>2, <1>4, CountsOnUpgradeEnd
  <1>6. /\ grantedCounts' \in Count /\ conversionsCount' \in Nat
        /\ grantedModes' \subseteq grantedModes
    <2>1. grantedCounts[mode[q]] > 0 /\ conversionsCount > 0
      BY <1>1, <1>2, <1>4, Counted DEF Inv
    <2> QED BY <1>0, <1>2, <1>4, <2>1 DEF TypeOK, Count, Dec, grantedModes
  <1>7. /\ ConflictCountsMatch' /\ NoDuplicates(conflictList') /\ conflictModes' = conflictModes
        /\ \A x \in Locker : Queued(x)' <=> Queued(x)
    <2>1. \A x \in Linked(conflictList) : mode'[x] = mode[x]
      BY <1>0, <1>2, <1>4, LinkedLockers DEF TypeOK, Queued
    <2> QED BY <1>2, <2>1, QueueUnchanged
  <1>8. /\ PartitionedIsUncontended' /\ ListsInv'
        /\ \A x \in Locker : OnPartition(x)' <=> OnPartition(x)
    BY <1>2, <1>6, <1>7, PartitionsStay DEF Inv, ListsInv
  <1>9. Compatible'
    <2>1. \A b \in Linked(grantedList) \ {q} : ~conflicts(convertMode[q], {mode[b]})
      BY <1>1, <1>2, <1>4, OthersAreCompared, ConflictsWithOne
    <2> QED BY <1>1, <1>2, <1>4, <2>1, ModeChangeCompatible
  <1>10. TypeOK'
    BY <1>0, <1>1, <1>2, <1>4, <1>6 DEF TypeOK, sameResource
  <1>11. /\ status'[q] = "GRANTED" /\ mode'[q] = convertMode[q] /\ notified'[q] = TRUE
         /\ OnHead(q)'
    BY <1>0, <1>1, <1>2 DEF TypeOK, OnHead
  <1>12. LockerInv(q)'
    BY <1>1, <1>2, <1>3, <1>4, <1>7, <1>8, <1>11 DEF LockerInv, StatusInv, ModeInv,
       PlaceInv, NotifyInv, Asking, Upgrading, Scanning
  <1>13. OnlyRequestOf(q) /\ \A x \in Locker \ {q} : SamePlace(x)
    BY <1>0, <1>2, <1>7, <1>8 DEF TypeOK, OnlyRequestOf, SamePlace, OnHead
  <1>14. RequestInv' /\ MutexInv'
    BY <1>1, <1>2, <1>3, <1>12, <1>13, RequestStep DEF Scanning
  <1> QED BY <1>5, <1>7, <1>8, <1>9, <1>10, <1>14, CountsSplit DEF Inv

(* The scan grants a waiter. *)
LEMMA GrantWaiterInv ==
    ASSUME Inv, NEW l \in Locker, GrantWaiter(l), sameResource
    PROVE  Inv'
  <1>0. TypeOK /\ MutexInv /\ ConflictCountsMatch /\ bucketMutex = l
    BY CountsSplit DEF Inv, MutexInv, Thread, Scanning, GrantWaiter
  <1>a. iter \in 1..Len(conflictList)
    BY <1>0 DEF GrantWaiter, MoreWaiters, TypeOK
  <1>1. PICK q \in Locker : q = conflictList[iter] /\ q \in Linked(conflictList)
    BY <1>0, <1>a, LinkedLockers DEF Linked
  <1>2. /\ pc[l] = "grantWaiters"
        /\ ~conflicts(mode[q], grantedModes)
        /\ status' = [status EXCEPT ![q] = "GRANTED"]
        /\ conflictList' = RemoveAt(conflictList, iter)
        /\ conflictCounts' = Dec(conflictCounts, mode[q])
        /\ grantedList' = push_back(grantedList, q)
        /\ grantedCounts' = Inc(grantedCounts, mode[q])
        /\ compatibleFirstCount' = compatibleFirstCount + IF compatibleFirst[q] THEN 1 ELSE 0
        /\ newlyCompatibleFirst' \in BOOLEAN
        /\ notified' = [notified EXCEPT ![q] = TRUE]
        /\ iter' = IF mode[q] = "X" THEN Len(conflictList) ELSE iter
        /\ UNCHANGED <<pc, mode, convertMode, recursiveCount, partitioned, compatibleFirst,
                       newMode, headExists, partitions, conversionsCount, plhVars, mutexVars,
                       checkConflictQueue>>
    BY <1>1 DEF GrantWaiter, Blocked
  <1>3. /\ conflictList' \in Seq(Locker) /\ NoDuplicates(conflictList')
        /\ Linked(conflictList') = Linked(conflictList) \ {q}
    BY <1>0, <1>1, <1>2, <1>a, RemoveAtPosition DEF Inv, TypeOK, ListsInv
  <1>4. /\ status[q] = "WAITING" /\ pc[q] \in {"wait", "unlockBucket"} /\ mode[q] \in Mode
        /\ newMode[q] = MODE_NONE /\ ~OnHead(q) /\ Queued(q) /\ ~OnPartition(q)
        /\ pc[q] = "wait" => recursiveCount[q] > 0
        /\ pc[q] = "unlockBucket" => recursiveCount[q] = 0
    BY <1>1 DEF Inv, RequestInv, StatusInv, ModeInv, PlaceInv, Queued, Upgrading
  <1>5. ConflictCountsMatch'
    BY <1>0, <1>1, <1>2, <1>3, <1>4, CountsOnDequeue
  <1>6. conflictCounts[mode[q]] > 0
    BY <1>1, <1>4, WaiterCounted DEF Inv
  <1>7. conflictCounts' \in Count
    BY <1>0, <1>2, <1>4, <1>6 DEF TypeOK, Count, Dec
  <1>8. ~PartitionedHead
    BY <1>4, <1>6 DEF Inv, PartitionedIsUncontended, conflictModes
  <1>9. /\ grantedList' \in Seq(Locker) /\ NoDuplicates(grantedList')
        /\ grantedCounts' \in Count /\ compatibleFirstCount' \in Nat
        /\ \A x \in Locker : OnHead(x)' <=> OnHead(x) \/ x = q
        /\ GrantedCountsMatch' /\ Compatible'
    BY <1>1, <1>2, <1>4, GrantOnHead
  <1>10. /\ PartitionedIsUncontended' /\ ListsInv'
         /\ \A x \in Locker : ~OnPartition(x) /\ ~OnPartition(x)'
    BY <1>2, <1>3, <1>8, <1>9, UnpartitionedStays
  <1>11. TypeOK'
    <2>1. iter' \in Nat \ {0}
      BY <1>0, <1>2, <1>a DEF TypeOK
    <2> QED BY <1>0, <1>2, <1>3, <1>7, <1>9, <2>1 DEF TypeOK, sameResource
  <1>12. status'[q] = "GRANTED" /\ notified'[q] = TRUE /\ OnHead(q)' /\ ~Queued(q)'
    BY <1>0, <1>1, <1>2, <1>3, <1>9 DEF TypeOK, Queued
  <1>13. LockerInv(q)'
    BY <1>2, <1>4, <1>10, <1>12 DEF LockerInv, StatusInv, ModeInv, PlaceInv, NotifyInv,
       Asking, Upgrading, Scanning
  <1>14. OnlyRequestOf(q) /\ \A x \in Locker \ {q} : SamePlace(x)
    BY <1>0, <1>2, <1>3, <1>9, <1>10 DEF TypeOK, OnlyRequestOf, SamePlace, Queued
  <1>15. RequestInv' /\ MutexInv'
    BY <1>1, <1>2, <1>4, <1>13, <1>14, RequestStep DEF Scanning
  <1> QED BY <1>5, <1>9, <1>10, <1>11, <1>15, CountsSplit DEF Inv

(* A step that changes no request and neither list of the lock head. *)
LEMMA HeadStep ==
    ASSUME Inv, TypeOK', UNCHANGED <<reqVars, grantedVars, conflictVars, plhGrantedList>>,
           \A x \in Locker : pc'[x] = pc[x] /\ (bucketMutex = x => bucketMutex' = x)
    PROVE  ListsInv' /\ RequestInv' /\ CountsMatchLists' /\ Compatible'
           /\ UNCHANGED <<grantedModes, conflictModes>>
  <1>1. CountsMatchLists' /\ Compatible' /\ UNCHANGED <<grantedModes, conflictModes>>
    BY HeadUnchanged DEF KeepsModes
  <1>2. RequestInv'
    <2>1. \A x \in Locker : Untouched(x)
      BY DEF Untouched, OnHead, Queued, OnPartition
    <2>2. \A x \in Locker : LockerInv(x)'
      BY <2>1, OtherRequests DEF Inv
    <2> QED BY <2>2 DEF RequestInv, LockerInv
  <1>3. ListsInv'
    BY DEF Inv, ListsInv
  <1> QED BY <1>1, <1>2, <1>3

(* The migration takes the mutex of a partition. *)
LEMMA MigrateLockPartitionInv ==
    ASSUME Inv, NEW t \in Thread, MigrateLockPartition(t), sameResource
    PROVE  Inv'
  <1>1. /\ partitionMutex' = [partitionMutex EXCEPT ![back] = t]
        /\ UNCHANGED <<pc, reqVars, headVars, plhVars, bucketMutex, scanVars>>
    BY DEF MigrateLockPartition
  <1>2. TypeOK'
    BY <1>1 DEF Inv, TypeOK, sameResource
  <1>3. /\ ListsInv' /\ RequestInv' /\ CountsMatchLists' /\ Compatible'
        /\ UNCHANGED <<grantedModes, conflictModes>>
    BY <1>1, <1>2, HeadStep
  <1>4. MutexInv' /\ PartitionedIsUncontended'
    BY <1>1, <1>3 DEF Inv, MutexInv, PartitionedIsUncontended, PartitionedHead
  <1> QED BY <1>2, <1>3, <1>4 DEF Inv

(* The migration moves a request to the lock head, where it is granted:     *)
(* invariant(res == LOCK_OK) in the code.                                   *)
LEMMA MigrateRequestInv ==
    ASSUME Inv, NEW t \in Thread, MigrateRequest(t), sameResource
    PROVE  Inv'
  <1>0. TypeOK /\ MutexInv /\ PartitionedHead
    BY DEF Inv, MigrateRequest, Migrating
  <1>1. PICK p \in Partition : p = back
    BY <1>0, PopBack DEF TypeOK, PartitionedHead, back
  <1>2. /\ plhGrantedList[p] \in Seq(Locker) /\ plhGrantedList[p] # <<>>
        /\ NoDuplicates(plhGrantedList[p])
    BY <1>0, <1>1 DEF TypeOK, Inv, ListsInv, MigrateRequest
  <1>3. PICK q \in Locker : q = Head(plhGrantedList[p])
    BY <1>2, PopFront
  <1>4. PICK s \in Seq(Locker) : s = Tail(plhGrantedList[p])
    BY <1>2, PopFront
  <1>5. /\ q \in Linked(plhGrantedList[p]) /\ Linked(s) = Linked(plhGrantedList[p]) \ {q}
        /\ NoDuplicates(s)
    BY <1>2, <1>3, <1>4, PopFront
  <1>6. PartitionOf[q] = p /\ OnPartition(q) /\ \A x \in Linked(s) : PartitionOf[x] = p
    BY <1>5 DEF Inv, ListsInv, OnPartition
  <1>7. /\ ~OnHead(q) /\ ~Queued(q) /\ status[q] = "GRANTED" /\ mode[q] \in IntentModes
        /\ LockerInv(q) /\ pc[q] \in {"idle", "unlockPartition"} \cup Upgrading
    BY <1>6 DEF Inv, RequestInv, PlaceInv, LockerInv
  <1>8. /\ newRequestWaits(q) \/ newRequestGranted(q)
        /\ plhGrantedList' = [plhGrantedList EXCEPT ![p] = s]
        /\ UNCHANGED <<pc, mode, convertMode, recursiveCount, partitioned, compatibleFirst,
                       newMode, notified, headExists, partitions, plhExists, mutexVars,
                       scanVars>>
    BY <1>1, <1>3, <1>4 DEF MigrateRequest
  <1>9. grantedModes \subseteq IntentModes /\ conflictModes = {}
    BY <1>0 DEF Inv, PartitionedIsUncontended
  <1>10. ~MustWait(q) /\ ~conflicts(mode[q], grantedModes) /\ mode[q] \in Mode
    <2>1. ~conflicts(mode[q], grantedModes) /\ ~conflicts(mode[q], conflictModes)
      BY <1>7, <1>9, IntentsCompatible
    <2> QED BY <1>7, <2>1 DEF MustWait, IntentModes, Mode
  <1>11. /\ status' = [status EXCEPT ![q] = "GRANTED"]
         /\ grantedList' = push_back(grantedList, q)
         /\ grantedCounts' = Inc(grantedCounts, mode[q])
         /\ compatibleFirstCount' = compatibleFirstCount + IF compatibleFirst[q] THEN 1 ELSE 0
         /\ UNCHANGED <<conversionsCount, conflictVars>>
    BY <1>8, <1>10 DEF newRequestWaits, newRequestGranted
  <1>12. /\ grantedList' \in Seq(Locker) /\ NoDuplicates(grantedList')
         /\ grantedCounts' \in Count /\ compatibleFirstCount' \in Nat
         /\ \A x \in Locker : OnHead(x)' <=> OnHead(x) \/ x = q
         /\ GrantedCountsMatch' /\ Compatible'
         /\ grantedModes' = grantedModes \cup {mode[q]}
    BY <1>7, <1>8, <1>10, <1>11, GrantOnHead
  <1>13. /\ ConflictCountsMatch' /\ NoDuplicates(conflictList') /\ conflictModes' = conflictModes
         /\ \A x \in Locker : Queued(x)' <=> Queued(x)
    BY <1>8, <1>11, QueueUnchanged
  <1>14. /\ plhGrantedList' \in [Partition -> Seq(Locker)]
         /\ \A r \in Partition \ {p} : plhGrantedList'[r] = plhGrantedList[r]
         /\ NoDuplicates(grantedList') /\ NoDuplicates(conflictList') => ListsInv'
         /\ \A x \in Locker :
                /\ PartitionOf[x] = p => (OnPartition(x)' <=> x \in Linked(s))
                /\ PartitionOf[x] # p => (OnPartition(x)' <=> OnPartition(x))
    BY <1>5, <1>6, <1>8, PartitionList
  <1>15. ListsInv' /\ ~OnPartition(q)' /\ \A x \in Locker \ {q} : OnPartition(x)' <=> OnPartition(x)
    BY <1>5, <1>6, <1>12, <1>13, <1>14 DEF OnPartition
  <1>16. TypeOK'
    BY <1>0, <1>8, <1>11, <1>12, <1>14 DEF TypeOK, sameResource
  <1>17. LockerInv(q)'
    <2>1. status'[q] = "GRANTED" /\ OnHead(q)'
      BY <1>0, <1>11, <1>12 DEF TypeOK
    <2> QED BY <1>6, <1>7, <1>8, <1>13, <1>15, <2>1 DEF LockerInv, StatusInv, ModeInv,
               PlaceInv, NotifyInv, Asking, Upgrading, Scanning
  <1>18. OnlyRequestOf(q) /\ \A x \in Locker \ {q} : SamePlace(x)
    BY <1>0, <1>8, <1>11, <1>12, <1>13, <1>15 DEF TypeOK, OnlyRequestOf, SamePlace
  <1>19. RequestInv' /\ MutexInv'
    <2>1. pc'[q] \in {"lockMigrate", "convertMigrate"} \cup Scanning => bucketMutex' = q
      BY <1>0, <1>8 DEF MutexInv, Thread
    <2> QED BY <1>8, <1>17, <1>18, <2>1, RequestStep
  <1>20. PartitionedIsUncontended'
    <2>1. ASSUME NEW r \in Partition
          PROVE  /\ plhExists'[r] => headExists' /\ r \in Linked(partitions')
                 /\ plhGrantedList'[r] # <<>> => plhExists'[r]
      BY <1>2, <1>8, <1>14 DEF Inv, PartitionedIsUncontended, Linked
    <2> QED BY <1>7, <1>9, <1>12, <1>13, <2>1 DEF PartitionedIsUncontended, Linked
  <1> QED BY <1>12, <1>13, <1>15, <1>16, <1>19, <1>20, CountsSplit DEF Inv

(* The migration deletes an emptied partition. *)
LEMMA MigrateUnlockPartitionInv ==
    ASSUME Inv, NEW t \in Thread, MigrateUnlockPartition(t), sameResource
    PROVE  Inv'
  <1>0. TypeOK /\ PartitionedHead /\ partitions \in Seq(Partition)
    BY DEF Inv, MigrateUnlockPartition, Migrating, TypeOK
  <1>1. /\ back \in Partition
        /\ Linked(partitions) \subseteq Linked(SubSeq(partitions, 1, Len(partitions) - 1)) \cup {back}
        /\ SubSeq(partitions, 1, Len(partitions) - 1) \in Seq(Partition)
    BY <1>0, PopBack DEF PartitionedHead, back
  <1>2. PICK p \in Partition : p = back
    BY <1>1
  <1>3. /\ plhGrantedList[p] = <<>>
        /\ plhExists' = [plhExists EXCEPT ![p] = FALSE]
        /\ partitionMutex' = [partitionMutex EXCEPT ![p] = Nobody]
        /\ partitions' = SubSeq(partitions, 1, Len(partitions) - 1)
        /\ UNCHANGED <<pc, reqVars, headExists, grantedVars, conflictVars, plhGrantedList,
                       bucketMutex, scanVars>>
    BY <1>2 DEF MigrateUnlockPartition
  <1>4. /\ partitions' \in Seq(Partition)
        /\ Linked(partitions) \subseteq Linked(partitions') \cup {p}
    BY <1>1, <1>2, <1>3
  <1>5. TypeOK'
    BY <1>0, <1>3, <1>4 DEF TypeOK, sameResource
  <1>6. /\ ListsInv' /\ RequestInv' /\ CountsMatchLists' /\ Compatible'
        /\ UNCHANGED <<grantedModes, conflictModes>>
    BY <1>3, <1>5, HeadStep
  <1>7. MutexInv'
    BY <1>3 DEF Inv, MutexInv
  <1>8. PartitionedIsUncontended'
    <2>1. ASSUME NEW r \in Partition
          PROVE  /\ plhExists'[r] => headExists' /\ r \in Linked(partitions')
                 /\ plhGrantedList'[r] # <<>> => plhExists'[r]
      <3>1. CASE r = p
        BY <1>0, <1>3, <3>1 DEF TypeOK
      <3>2. CASE r # p
        <4>1. plhExists'[r] = plhExists[r] /\ plhGrantedList'[r] = plhGrantedList[r]
          BY <1>0, <1>3, <3>2 DEF TypeOK
        <4>2. /\ plhExists[r] => headExists /\ r \in Linked(partitions)
              /\ plhGrantedList[r] # <<>> => plhExists[r]
          BY DEF Inv, PartitionedIsUncontended, Linked
        <4> QED BY <1>3, <1>4, <3>2, <4>1, <4>2
      <3> QED BY <3>1, <3>2
    <2>2. grantedModes' \subseteq IntentModes /\ conflictModes' = {}
      BY <1>0, <1>6 DEF Inv, PartitionedIsUncontended
    <2> QED BY <2>1, <2>2 DEF PartitionedIsUncontended, Linked
  <1> QED BY <1>5, <1>6, <1>7, <1>8 DEF Inv

(* The cleaner takes the bucket mutex to migrate the partitions. *)
LEMMA CleanupMigrateInv ==
    ASSUME Inv, CleanupMigrate, sameResource
    PROVE  Inv'
  <1>0. TypeOK /\ Cleaner \in Thread
    BY DEF Inv, Thread
  <1>1. /\ bucketMutex = Nobody /\ bucketMutex' = Cleaner
        /\ pc' = [pc EXCEPT ![Cleaner] = "cleanupMigrate"]
        /\ UNCHANGED <<reqVars, headVars, plhVars, partitionMutex, scanVars>>
    BY DEF CleanupMigrate, goto
  <1>2. TypeOK'
    BY <1>0, <1>1 DEF TypeOK, Label, sameResource
  <1>3. /\ \A x \in Locker : pc'[x] = pc[x] /\ bucketMutex # x
        /\ \A t \in Thread \ {Cleaner} : pc'[t] = pc[t] /\ bucketMutex # t
        /\ pc'[Cleaner] = "cleanupMigrate"
    BY <1>0, <1>1, LockerAssumption DEF TypeOK, Thread
  <1>4. /\ ListsInv' /\ RequestInv' /\ CountsMatchLists' /\ Compatible'
        /\ UNCHANGED <<grantedModes, conflictModes>>
    BY <1>1, <1>2, <1>3, HeadStep
  <1>5. MutexInv' /\ PartitionedIsUncontended'
    BY <1>1, <1>3, <1>4 DEF Inv, MutexInv, PartitionedIsUncontended, PartitionedHead
  <1> QED BY <1>2, <1>4, <1>5 DEF Inv

(* The cleaner deletes the lock head if nothing is granted. *)
LEMMA CleanupInv ==
    ASSUME Inv, Cleanup, sameResource
    PROVE  Inv'
  <1>0. TypeOK /\ MutexInv /\ Cleaner \in Thread
    BY DEF Inv, Thread
  <1>1. /\ bucketMutex \in {Nobody, Cleaner} /\ bucketMutex' = Nobody
        /\ ~PartitionedHead
        /\ headExists' \in BOOLEAN
        /\ pc' = [pc EXCEPT ![Cleaner] = "idle"]
        /\ UNCHANGED <<reqVars, partitions, grantedVars, conflictVars, plhVars,
                       partitionMutex, scanVars>>
    BY <1>0 DEF Cleanup, goto, MutexInv
  <1>2. TypeOK'
    BY <1>0, <1>1 DEF TypeOK, Label, sameResource
  <1>3. /\ \A x \in Locker : pc'[x] = pc[x] /\ bucketMutex # x
        /\ \A t \in Thread \ {Cleaner} : pc'[t] = pc[t] /\ bucketMutex # t
        /\ pc'[Cleaner] = "idle"
    BY <1>0, <1>1, LockerAssumption DEF TypeOK, Thread
  <1>4. ListsInv' /\ RequestInv' /\ CountsMatchLists' /\ Compatible'
    BY <1>1, <1>2, <1>3, HeadStep
  <1>5. MutexInv'
    BY <1>1, <1>3 DEF Inv, MutexInv, Scanning
  <1>6. PartitionedIsUncontended'
    BY <1>1, UnpartitionedStays
  <1> QED BY <1>2, <1>4, <1>5, <1>6 DEF Inv

-----------------------------------------------------------------------------
(* The theorems. *)

(* The invariant holds of the state the server starts in. *)
LEMMA InitInv ==
    ASSUME Init PROVE Inv
  <1>1. TypeOK
    <2>1. /\ headExists \in BOOLEAN /\ checkConflictQueue \in BOOLEAN
          /\ newlyCompatibleFirst \in BOOLEAN
      BY Zenon DEF Init
    <2>2. grantedCounts \in Count /\ conflictCounts \in Count
      BY DEF Init, Count, NoRequests
    <2>3. pc \in [Thread -> Label] /\ partitionMutex \in [Partition -> Thread \cup {Nobody}]
      BY DEF Init, Label
    <2>4. /\ partitioned \in [Locker -> BOOLEAN] /\ compatibleFirst \in [Locker -> BOOLEAN]
          /\ notified \in [Locker -> BOOLEAN] /\ plhExists \in [Partition -> BOOLEAN]
          /\ plhGrantedList \in [Partition -> Seq(Locker)]
      BY DEF Init
    <2> QED BY <2>1, <2>2, <2>3, <2>4 DEF Init, TypeOK
  <1>2. /\ Linked(grantedList) = {} /\ Linked(conflictList) = {}
        /\ \A p \in Partition : plhGrantedList[p] = <<>> /\ Linked(plhGrantedList[p]) = {}
        /\ \A x \in Locker : ~OnHead(x) /\ ~Queued(x) /\ ~OnPartition(x)
    BY PartitionAssumption DEF Init, Linked, OnHead, Queued, OnPartition
  <1>3. ListsInv
    BY <1>2 DEF Init, ListsInv, NoDuplicates
  <1>4. RequestInv
    BY <1>2 DEF Init, RequestInv, StatusInv, ModeInv, PlaceInv, NotifyInv, Asking,
       Upgrading, Scanning, Thread
  <1>5. MutexInv
    BY DEF Init, MutexInv, Scanning, Thread
  <1>6. CountsMatchLists
    <2>1. /\ \A m \in Mode : Holders(m) = {} /\ Upgraders(m) = {} /\ Waiters(m) = {}
          /\ Converting = {} /\ Prior = {}
      BY <1>2 DEF Holders, Upgraders, Waiters, Converting, Prior
    <2>2. Cardinality({}) = 0
      BY FS_EmptySet
    <2>3. /\ \A m \in Mode : /\ Cardinality(Holders(m)) = 0
                             /\ Cardinality(Upgraders(m)) = 0
                             /\ Cardinality(Waiters(m)) = 0
          /\ Cardinality(Converting) = 0 /\ Cardinality(Prior) = 0
      BY <2>1, <2>2, Zenon
    <2> QED BY <2>3, CountsSplit DEF Init, NoRequests, GrantedCountsMatch,
               ConflictCountsMatch
  <1>7. PartitionedIsUncontended
    BY <1>2 DEF Init, PartitionedIsUncontended, PartitionedHead
  <1>8. Compatible
    BY <1>2 DEF Compatible
  <1> QED BY <1>1, <1>3, <1>4, <1>5, <1>6, <1>7, <1>8 DEF Inv

(* A step that changes nothing keeps it. *)
LEMMA StutterInv ==
    ASSUME Inv, UNCHANGED vars PROVE Inv'
  <1> USE DEF vars
  <1>1. TypeOK'
    BY DEF Inv, TypeOK
  <1>2. /\ ListsInv' /\ RequestInv' /\ CountsMatchLists' /\ Compatible'
        /\ UNCHANGED <<grantedModes, conflictModes>>
    BY <1>1, HeadStep
  <1>3. MutexInv' /\ PartitionedIsUncontended'
    BY <1>2 DEF Inv, MutexInv, PartitionedIsUncontended, PartitionedHead
  <1> QED BY <1>1, <1>2, <1>3 DEF Inv

(* So does every step of the lock manager. *)
LEMMA NextInv ==
    ASSUME NoGrantRace, Inv, Next PROVE Inv'
  <1>0. sameResource
    BY DEF Next
  <1>1. CASE \E l \in Locker : LockerNext(l)
    <2>1. PICK l \in Locker : LockerNext(l)
      BY <1>1
    <2>2. CASE \E m \in AcquireModes : LockBegin(l, m) \/ Downgrade(l, m)
      BY <1>0, <2>2, LockBeginInv, DowngradeInv
    <2>3. CASE \E m \in upgradeModes : ConvertCovered(l, m) \/ ConvertBegin(l, m)
      BY <1>0, <2>3, ConvertCoveredInv, ConvertBeginInv
    <2>4. CASE LockPartition(l) \/ LockStartPartition(l) \/ LockMigrate(l) \/ LockNewRequest(l)
      BY <1>0, <2>4, LockPartitionInv, LockStartPartitionInv, LockMigrateInv,
         LockNewRequestInv
    <2>5. CASE ConvertMigrate(l) \/ Convert(l)
      BY <1>0, <2>5, ConvertMigrateInv, ConvertInv
    <2>6. CASE WaitGranted(l) \/ WaitAbandoned(l)
      BY <1>0, <2>6, WaitGrantedInv, WaitAbandonedInv
    <2>7. CASE Unlock(l) \/ UnlockPartition(l)
      BY <1>0, <2>7, UnlockInv, UnlockPartitionInv
    <2>8. CASE UnlockGranted(l) \/ UnlockWaiting(l) \/ UnlockConverting(l)
      BY <1>0, <2>8, UnlockGrantedInv, UnlockWaitingInv, UnlockConvertingInv
    <2>9. CASE GrantConversion(l) \/ SkipConversion(l) \/ ConversionsDone(l)
      BY <1>0, <2>9, GrantConversionInv, SkipConversionInv, ConversionsDoneInv
    <2>10. CASE GrantWaiter(l) \/ SkipWaiter(l) \/ LockModeChangedDone(l)
      BY <1>0, <2>10, GrantWaiterInv, SkipWaiterInv, LockModeChangedDoneInv
    <2> QED BY <2>1, <2>2, <2>3, <2>4, <2>5, <2>6, <2>7, <2>8, <2>9, <2>10 DEF LockerNext
  <1>2. CASE \E t \in Thread : MigrateNext(t)
    BY <1>0, <1>2, MigrateLockPartitionInv, MigrateRequestInv,
       MigrateUnlockPartitionInv DEF MigrateNext
  <1>3. CASE CleanupMigrate \/ Cleanup
    BY <1>0, <1>3, CleanupMigrateInv, CleanupInv
  <1> QED BY <1>1, <1>2, <1>3 DEF Next

(* The inductive invariant holds of every execution without the race of a   *)
(* grant with an abandoned upgrade.                                         *)
THEOREM Invariance == NoGrantRace => (Spec => []Inv)
  <1> SUFFICES ASSUME NoGrantRace PROVE Spec => []Inv
    OBVIOUS
  <1>1. Init => Inv
    BY InitInv
  <1>2. Inv /\ [Next]_vars => Inv'
    BY NextInv, StutterInv
  <1> QED BY <1>1, <1>2, PTL DEF Spec

(* Every holder of the resource is linked, on the lock head or on a         *)
(* partition, and in an intent mode if on a partition.                      *)
LEMMA HoldersAreLinked ==
    ASSUME Inv, NEW a \in Locker, Holds(a)
    PROVE  /\ mode[a] \in Mode
           /\ OnHead(a) => mode[a] \in grantedModes
           /\ ~OnHead(a) => mode[a] \in IntentModes /\ PartitionedHead
  <1>1. StatusInv(a) /\ ModeInv(a) /\ PlaceInv(a) /\ recursiveCount[a] \in Nat
    BY DEF Inv, RequestInv, TypeOK
  <1>2. mode[a] \in Mode /\ (OnHead(a) \/ OnPartition(a))
    BY <1>1 DEF Holds, ModeInv, PlaceInv
  <1>3. OnHead(a) => mode[a] \in grantedModes
    BY <1>2, Counted DEF Inv, OnHead, grantedModes
  <1>4. OnPartition(a) => mode[a] \in IntentModes /\ PartitionedHead
    <2> SUFFICES ASSUME OnPartition(a) PROVE mode[a] \in IntentModes /\ PartitionedHead
      OBVIOUS
    <2> DEFINE p == PartitionOf[a]
    <2>1. p \in Partition /\ plhGrantedList[p] # <<>>
      BY PartitionAssumption DEF OnPartition, Linked
    <2>2. p \in Linked(partitions)
      BY <2>1 DEF Inv, PartitionedIsUncontended, Linked
    <2> QED BY <1>1, <2>2 DEF PlaceInv, PartitionedHead, Linked
  <1> QED BY <1>2, <1>3, <1>4

(* No two lockers hold the resource in conflicting modes. *)
LEMMA InvMutualExclusion ==
    ASSUME Inv PROVE MutualExclusion
  <1> SUFFICES ASSUME NEW a \in Locker, NEW b \in Locker, a # b, Holds(a), Holds(b)
               PROVE  ~conflicts(mode[a], {mode[b]})
    BY DEF MutualExclusion
  <1>1. CASE OnHead(a) /\ OnHead(b)
    BY <1>1 DEF Inv, Compatible, OnHead
  <1>2. CASE ~OnHead(a) \/ ~OnHead(b)
    <2>1. PartitionedHead
      BY <1>2, HoldersAreLinked
    <2>2. grantedModes \subseteq IntentModes
      BY <2>1 DEF Inv, PartitionedIsUncontended
    <2>3. mode[a] \in IntentModes /\ mode[b] \in IntentModes
      BY <2>2, HoldersAreLinked
    <2> QED BY <2>3, IntentsCompatible
  <1> QED BY <1>1, <1>2

(* The state of the lock manager is well-formed: in particular no count of   *)
(* the lock head is ever decremented below zero.                            *)
THEOREM TypeCorrect == NoGrantRace => (Spec => []TypeOK)
  <1>1. Inv => TypeOK
    BY DEF Inv
  <1> QED BY <1>1, Invariance, PTL

(* Conflicting modes are never held together (LockManager::lock, convert,   *)
(* unlock and downgrade and the scan of _onLockModeChanged).                *)
THEOREM MutuallyExclusive == NoGrantRace => (Spec => []MutualExclusion)
  <1>1. Inv => MutualExclusion
    BY InvMutualExclusion
  <1> QED BY <1>1, Invariance, PTL

(* The counts of the lock head, by which every conflict is decided, are     *)
(* those of its lists.                                                      *)
THEOREM CountsMatch == NoGrantRace => (Spec => []CountsMatchLists)
  <1>1. Inv => CountsMatchLists
    BY DEF Inv
  <1> QED BY <1>1, Invariance, PTL

(* A partitioned lock head grants intent modes only and has no queue, which *)
(* the intent fast path and migratePartitionedLockHeads rely on.            *)
THEOREM PartitionsUncontended == NoGrantRace => (Spec => []PartitionedIsUncontended)
  <1>1. Inv => PartitionedIsUncontended
    BY DEF Inv
  <1> QED BY <1>1, Invariance, PTL

(* No wakeup of CondVarLockGrantNotification is lost or stale. *)
THEOREM NotifiedExactlyWhenGranted == NoGrantRace => (Spec => []NotifiedIffGranted)
  <1>1. Inv => NotifiedIffGranted
    BY LinkedLockers DEF Inv, RequestInv, NotifyInv, NotifiedIffGranted, Queued
  <1> QED BY <1>1, Invariance, PTL

(* unlock() takes a granted request off the list with its last reference. *)
THEOREM RemovedOnLastReference == NoGrantRace => (Spec => []GrantedRemovedOnLastReference)
  <1>1. Inv => GrantedRemovedOnLastReference
    BY DEF Inv, RequestInv, StatusInv, GrantedRemovedOnLastReference
  <1> QED BY <1>1, Invariance, PTL

(* With an empty set of queued modes no queued request conflicts. *)
LEMMA NobodyQueued ==
    ASSUME Inv, conflictModes = {} PROVE Linked(conflictList) = {}
  <1>1. ASSUME NEW w \in Linked(conflictList) PROVE FALSE
    <2>1. w \in Locker /\ mode[w] \in Mode
      BY LinkedLockers DEF Inv, RequestInv, PlaceInv, ModeInv, Queued
    <2>2. conflictCounts[mode[w]] > 0
      BY <2>1, WaiterCounted DEF Inv
    <2> QED BY <2>1, <2>2 DEF conflictModes
  <1> QED BY <1>1

(* A step that grants a new request either goes by a partition or asks      *)
(* MustWait.                                                                *)
LEMMA NewGrants ==
    ASSUME Inv, Next, NEW l \in Locker, status[l] = "NEW", status'[l] = "GRANTED"
    PROVE  conflictModes = {} \/ ~MustWait(l)
  <1>0. TypeOK /\ status \in [Locker -> {"NEW", "GRANTED", "WAITING", "CONVERTING"}]
    BY DEF Inv, TypeOK
  <1>1. ASSUME NEW x \in Locker, LockPartition(x) PROVE conflictModes = {}
    <2>1. plhExists[PartitionOf[x]]
      BY <1>1 DEF LockPartition
    <2>2. PartitionedHead
      BY <2>1, PartitionAssumption DEF Inv, PartitionedIsUncontended, PartitionedHead
    <2> QED BY <2>2 DEF Inv, PartitionedIsUncontended
  <1>2. ASSUME NEW x \in Locker, LockStartPartition(x) PROVE conflictModes = {}
    BY <1>2 DEF LockStartPartition, CanPartition
  <1>3. ASSUME NEW x \in Locker, LockNewRequest(x) PROVE ~MustWait(l)
    BY <1>0, <1>3 DEF LockNewRequest, newRequestWaits, newRequestGranted
  <1>4. ASSUME NEW x \in Locker, GrantConversion(x) PROVE FALSE
    <2>1. grantedList[iter] \in Locker
      BY <1>0, <1>4 DEF TypeOK, GrantConversion, MoreConversions
    <2> QED BY <1>0, <1>4, <2>1 DEF GrantConversion, Convertible
  <1>5. ASSUME NEW x \in Locker, GrantWaiter(x) PROVE FALSE
    <2>1. conflictList[iter] \in Linked(conflictList)
      BY <1>0, <1>5 DEF GrantWaiter, MoreWaiters, TypeOK, Linked
    <2>2. conflictList[iter] # l
      BY <2>1, NewIsUnlinked DEF Queued
    <2> QED BY <1>0, <1>5, <2>2 DEF GrantWaiter
  <1>6. ASSUME NEW t \in Thread, MigrateRequest(t) PROVE FALSE
    <2>1. back \in Partition
      BY <1>0, <1>6, PopBack DEF TypeOK, MigrateRequest, Migrating, PartitionedHead, back
    <2>2. plhGrantedList[back] \in Seq(Locker) /\ plhGrantedList[back] # <<>>
          /\ NoDuplicates(plhGrantedList[back])
      BY <1>0, <1>6, <2>1 DEF TypeOK, MigrateRequest, Inv, ListsInv
    <2>3. PICK q \in Locker : q = Head(plhGrantedList[back])
      BY <2>2, PopFront
    <2>4. OnPartition(q)
      BY <2>1, <2>2, <2>3, PopFront DEF Inv, ListsInv, OnPartition
    <2>5. q # l
      BY <2>4, NewIsUnlinked
    <2> QED BY <1>0, <1>6, <2>3, <2>5 DEF MigrateRequest, newRequestWaits, newRequestGranted
  <1>7. ASSUME NEW x \in Locker, UnlockConverting(x) \/ Convert(x) PROVE FALSE
    BY <1>0, <1>7 DEF UnlockConverting, Convert
  <1>8. ASSUME NEW x \in Locker, UnlockPartition(x) \/ LockModeChangedDone(x) PROVE FALSE
    BY <1>0, <1>8 DEF UnlockPartition, LockModeChangedDone, ForgetRequest
  <1>9. status' # status
    BY <1>0
  <1>10. CASE \E x \in Locker : LockerNext(x)
    <2>1. PICK x \in Locker : LockerNext(x)
      BY <1>10
    <2> QED BY <1>1, <1>2, <1>3, <1>4, <1>5, <1>7, <1>8, <1>9, <2>1
            DEF LockerNext, LockBegin, ConvertCovered, ConvertBegin, Downgrade, LockMigrate,
                ConvertMigrate, WaitGranted, WaitAbandoned, Unlock, UnlockBegin,
                UnlockGranted, UnlockWaiting, SkipConversion, ConversionsDone, SkipWaiter
  <1>11. CASE \E t \in Thread : MigrateNext(t)
    BY <1>6, <1>9, <1>11 DEF MigrateNext, MigrateLockPartition, MigrateUnlockPartition
  <1>12. CASE CleanupMigrate \/ Cleanup
    BY <1>9, <1>12 DEF CleanupMigrate, Cleanup
  <1> QED BY <1>10, <1>11, <1>12 DEF Next

(* Unless the resource is in compatibleFirst mode, a new request is not     *)
(* granted past a queued request it conflicts with, not even by the intent  *)
(* fast path, which does not look at the queue.                             *)
THEOREM NobodyOvertakes == NoGrantRace => (Spec => NoOvertaking)
  <1> DEFINE A == \A l \in Locker :
                    status[l] = "NEW" /\ status'[l] = "GRANTED" /\ compatibleFirstCount = 0
                        => \A w \in Linked(conflictList) : ~conflicts(mode[l], {mode[w]})
  <1>1. ASSUME Inv, Next PROVE A
    <2> SUFFICES ASSUME NEW l \in Locker, status[l] = "NEW", status'[l] = "GRANTED",
                        compatibleFirstCount = 0, NEW w \in Linked(conflictList),
                        conflicts(mode[l], {mode[w]})
                 PROVE  FALSE
      OBVIOUS
    <2>1. w \in Locker /\ mode[w] \in Mode
      BY <1>1, LinkedLockers DEF Inv, RequestInv, PlaceInv, ModeInv, Queued
    <2>2. mode[w] \in conflictModes
      BY <1>1, <2>1, WaiterCounted DEF Inv, conflictModes
    <2>3. ~MustWait(l)
      BY <1>1, <2>2, NewGrants
    <2>4. conflicts(mode[l], conflictModes)
      BY <2>2 DEF conflicts
    <2> QED BY <2>3, <2>4 DEF MustWait
  <1> HIDE DEF A
  <1>2. Inv /\ [Next]_vars => [A]_vars
    BY <1>1
  <1>3. NoGrantRace => (Spec => [][A]_vars)
    BY <1>2, Invariance, PTL DEF Spec
  <1> QED BY <1>3 DEF NoOvertaking, A

-----------------------------------------------------------------------------
(***************************************************************************)
(* The lock manager implements the abstract lock of ResourceLock, for any  *)
(* number of lockers and partitions: every step of LockManager is, for the *)
(* modes that lockers hold and want, a step of ResourceLock or no step.    *)
(***************************************************************************)

\* What one locker holds and wants, as held and wanted define it.
HeldBy(l) == IF Holds(l) THEN mode[l] ELSE MODE_NONE
WantedBy(l) ==
    CASE recursiveCount[l] > 0 /\ status[l] \in {"NEW", "WAITING"} -> mode[l]
      [] newMode[l] # MODE_NONE -> newMode[l]
      [] status[l] = "CONVERTING" /\ pc[l] = "wait" -> convertMode[l]
      [] OTHER -> MODE_NONE

(* A step that touches one request changes what its locker holds and wants  *)
(* only.                                                                    *)
LEMMA ViewOfOne ==
    ASSUME NEW l \in Locker, OnlyRequestOf(l)
    PROVE  /\ held' = [held EXCEPT ![l] = HeldBy(l)']
           /\ wanted' = [wanted EXCEPT ![l] = WantedBy(l)']
           /\ held[l] = HeldBy(l) /\ wanted[l] = WantedBy(l)
           /\ \A x \in Locker : held[x] = HeldBy(x)
  <1>1. ASSUME NEW x \in Locker, x # l PROVE HeldBy(x)' = HeldBy(x) /\ WantedBy(x)' = WantedBy(x)
    BY <1>1 DEF OnlyRequestOf, HeldBy, WantedBy, Holds, Thread
  <1>2. /\ held = [x \in Locker |-> HeldBy(x)]
        /\ wanted = [x \in Locker |-> WantedBy(x)]
    BY DEF held, wanted, HeldBy, WantedBy
  <1>3. /\ held' = [x \in Locker |-> HeldBy(x)']
        /\ wanted' = [x \in Locker |-> WantedBy(x)']
    BY DEF held, wanted, HeldBy, WantedBy
  <1> QED BY <1>1, <1>2, <1>3

(* Nothing held or wanted changes. *)
LEMMA ViewUnchanged ==
    ASSUME NEW l \in Locker, OnlyRequestOf(l),
           HeldBy(l)' = HeldBy(l), WantedBy(l)' = WantedBy(l)
    PROVE  UNCHANGED <<held, wanted>>
  <1>1. held = [x \in Locker |-> held[x]] /\ wanted = [x \in Locker |-> wanted[x]]
    BY DEF held, wanted
  <1> QED BY <1>1, ViewOfOne

(* A grant without conflicting holders is a grant of the abstract lock. *)
LEMMA ViewGrant ==
    ASSUME NEW l \in Locker, OnlyRequestOf(l), WantedBy(l) \in Mode,
           HeldBy(l)' = WantedBy(l), WantedBy(l)' = MODE_NONE,
           \A x \in Locker \ {l} : Holds(x) => ~conflicts(WantedBy(l), {mode[x]})
    PROVE  Resource!Next
  <1>1. MODE_NONE \notin Mode /\ \A m \in Mode : MODE_NONE \notin LockConflictsTable[m]
    BY DEF MODE_NONE, Mode, LockConflictsTable
  <1>2. /\ held' = [held EXCEPT ![l] = wanted[l]]
        /\ wanted' = [wanted EXCEPT ![l] = MODE_NONE]
        /\ wanted[l] = WantedBy(l) /\ wanted[l] # MODE_NONE
        /\ \A x \in Locker : held[x] = HeldBy(x)
    BY <1>1, ViewOfOne
  <1>3. ASSUME NEW x \in Locker \ {l} PROVE held[x] \notin LockConflictsTable[wanted[l]]
    <2>1. CASE Holds(x)
      BY <1>2, <2>1 DEF HeldBy, conflicts
    <2>2. CASE ~Holds(x)
      BY <1>1, <1>2, <2>2 DEF HeldBy
    <2> QED BY <2>1, <2>2
  <1>4. Resource!Grant(l)
    BY <1>2, <1>3 DEF Resource!Grant
  <1> QED BY <1>4 DEF Resource!Next

(* The other transitions of the abstract lock. *)
LEMMA ViewSteps ==
    ASSUME NEW l \in Locker, OnlyRequestOf(l)
    PROVE  /\ /\ WantedBy(l) = MODE_NONE /\ WantedBy(l)' \in Mode
              /\ HeldBy(l)' = HeldBy(l)
              => Resource!Next
           /\ /\ WantedBy(l) \in Mode /\ WantedBy(l)' = MODE_NONE
              /\ HeldBy(l)' = HeldBy(l)
              => Resource!Next
           /\ /\ HeldBy(l) \in Mode /\ HeldBy(l)' \in Mode
              /\ isModeCovered(HeldBy(l)', HeldBy(l))
              /\ WantedBy(l) = MODE_NONE /\ WantedBy(l)' = MODE_NONE
              => Resource!Next
           /\ /\ HeldBy(l) \in Mode /\ HeldBy(l)' = MODE_NONE
              /\ WantedBy(l) = MODE_NONE /\ WantedBy(l)' = MODE_NONE
              => Resource!Next
  <1>0. MODE_NONE \notin Mode
    BY DEF MODE_NONE, Mode
  <1>1. /\ held' = [held EXCEPT ![l] = HeldBy(l)']
        /\ wanted' = [wanted EXCEPT ![l] = WantedBy(l)']
        /\ held[l] = HeldBy(l) /\ wanted[l] = WantedBy(l)
    BY ViewOfOne
  <1>2. held = [x \in Locker |-> held[x]] /\ wanted = [x \in Locker |-> wanted[x]]
    BY DEF held, wanted
  <1>3. /\ HeldBy(l)' = HeldBy(l) => held' = held
        /\ WantedBy(l)' = WantedBy(l) => wanted' = wanted
    BY <1>1, <1>2
  <1>4. ASSUME WantedBy(l) = MODE_NONE, WantedBy(l)' \in Mode, HeldBy(l)' = HeldBy(l)
        PROVE  Resource!Next
    <2>1. Resource!Ask(l, WantedBy(l)')
      BY <1>1, <1>3, <1>4 DEF Resource!Ask
    <2> QED BY <1>4, <2>1 DEF Resource!Next
  <1>5. ASSUME WantedBy(l) \in Mode, WantedBy(l)' = MODE_NONE, HeldBy(l)' = HeldBy(l)
        PROVE  Resource!Next
    <2>1. Resource!GiveUp(l)
      BY <1>0, <1>1, <1>3, <1>5 DEF Resource!GiveUp
    <2> QED BY <2>1 DEF Resource!Next
  <1>6. ASSUME HeldBy(l) \in Mode, HeldBy(l)' \in Mode, isModeCovered(HeldBy(l)', HeldBy(l)),
               WantedBy(l) = MODE_NONE, WantedBy(l)' = MODE_NONE
        PROVE  Resource!Next
    <2>1. Resource!Weaken(l, HeldBy(l)')
      BY <1>0, <1>1, <1>3, <1>6 DEF Resource!Weaken, isModeCovered
    <2> QED BY <1>6, <2>1 DEF Resource!Next
  <1>7. ASSUME HeldBy(l) \in Mode, HeldBy(l)' = MODE_NONE,
               WantedBy(l) = MODE_NONE, WantedBy(l)' = MODE_NONE
        PROVE  Resource!Next
    <2>1. Resource!Release(l)
      BY <1>0, <1>1, <1>3, <1>7 DEF Resource!Release
    <2> QED BY <2>1 DEF Resource!Next
  <1> QED BY <1>4, <1>5, <1>6, <1>7

-----------------------------------------------------------------------------
(* What the lock manager compares a mode with covers every holder. *)
LEMMA NoConflictingHolder ==
    ASSUME Inv, NEW n \in Mode, ~conflicts(n, grantedModes), PartitionedHead => n \in IntentModes,
           NEW x \in Locker, Holds(x)
    PROVE  ~conflicts(n, {mode[x]})
  <1>1. CASE OnHead(x)
    BY <1>1, HoldersAreLinked, ConflictsWithOne
  <1>2. CASE ~OnHead(x)
    <2>1. mode[x] \in IntentModes /\ n \in IntentModes
      BY <1>2, HoldersAreLinked
    <2> QED BY <2>1, IntentsCompatible
  <1> QED BY <1>1, <1>2

(* So does what it compares an upgrade with. *)
LEMMA NoOtherConflictingHolder ==
    ASSUME Inv, NEW q \in Locker, OnHead(q), NEW n \in Mode, PartitionedHead => n \in IntentModes,
           \/ ~conflicts(n, grantedModesWithout(q, {mode[q]}))
           \/ /\ status[q] = "CONVERTING"
              /\ ~conflicts(n, grantedModesWithout(q, {mode[q], convertMode[q]})),
           NEW x \in Locker \ {q}, Holds(x)
    PROVE  ~conflicts(n, {mode[x]})
  <1>1. CASE OnHead(x)
    BY <1>1, OthersAreCompared, ConflictsWithOne DEF OnHead
  <1>2. CASE ~OnHead(x)
    <2>1. mode[x] \in IntentModes /\ n \in IntentModes
      BY <1>2, HoldersAreLinked
    <2> QED BY <2>1, IntentsCompatible
  <1> QED BY <1>1, <1>2

Simulated == Resource!Next \/ UNCHANGED <<held, wanted>>

(* The facts about one locker that its steps need. *)
LEMMA OneLocker ==
    ASSUME Inv, NEW l \in Locker
    PROVE  /\ StatusInv(l) /\ ModeInv(l) /\ PlaceInv(l)
           /\ recursiveCount[l] \in Nat /\ pc[l] \in Label
           /\ status[l] \in {"NEW", "GRANTED", "WAITING", "CONVERTING"}
           /\ MODE_NONE \notin Mode
  BY DEF Inv, RequestInv, TypeOK, Thread, Mode, MODE_NONE

(* The steps of lock(). *)
LEMMA LockSteps ==
    ASSUME Inv, NEW l \in Locker,
           \/ \E m \in AcquireModes : LockBegin(l, m)
           \/ LockPartition(l) \/ LockStartPartition(l) \/ LockMigrate(l) \/ LockNewRequest(l)
    PROVE  Simulated
  <1>0. /\ StatusInv(l) /\ ModeInv(l) /\ PlaceInv(l) /\ recursiveCount[l] \in Nat
        /\ MODE_NONE \notin Mode /\ TypeOK
    BY OneLocker DEF Inv
  <1>1. ASSUME NEW m \in AcquireModes, LockBegin(l, m) PROVE Simulated
    <2>1. OnlyRequestOf(l)
      BY <1>0, <1>1 DEF LockBegin, goto, clearNotification, TypeOK, OnlyRequestOf
    <2>2. /\ recursiveCount[l] = 0 /\ status[l] = "NEW" /\ newMode[l] = MODE_NONE
          /\ status'[l] = "NEW" /\ recursiveCount'[l] = 1 /\ mode'[l] = m
          /\ newMode'[l] = MODE_NONE
      BY <1>0, <1>1 DEF LockBegin, StatusInv, ModeInv, Upgrading, TypeOK
    <2>3. HeldBy(l) = MODE_NONE /\ HeldBy(l)' = MODE_NONE
      BY <2>2 DEF HeldBy, Holds
    <2>4. WantedBy(l) = MODE_NONE
      BY <2>2 DEF WantedBy
    <2>5. WantedBy(l)' = m
      BY <2>2 DEF WantedBy
    <2> QED BY <2>1, <2>3, <2>4, <2>5, ViewSteps, ModeAssumption DEF Simulated
  <1>2. ASSUME status[l] = "NEW", recursiveCount[l] = 1, newMode[l] = MODE_NONE, mode[l] \in Mode,
               status' = [status EXCEPT ![l] = "GRANTED"],
               UNCHANGED <<recursiveCount, newMode, mode>>,
               OnlyRequestOf(l), ~conflicts(mode[l], grantedModes),
               PartitionedHead => mode[l] \in IntentModes
        PROVE  Simulated
    <2>1. status'[l] = "GRANTED" /\ recursiveCount'[l] = 1 /\ newMode'[l] = MODE_NONE
      BY <1>0, <1>2 DEF TypeOK
    <2>2. /\ WantedBy(l) = mode[l] /\ WantedBy(l)' = MODE_NONE
          /\ HeldBy(l)' = mode[l]
      BY <1>2, <2>1 DEF WantedBy, HeldBy, Holds
    <2>3. \A x \in Locker \ {l} : Holds(x) => ~conflicts(WantedBy(l), {mode[x]})
      BY <1>2, <2>2, NoConflictingHolder
    <2> QED BY <1>2, <2>2, <2>3, ViewGrant DEF Simulated
  <1>3. ASSUME status[l] = "NEW", UNCHANGED <<recursiveCount, newMode, mode>>,
               status'[l] \in {"NEW", "WAITING"}, newMode[l] = MODE_NONE, OnlyRequestOf(l)
        PROVE  Simulated
    <2>1. HeldBy(l)' = HeldBy(l) /\ WantedBy(l)' = WantedBy(l)
      BY <1>3 DEF WantedBy, HeldBy, Holds
    <2> QED BY <1>3, <2>1, ViewUnchanged DEF Simulated
  <1>4. CASE pc[l] \in Asking
    <2>1. status[l] = "NEW" /\ recursiveCount[l] = 1 /\ newMode[l] = MODE_NONE /\ mode[l] \in Mode
      BY <1>0, <1>4 DEF StatusInv, ModeInv, Asking, Upgrading
    <2>2. ASSUME LockPartition(l) PROVE Simulated
      <3>1. OnlyRequestOf(l) /\ UNCHANGED <<recursiveCount, newMode, mode>>
        BY <1>0, <2>2 DEF LockPartition, goto, TypeOK, OnlyRequestOf
      <3>2. CASE plhExists[PartitionOf[l]]
        <4>1. PartitionedHead /\ mode[l] \in IntentModes
          BY <1>0, <2>2, <3>2, PartitionAssumption
             DEF LockPartition, ModeInv, Asking, Inv, PartitionedIsUncontended, PartitionedHead
        <4>2. grantedModes \subseteq IntentModes
          BY <4>1 DEF Inv, PartitionedIsUncontended
        <4>3. ~conflicts(mode[l], grantedModes)
          BY <4>1, <4>2, IntentsCompatible
        <4>4. status' = [status EXCEPT ![l] = "GRANTED"]
          BY <2>2, <3>2 DEF LockPartition
        <4> QED BY <1>2, <2>1, <3>1, <4>1, <4>3, <4>4
      <3>3. CASE ~plhExists[PartitionOf[l]]
        <4>1. UNCHANGED status
          BY <2>2, <3>3 DEF LockPartition
        <4> QED BY <1>3, <2>1, <3>1, <4>1
      <3> QED BY <3>2, <3>3
    <2>3. ASSUME LockStartPartition(l) PROVE Simulated
      <3>1. /\ OnlyRequestOf(l) /\ UNCHANGED <<recursiveCount, newMode, mode>>
            /\ status' = [status EXCEPT ![l] = "GRANTED"]
        BY <1>0, <2>3 DEF LockStartPartition, goto, TypeOK, OnlyRequestOf
      <3>2. mode[l] \in IntentModes /\ grantedModes \subseteq IntentModes
        BY <1>0, <1>4, <2>3 DEF LockStartPartition, CanPartition, ModeInv
      <3>3. ~conflicts(mode[l], grantedModes)
        BY <3>2, IntentsCompatible
      <3> QED BY <1>2, <2>1, <3>1, <3>2, <3>3
    <2>4. ASSUME LockMigrate(l) PROVE Simulated
      <3>1. OnlyRequestOf(l) /\ UNCHANGED <<recursiveCount, newMode, mode, status>>
        BY <1>0, <2>4 DEF LockMigrate, goto, TypeOK, OnlyRequestOf
      <3> QED BY <1>3, <2>1, <3>1
    <2>5. ASSUME LockNewRequest(l) PROVE Simulated
      <3>1. /\ OnlyRequestOf(l) /\ UNCHANGED <<recursiveCount, newMode, mode>>
            /\ ~PartitionedHead
        BY <1>0, <2>5 DEF LockNewRequest, newRequestWaits, newRequestGranted, goto, TypeOK,
           OnlyRequestOf
      <3>2. CASE newRequestWaits(l)
        <4>1. status'[l] = "WAITING"
          BY <1>0, <3>2 DEF newRequestWaits, TypeOK
        <4> QED BY <1>3, <2>1, <3>1, <4>1
      <3>3. CASE newRequestGranted(l)
        <4>1. status' = [status EXCEPT ![l] = "GRANTED"] /\ ~conflicts(mode[l], grantedModes)
          BY <3>3 DEF newRequestGranted, MustWait
        <4> QED BY <1>2, <2>1, <3>1, <4>1
      <3> QED BY <2>5, <3>2, <3>3 DEF LockNewRequest
    <2>6. pc[l] # "idle"
      BY <1>4 DEF Asking
    <2> QED BY <1>1, <2>2, <2>3, <2>4, <2>5
  <1>5. CASE pc[l] \notin Asking
    BY <1>1, <1>5 DEF Asking, LockPartition, LockStartPartition, LockMigrate, LockNewRequest
  <1> QED BY <1>4, <1>5

(* The steps of convert() and of the wait. *)
LEMMA ConvertSteps ==
    ASSUME Inv, NEW l \in Locker,
           \/ \E m \in upgradeModes : ConvertCovered(l, m) \/ ConvertBegin(l, m)
           \/ ConvertMigrate(l) \/ Convert(l)
    PROVE  Simulated
  <1>0. /\ StatusInv(l) /\ ModeInv(l) /\ PlaceInv(l) /\ recursiveCount[l] \in Nat
        /\ MODE_NONE \notin Mode /\ TypeOK
    BY OneLocker DEF Inv
  <1>1. ASSUME NEW m \in upgradeModes, ConvertCovered(l, m) PROVE Simulated
    <2>1. OnlyRequestOf(l)
      BY <1>0, <1>1 DEF ConvertCovered, clearNotification, TypeOK, OnlyRequestOf
    <2>2. /\ pc[l] = "idle" /\ recursiveCount[l] > 0 /\ recursiveCount'[l] > 0
          /\ status[l] = "GRANTED"
          /\ UNCHANGED <<pc, status, mode, convertMode, newMode>>
      BY <1>0, <1>1 DEF ConvertCovered, CanConvert, StatusInv, TypeOK
    <2>3. HeldBy(l)' = HeldBy(l) /\ WantedBy(l)' = WantedBy(l)
      BY <2>2 DEF HeldBy, WantedBy, Holds
    <2> QED BY <2>1, <2>3, ViewUnchanged DEF Simulated
  <1>2. ASSUME NEW m \in upgradeModes, ConvertBegin(l, m) PROVE Simulated
    <2>1. OnlyRequestOf(l) /\ m \in Mode
      BY <1>0, <1>2, ModeAssumption DEF ConvertBegin, clearNotification, goto, TypeOK,
         OnlyRequestOf, upgradeModes
    <2>2. /\ recursiveCount[l] > 0 /\ recursiveCount'[l] > 0
          /\ status[l] = "GRANTED" /\ newMode[l] = MODE_NONE /\ newMode'[l] = m
          /\ UNCHANGED <<status, mode, convertMode>>
      BY <1>0, <1>2 DEF ConvertBegin, CanConvert, StatusInv, ModeInv, Upgrading, TypeOK
    <2>3. HeldBy(l)' = HeldBy(l) /\ WantedBy(l) = MODE_NONE
      BY <2>2 DEF HeldBy, WantedBy, Holds
    <2>4. WantedBy(l)' = m
      BY <1>0, <2>1, <2>2 DEF WantedBy
    <2> QED BY <2>1, <2>3, <2>4, ViewSteps DEF Simulated
  <1>3. ASSUME ConvertMigrate(l) PROVE Simulated
    <2>1. /\ OnlyRequestOf(l)
          /\ UNCHANGED <<recursiveCount, status, mode, convertMode, newMode>>
          /\ status[l] = "GRANTED"
      BY <1>0, <1>3 DEF ConvertMigrate, goto, TypeOK, OnlyRequestOf, StatusInv, Upgrading
    <2>2. HeldBy(l)' = HeldBy(l) /\ WantedBy(l)' = WantedBy(l)
      BY <2>1 DEF HeldBy, WantedBy, Holds
    <2> QED BY <2>1, <2>2, ViewUnchanged DEF Simulated
  <1>4. ASSUME Convert(l) PROVE Simulated
    <2>1. /\ pc[l] \in Upgrading /\ status[l] = "GRANTED" /\ recursiveCount[l] > 1
          /\ newMode[l] \in Mode /\ newMode'[l] = MODE_NONE /\ UNCHANGED recursiveCount
          /\ ~PartitionedHead
      BY <1>0, <1>4 DEF Convert, StatusInv, ModeInv, Upgrading, TypeOK
    <2>2. OnHead(l)
      <3>1. PartitionOf[l] \in Partition
        BY PartitionAssumption
      <3>2. ~OnPartition(l)
        BY <2>1, <3>1, NothingPartitioned DEF Inv, OnPartition
      <3> QED BY <1>0, <2>1, <3>2 DEF PlaceInv, Scanning, Upgrading
    <2>3. OnlyRequestOf(l)
      BY <1>0, <1>4 DEF Convert, goto, TypeOK, OnlyRequestOf
    <2>4. WantedBy(l) = newMode[l] /\ HeldBy(l) = mode[l]
      BY <1>0, <2>1 DEF WantedBy, HeldBy, Holds
    <2>5. CASE conflicts(newMode[l], grantedModesWithout(l, {mode[l]}))
      <3>1. /\ status'[l] = "CONVERTING" /\ convertMode'[l] = newMode[l] /\ pc'[l] = "wait"
            /\ UNCHANGED mode
        BY <1>0, <1>4, <2>5 DEF Convert, goto, TypeOK, Thread
      <3>2. HeldBy(l)' = HeldBy(l)
        BY <2>1, <2>4, <3>1 DEF HeldBy, Holds
      <3>3. WantedBy(l)' = newMode[l]
        <4>1. ~(recursiveCount'[l] > 0 /\ status'[l] \in {"NEW", "WAITING"})
          BY <3>1
        <4>2. ~(newMode'[l] # MODE_NONE) /\ status'[l] = "CONVERTING" /\ pc'[l] = "wait"
          BY <2>1, <3>1
        <4> QED BY <3>1, <4>1, <4>2 DEF WantedBy
      <3> QED BY <2>3, <2>4, <3>2, <3>3, ViewUnchanged DEF Simulated
    <2>6. CASE ~conflicts(newMode[l], grantedModesWithout(l, {mode[l]}))
      <3>1. UNCHANGED status /\ mode'[l] = newMode[l]
        BY <1>0, <1>4, <2>6 DEF Convert, TypeOK
      <3>2. HeldBy(l)' = newMode[l] /\ WantedBy(l)' = MODE_NONE
        <4>1. /\ ~(recursiveCount'[l] > 0 /\ status'[l] \in {"NEW", "WAITING"})
              /\ ~(newMode'[l] # MODE_NONE) /\ ~(status'[l] = "CONVERTING" /\ pc'[l] = "wait")
              /\ Holds(l)'
          BY <1>0, <2>1, <3>1 DEF Holds
        <4> QED BY <3>1, <4>1 DEF WantedBy, HeldBy
      <3>3. \A x \in Locker \ {l} : Holds(x) => ~conflicts(newMode[l], {mode[x]})
        BY <2>1, <2>2, <2>6, NoOtherConflictingHolder
      <3> QED BY <2>1, <2>3, <2>4, <3>2, <3>3, ViewGrant DEF Simulated
    <2> QED BY <2>5, <2>6
  <1> QED BY <1>1, <1>2, <1>3, <1>4

(* The end of the wait, and the first part of unlock(). *)
LEMMA UnlockBeginSteps ==
    ASSUME Inv, NoGrantRace, NEW l \in Locker, WaitGranted(l) \/ WaitAbandoned(l) \/ Unlock(l)
    PROVE  Simulated
  <1>0. /\ StatusInv(l) /\ ModeInv(l) /\ NotifyInv(l) /\ recursiveCount[l] \in Nat
        /\ MODE_NONE \notin Mode /\ TypeOK
        /\ status[l] \in {"NEW", "GRANTED", "WAITING", "CONVERTING"}
    BY OneLocker DEF Inv, RequestInv
  <1>1. CASE WaitGranted(l)
    <2>1. /\ OnlyRequestOf(l) /\ status[l] = "GRANTED"
          /\ UNCHANGED <<recursiveCount, status, mode, convertMode, newMode>>
      BY <1>0, <1>1 DEF WaitGranted, goto, TypeOK, OnlyRequestOf, NotifyInv
    <2>2. HeldBy(l)' = HeldBy(l) /\ WantedBy(l)' = WantedBy(l)
      BY <2>1 DEF HeldBy, WantedBy, Holds
    <2> QED BY <2>1, <2>2, ViewUnchanged DEF Simulated
  <1>2. CASE WaitAbandoned(l) \/ Unlock(l)
    <2>1. /\ OnlyRequestOf(l) /\ newMode[l] = MODE_NONE
          /\ pc[l] \in {"wait", "idle"}
          /\ recursiveCount[l] > 0 /\ recursiveCount'[l] = recursiveCount[l] - 1
          /\ UNCHANGED <<status, mode, convertMode, newMode>>
      BY <1>0, <1>2 DEF WaitAbandoned, Unlock, UnlockBegin, goto, TypeOK, OnlyRequestOf,
                        StatusInv, ModeInv, Upgrading
    <2>2. mode[l] \in Mode /\ pc'[l] # "wait"
      BY <1>0, <1>2, <2>1 DEF ModeInv, WaitAbandoned, Unlock, UnlockBegin, goto, TypeOK,
         Thread
    <2>3. CASE status[l] = "GRANTED"
      <3>1. WantedBy(l) = MODE_NONE /\ WantedBy(l)' = MODE_NONE /\ HeldBy(l) = mode[l]
        BY <2>1, <2>3 DEF WantedBy, HeldBy, Holds
      <3>2. CASE recursiveCount[l] = 1
        <4>1. HeldBy(l)' = MODE_NONE
          BY <2>1, <2>3, <3>2 DEF HeldBy, Holds
        <4> QED BY <2>1, <2>2, <3>1, <4>1, ViewSteps DEF Simulated
      <3>3. CASE recursiveCount[l] > 1
        <4>1. HeldBy(l)' = mode[l]
          BY <1>0, <2>1, <2>3, <3>3 DEF HeldBy, Holds
        <4> QED BY <2>1, <3>1, <4>1, ViewUnchanged DEF Simulated
      <3> QED BY <1>0, <2>1, <3>2, <3>3
    <2>4. CASE status[l] = "WAITING"
      <3>1. recursiveCount[l] = 1 /\ recursiveCount'[l] = 0
        BY <1>0, <2>1, <2>4 DEF StatusInv
      <3>2. HeldBy(l) = MODE_NONE /\ HeldBy(l)' = MODE_NONE /\ WantedBy(l) = mode[l]
        BY <2>1, <2>4, <3>1 DEF WantedBy, HeldBy, Holds
      <3>3. WantedBy(l)' = MODE_NONE
        BY <2>1, <2>4, <3>1 DEF WantedBy
      <3> QED BY <2>1, <2>2, <3>2, <3>3, ViewSteps DEF Simulated
    <2>5. CASE status[l] = "CONVERTING"
      <3>1. /\ pc[l] = "wait" /\ recursiveCount[l] > 1 /\ recursiveCount'[l] > 0
            /\ convertMode[l] \in Mode
        BY <1>0, <2>1, <2>5 DEF StatusInv, ModeInv
      <3>2. HeldBy(l) = mode[l] /\ HeldBy(l)' = mode[l] /\ WantedBy(l) = convertMode[l]
        BY <2>1, <2>5, <3>1 DEF WantedBy, HeldBy, Holds
      <3>3. WantedBy(l)' = MODE_NONE
        BY <2>1, <2>2, <2>5 DEF WantedBy
      <3> QED BY <2>1, <3>1, <3>2, <3>3, ViewSteps DEF Simulated
    <2>6. status[l] # "NEW"
      BY <1>0, <2>1 DEF StatusInv
    <2> QED BY <1>0, <2>3, <2>4, <2>5, <2>6
  <1> QED BY <1>1, <1>2

(* The rest of unlock(), and downgrade(). *)
LEMMA UnlockSteps ==
    ASSUME Inv, NEW l \in Locker,
           \/ UnlockPartition(l) \/ UnlockGranted(l) \/ UnlockWaiting(l) \/ UnlockConverting(l)
           \/ \E m \in AcquireModes : Downgrade(l, m)
    PROVE  Simulated
  <1>0. /\ StatusInv(l) /\ ModeInv(l) /\ PlaceInv(l) /\ recursiveCount[l] \in Nat
        /\ MODE_NONE \notin Mode /\ TypeOK
    BY OneLocker DEF Inv
  <1>1. CASE UnlockPartition(l)
    <2>1. /\ OnlyRequestOf(l) /\ UNCHANGED <<recursiveCount, convertMode, newMode>>
          /\ newMode[l] = MODE_NONE
      BY <1>0, <1>1 DEF UnlockPartition, ForgetRequest, goto, TypeOK, OnlyRequestOf,
         ModeInv, Upgrading
    <2>2. CASE OnPartition(l)
      <3>1. recursiveCount[l] = 0 /\ status[l] = "GRANTED" /\ status'[l] = "NEW"
        BY <1>0, <1>1, <2>2 DEF UnlockPartition, ForgetRequest, StatusInv, PlaceInv,
           OnPartition, TypeOK
      <3>2. HeldBy(l)' = HeldBy(l) /\ WantedBy(l)' = WantedBy(l)
        BY <2>1, <3>1 DEF HeldBy, WantedBy, Holds
      <3> QED BY <2>1, <3>2, ViewUnchanged DEF Simulated
    <2>3. CASE ~OnPartition(l)
      <3>1. /\ UNCHANGED <<status, mode>> /\ pc[l] = "unlockPartition" /\ pc'[l] = "unlockBucket"
            /\ status[l] \in {"GRANTED", "CONVERTING"}
        BY <1>0, <1>1, <2>3 DEF UnlockPartition, StatusInv, OnPartition, TypeOK, goto,
           Thread
      <3>2. HeldBy(l)' = HeldBy(l) /\ WantedBy(l)' = WantedBy(l)
        BY <2>1, <3>1 DEF HeldBy, WantedBy, Holds
      <3> QED BY <2>1, <3>2, ViewUnchanged DEF Simulated
    <2> QED BY <2>2, <2>3
  <1>2. CASE UnlockGranted(l) \/ UnlockWaiting(l)
    <2>1. /\ OnlyRequestOf(l) /\ UNCHANGED <<recursiveCount, status, mode, convertMode, newMode>>
          /\ recursiveCount[l] = 0 /\ status[l] \in {"GRANTED", "WAITING"}
      BY <1>0, <1>2 DEF UnlockGranted, UnlockWaiting, onLockModeChanged, goto, TypeOK,
         OnlyRequestOf, StatusInv
    <2>2. HeldBy(l)' = HeldBy(l) /\ WantedBy(l)' = WantedBy(l)
      BY <2>1 DEF HeldBy, WantedBy, Holds
    <2> QED BY <2>1, <2>2, ViewUnchanged DEF Simulated
  <1>3. CASE UnlockConverting(l)
    <2>1. /\ OnlyRequestOf(l) /\ UNCHANGED <<recursiveCount, mode, newMode>>
          /\ status[l] = "CONVERTING" /\ status'[l] = "GRANTED" /\ pc[l] = "unlockBucket"
          /\ newMode[l] = MODE_NONE
      BY <1>0, <1>3 DEF UnlockConverting, onLockModeChanged, goto, TypeOK, OnlyRequestOf,
         ModeInv, Upgrading
    <2>2. HeldBy(l)' = HeldBy(l)
      BY <2>1 DEF HeldBy, Holds
    <2>3. WantedBy(l) = MODE_NONE /\ WantedBy(l)' = MODE_NONE
      BY <2>1 DEF WantedBy
    <2> QED BY <2>1, <2>2, <2>3, ViewUnchanged DEF Simulated
  <1>4. ASSUME NEW m \in AcquireModes, Downgrade(l, m) PROVE Simulated
    <2>1. /\ OnlyRequestOf(l) /\ UNCHANGED <<recursiveCount, status, newMode>>
          /\ recursiveCount[l] > 0 /\ status[l] = "GRANTED" /\ newMode[l] = MODE_NONE
          /\ mode'[l] = m /\ mode[l] \in Mode /\ m \in Mode /\ isModeCovered(m, mode[l])
      BY <1>0, <1>4, ModeAssumption DEF Downgrade, onLockModeChanged, goto, TypeOK,
         OnlyRequestOf, StatusInv, ModeInv, Upgrading
    <2>2. HeldBy(l) = mode[l] /\ HeldBy(l)' = m
      BY <2>1 DEF HeldBy, Holds
    <2>3. WantedBy(l) = MODE_NONE /\ WantedBy(l)' = MODE_NONE
      BY <2>1 DEF WantedBy
    <2> QED BY <2>1, <2>2, <2>3, ViewSteps DEF Simulated
  <1> QED BY <1>1, <1>2, <1>3, <1>4

(* The steps of _onLockModeChanged. *)
LEMMA ScanSteps ==
    ASSUME Inv, NEW l \in Locker,
           \/ GrantConversion(l) \/ SkipConversion(l) \/ ConversionsDone(l)
           \/ GrantWaiter(l) \/ SkipWaiter(l) \/ LockModeChangedDone(l)
    PROVE  Simulated
  <1>0. /\ StatusInv(l) /\ ModeInv(l) /\ recursiveCount[l] \in Nat
        /\ MODE_NONE \notin Mode /\ TypeOK
    BY OneLocker DEF Inv
  <1>1. CASE SkipConversion(l) \/ SkipWaiter(l) \/ ConversionsDone(l)
    <2>1. /\ OnlyRequestOf(l) /\ UNCHANGED <<recursiveCount, status, mode, convertMode, newMode>>
          /\ pc[l] # "wait" /\ pc'[l] # "wait"
      BY <1>0, <1>1 DEF SkipConversion, SkipWaiter, ConversionsDone, goto, TypeOK,
         OnlyRequestOf, Thread
    <2>2. HeldBy(l)' = HeldBy(l) /\ WantedBy(l)' = WantedBy(l)
      BY <2>1 DEF HeldBy, WantedBy, Holds
    <2> QED BY <2>1, <2>2, ViewUnchanged DEF Simulated
  <1>2. CASE LockModeChangedDone(l)
    <2>1. /\ OnlyRequestOf(l) /\ UNCHANGED <<recursiveCount, convertMode, newMode>>
          /\ newMode[l] = MODE_NONE /\ pc[l] # "wait" /\ pc'[l] # "wait"
          /\ recursiveCount[l] > 0 => UNCHANGED <<status, mode>>
      BY <1>0, <1>2 DEF LockModeChangedDone, ForgetRequest, goto, TypeOK, OnlyRequestOf,
         ModeInv, Upgrading, Thread
    <2>2. CASE recursiveCount[l] > 0
      <3>1. HeldBy(l)' = HeldBy(l) /\ WantedBy(l)' = WantedBy(l)
        BY <2>1, <2>2 DEF HeldBy, WantedBy, Holds
      <3> QED BY <2>1, <3>1, ViewUnchanged DEF Simulated
    <2>3. CASE recursiveCount[l] = 0
      <3>1. HeldBy(l)' = HeldBy(l) /\ WantedBy(l)' = WantedBy(l)
        BY <2>1, <2>3 DEF HeldBy, WantedBy, Holds
      <3> QED BY <2>1, <3>1, ViewUnchanged DEF Simulated
    <2> QED BY <1>0, <2>2, <2>3
  <1>3. CASE GrantConversion(l)
    <2>1. PICK q \in Locker : q = grantedList[iter] /\ q \in Linked(grantedList)
      BY <1>0, <1>3, LinkedLockers DEF GrantConversion, MoreConversions, TypeOK, Linked
    <2>2. /\ status[q] = "CONVERTING" /\ status'[q] = "GRANTED" /\ mode'[q] = convertMode[q]
          /\ UNCHANGED <<recursiveCount, newMode>> /\ OnlyRequestOf(q)
          /\ ~conflicts(convertMode[q], grantedModesWithout(q, {mode[q], convertMode[q]}))
      BY <1>0, <1>3, <2>1 DEF GrantConversion, Convertible, TypeOK, OnlyRequestOf
    <2>3. pc[q] = "wait"
      BY <1>3, <2>2, ConvertingWaits DEF GrantConversion, Scanning
    <2>4. /\ recursiveCount[q] > 0 /\ convertMode[q] \in Mode /\ mode[q] \in Mode
          /\ newMode[q] = MODE_NONE /\ OnHead(q)
      BY <2>1, <2>2, <2>3, OneLocker DEF StatusInv, ModeInv, Upgrading, OnHead
    <2>5. PartitionedHead => convertMode[q] \in IntentModes
      <3>1. convertMode[q] \in grantedModes
        BY <2>1, <2>2, <2>4, Counted DEF Inv, grantedModes
      <3> QED BY <3>1 DEF Inv, PartitionedIsUncontended
    <2>6. \A x \in Locker \ {q} : Holds(x) => ~conflicts(convertMode[q], {mode[x]})
      BY <2>2, <2>4, <2>5, NoOtherConflictingHolder
    <2>7. WantedBy(q) = convertMode[q] /\ WantedBy(q)' = MODE_NONE /\ HeldBy(q)' = convertMode[q]
      BY <2>2, <2>3, <2>4 DEF HeldBy, WantedBy, Holds
    <2> QED BY <2>2, <2>4, <2>6, <2>7, ViewGrant DEF Simulated
  <1>4. CASE GrantWaiter(l)
    <2>1. PICK q \in Locker : q = conflictList[iter] /\ q \in Linked(conflictList)
      BY <1>0, <1>4, LinkedLockers DEF GrantWaiter, MoreWaiters, TypeOK, Linked
    <2>2. /\ status'[q] = "GRANTED" /\ UNCHANGED <<recursiveCount, mode, newMode, convertMode>>
          /\ OnlyRequestOf(q) /\ ~conflicts(mode[q], grantedModes)
      BY <1>0, <1>4, <2>1 DEF GrantWaiter, Blocked, TypeOK, OnlyRequestOf
    <2>3. /\ status[q] = "WAITING" /\ mode[q] \in Mode /\ newMode[q] = MODE_NONE
          /\ recursiveCount[q] \in Nat
      BY <2>1, OneLocker DEF PlaceInv, ModeInv, Queued, Upgrading
    <2>4. CASE recursiveCount[q] > 0
      <3>1. mode[q] \in conflictModes
        BY <2>1, <2>3, WaiterCounted DEF Inv, conflictModes
      <3>2. ~PartitionedHead
        BY <3>1 DEF Inv, PartitionedIsUncontended
      <3>3. \A x \in Locker \ {q} : Holds(x) => ~conflicts(mode[q], {mode[x]})
        BY <2>2, <2>3, <3>2, NoConflictingHolder
      <3>4. WantedBy(q) = mode[q] /\ WantedBy(q)' = MODE_NONE /\ HeldBy(q)' = mode[q]
        BY <2>2, <2>3, <2>4 DEF HeldBy, WantedBy, Holds
      <3> QED BY <2>2, <2>3, <3>3, <3>4, ViewGrant DEF Simulated
    <2>5. CASE recursiveCount[q] = 0
      <3>1. HeldBy(q)' = HeldBy(q) /\ WantedBy(q)' = WantedBy(q)
        BY <2>2, <2>3, <2>5 DEF HeldBy, WantedBy, Holds
      <3> QED BY <2>2, <3>1, ViewUnchanged DEF Simulated
    <2> QED BY <2>3, <2>4, <2>5
  <1> QED BY <1>1, <1>2, <1>3, <1>4

(* The steps of the migration and of the cleaner. *)
LEMMA MigrateSteps ==
    ASSUME Inv, (\E t \in Thread : MigrateNext(t)) \/ CleanupMigrate \/ Cleanup
    PROVE  Simulated
  <1>0. TypeOK
    BY DEF Inv
  <1>1. CASE CleanupMigrate \/ Cleanup
    <2>1. /\ UNCHANGED <<recursiveCount, status, mode, convertMode, newMode>>
          /\ \A x \in Locker : pc'[x] = pc[x]
      BY <1>0, <1>1, LockerAssumption DEF CleanupMigrate, Cleanup, goto, TypeOK, Thread
    <2> QED BY <2>1 DEF Simulated, held, wanted, Holds
  <1>2. ASSUME NEW t \in Thread, MigrateLockPartition(t) \/ MigrateUnlockPartition(t) PROVE Simulated
    <2>1. UNCHANGED <<pc, recursiveCount, status, mode, convertMode, newMode>>
      BY <1>2 DEF MigrateLockPartition, MigrateUnlockPartition
    <2> QED BY <2>1 DEF Simulated, held, wanted, Holds
  <1>3. ASSUME NEW t \in Thread, MigrateRequest(t) PROVE Simulated
    <2>1. back \in Partition
      BY <1>0, <1>3, PopBack DEF TypeOK, MigrateRequest, Migrating, PartitionedHead, back
    <2>2. /\ plhGrantedList[back] \in Seq(Locker) /\ plhGrantedList[back] # <<>>
          /\ NoDuplicates(plhGrantedList[back])
      BY <1>0, <1>3, <2>1 DEF TypeOK, MigrateRequest, Inv, ListsInv
    <2>3. PICK q \in Locker : q = Head(plhGrantedList[back])
      BY <2>2, PopFront
    <2>4. OnPartition(q) /\ status[q] = "GRANTED" /\ mode[q] \in IntentModes
      BY <2>1, <2>2, <2>3, PopFront DEF Inv, ListsInv, OnPartition, RequestInv, PlaceInv
    <2>5. ~MustWait(q)
      <3>1. grantedModes \subseteq IntentModes /\ conflictModes = {}
        BY <1>3 DEF MigrateRequest, Migrating, Inv, PartitionedIsUncontended
      <3>2. ~conflicts(mode[q], grantedModes) /\ ~conflicts(mode[q], conflictModes)
        BY <2>4, <3>1, IntentsCompatible
      <3> QED BY <3>2 DEF MustWait
    <2>6. status' = [status EXCEPT ![q] = "GRANTED"]
      BY <1>3, <2>3, <2>5 DEF MigrateRequest, newRequestWaits, newRequestGranted
    <2>7. status' = status
      BY <1>0, <2>4, <2>6 DEF TypeOK
    <2>8. UNCHANGED <<pc, recursiveCount, status, mode, convertMode, newMode>>
      BY <1>3, <2>7 DEF MigrateRequest
    <2> QED BY <2>8 DEF Simulated, held, wanted, Holds
  <1> QED BY <1>1, <1>2, <1>3 DEF MigrateNext

(* The lock manager implements the abstract lock: in every execution without *)
(* the race of a grant with an abandoned upgrade, a locker gets a mode that  *)
(* it wants only while nobody holds a conflicting one, keeps its old mode    *)
(* while an upgrade waits, and gives up, weakens or releases only its own.   *)
THEOREM Refinement == NoGrantRace => (Spec => ImplementsResourceLock)
  <1> SUFFICES ASSUME NoGrantRace PROVE Spec => ImplementsResourceLock
    OBVIOUS
  <1>1. Init => Resource!Init
    BY DEF Init, Resource!Init, held, wanted, Holds, Thread
  <1>2. ASSUME Inv, Next PROVE Simulated
    <2>1. ASSUME NEW l \in Locker, LockerNext(l) PROVE Simulated
      BY <1>2, <2>1, LockSteps, ConvertSteps, UnlockBeginSteps, UnlockSteps,
         ScanSteps DEF LockerNext
    <2> QED BY <1>2, <2>1, MigrateSteps DEF Next
  <1>3. ASSUME UNCHANGED vars PROVE UNCHANGED <<held, wanted>>
    BY <1>3 DEF vars, held, wanted, Holds
  <1>4. Inv /\ [Next]_vars => [Resource!Next]_<<held, wanted>>
    BY <1>2, <1>3 DEF Simulated
  <1>5. Spec => []Inv
    BY Invariance
  <1> QED BY <1>1, <1>4, <1>5, PTL DEF Spec, ImplementsResourceLock, Resource!Spec,
             Resource!vars
=============================================================================
