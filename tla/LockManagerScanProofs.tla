----------------------- MODULE LockManagerScanProofs -----------------------
(***************************************************************************)
(* _onLockModeChanged leaves nobody waiting for nothing: theorem           *)
(* NobodyStranded about LockManager, on top of the invariant of            *)
(* LockManagerProofs.                                                      *)
(***************************************************************************)
EXTENDS LockManagerProofs

\* An upgrade asks for a strictly stronger mode than the one held.
Stronger(m, n) == m # n /\ isModeCovered(m, n)

UpgradeInv ==
    \A l \in Locker :
        /\ status[l] = "CONVERTING" => Stronger(mode[l], convertMode[l])
        /\ pc[l] \in Upgrading => Stronger(mode[l], newMode[l])

\* Only upgrades that the scan has not reached may be grantable.
ConversionInv ==
    \A i \in 1..Len(grantedList) :
        (\A t \in Locker : pc[t] = "grantConversions" => i < iter)
            => ~Convertible(grantedList[i])

\* The front of the queue waits for a holder, or has jumped the queue.
FrontWaits ==
    conflictList # <<>> =>
        grantedList # <<>> /\ (Blocked(1) \/ compatibleFirst[conflictList[1]])

\* It may be grantable only while a scan that checks the queue has not passed it.
FrontInv ==
    (\A t \in Locker : pc[t] \in Scanning /\ checkConflictQueue
                            => pc[t] = "grantWaiters" /\ iter > 1)
        => FrontWaits

ScanInv == UpgradeInv /\ ConversionInv /\ FrontInv

-----------------------------------------------------------------------------
(* What the counts of the lock head say of the requests on it. *)

\* b is counted in mode m.
CountedIn(b, m) ==
    m = mode[b] \/ (status[b] = "CONVERTING" /\ m = convertMode[b])

\* b stands in the way of a request for mode m.
Obstructs(b, m) ==
    \/ conflicts(m, {mode[b]})
    \/ status[b] = "CONVERTING" /\ conflicts(m, {convertMode[b]})

(* The modes of what is on the lock head. *)
LEMMA HeadModes ==
    ASSUME Inv, NEW b \in Linked(grantedList)
    PROVE  /\ b \in Locker /\ mode[b] \in Mode
           /\ status[b] = "CONVERTING" => convertMode[b] \in Mode
           /\ status[b] \in {"GRANTED", "CONVERTING"}
  <1>1. b \in Locker
    BY LinkedLockers DEF Inv
  <1> QED BY <1>1 DEF Inv, RequestInv, PlaceInv, ModeInv, OnHead

(* The modes of what is queued. *)
LEMMA QueueModes ==
    ASSUME Inv, NEW w \in Linked(conflictList)
    PROVE  w \in Locker /\ mode[w] \in Mode /\ status[w] = "WAITING"
  <1>1. w \in Locker
    BY LinkedLockers DEF Inv
  <1> QED BY <1>1 DEF Inv, RequestInv, PlaceInv, ModeInv, Queued

(* Sets of requests with at most one member. *)
LEMMA FewRequests ==
    ASSUME NEW S \in SUBSET Locker, NEW q
    PROVE  /\ S = {} => Cardinality(S) = 0
           /\ S \subseteq {q} => Cardinality(S) \in {0, 1}
  <1>1. Cardinality({}) = 0 /\ Cardinality({q}) = 1
    BY FS_EmptySet, FS_Singleton
  <1>2. S \subseteq {q} => S = {} \/ S = {q}
    OBVIOUS
  <1> QED BY <1>1, <1>2

(* A mode is granted or asked for by an upgrade exactly when some request   *)
(* on the lock head is counted in it.                                       *)
LEMMA GrantedModesAre ==
    ASSUME Inv, NEW m \in Mode
    PROVE  m \in grantedModes <=> \E b \in Linked(grantedList) : CountedIn(b, m)
  <1>1. /\ grantedCounts[m] = Cardinality(Holders(m)) + Cardinality(Upgraders(m))
        /\ Holders(m) \in SUBSET Locker /\ Upgraders(m) \in SUBSET Locker
    BY CountsSplit, LinkedLockers DEF Inv, GrantedCountsMatch, Holders, Upgraders,
       Converting
  <1>2. Cardinality(Holders(m)) \in Nat /\ Cardinality(Upgraders(m)) \in Nat
    BY <1>1, CountRequests
  <1>3. ASSUME NEW b \in Linked(grantedList), CountedIn(b, m) PROVE m \in grantedModes
    <2>1. b \in Holders(m) \/ b \in Upgraders(m)
      BY <1>3 DEF CountedIn, Holders, Upgraders, Converting
    <2>2. Cardinality(Holders(m)) > 0 \/ Cardinality(Upgraders(m)) > 0
      BY <1>1, <2>1, CountRequests
    <2> QED BY <1>1, <1>2, <2>2 DEF grantedModes
  <1>4. ASSUME \A b \in Linked(grantedList) : ~CountedIn(b, m) PROVE m \notin grantedModes
    <2>1. Holders(m) = {} /\ Upgraders(m) = {}
      BY <1>4 DEF CountedIn, Holders, Upgraders, Converting
    <2>2. Cardinality(Holders(m)) = 0 /\ Cardinality(Upgraders(m)) = 0
      BY <1>1, <2>1, FewRequests
    <2> QED BY <1>1, <2>2 DEF grantedModes
  <1> QED BY <1>3, <1>4

(* What grantedModesWithout leaves are the modes of the other requests. *)
LEMMA OtherModesAre ==
    ASSUME Inv, NEW q \in Linked(grantedList), NEW own, NEW m \in Mode,
           \/ status[q] # "CONVERTING" /\ own = {mode[q]}
           \/ /\ status[q] = "CONVERTING" /\ mode[q] # convertMode[q]
              /\ own = {mode[q], convertMode[q]}
    PROVE  m \in grantedModesWithout(q, own)
             <=> \E b \in Linked(grantedList) \ {q} : CountedIn(b, m)
  <1>1. /\ grantedCounts[m] = Cardinality(Holders(m)) + Cardinality(Upgraders(m))
        /\ Holders(m) \in SUBSET Locker /\ Upgraders(m) \in SUBSET Locker
    BY CountsSplit, LinkedLockers DEF Inv, GrantedCountsMatch, Holders, Upgraders,
       Converting
  <1>2. Cardinality(Holders(m)) \in Nat /\ Cardinality(Upgraders(m)) \in Nat
    BY <1>1, CountRequests
  <1>3. ASSUME NEW b \in Linked(grantedList) \ {q}, CountedIn(b, m)
        PROVE  m \in grantedModesWithout(q, own)
    <2>1. b \in Holders(m) \/ b \in Upgraders(m)
      BY <1>3 DEF CountedIn, Holders, Upgraders, Converting
    <2>2. m \in own => q \in Holders(m) \/ q \in Upgraders(m)
      BY DEF Holders, Upgraders, Converting
    <2>3. m \in own => grantedCounts[m] > 1
      <3>1. b \in Holders(m) /\ q \in Holders(m) => Cardinality(Holders(m)) > 1
        BY <1>1, <1>3, CountRequests
      <3>2. b \in Upgraders(m) /\ q \in Upgraders(m) => Cardinality(Upgraders(m)) > 1
        BY <1>1, <1>3, CountRequests
      <3>3. /\ b \in Holders(m) \/ q \in Holders(m) => Cardinality(Holders(m)) > 0
            /\ b \in Upgraders(m) \/ q \in Upgraders(m) => Cardinality(Upgraders(m)) > 0
        BY <1>1, CountRequests
      <3> QED BY <1>1, <1>2, <2>1, <2>2, <3>1, <3>2, <3>3
    <2>4. grantedCounts[m] > 0
      BY <1>3, GrantedModesAre DEF grantedModes
    <2> QED BY <2>3, <2>4 DEF grantedModesWithout
  <1>4. ASSUME \A b \in Linked(grantedList) \ {q} : ~CountedIn(b, m)
        PROVE  m \notin grantedModesWithout(q, own)
    <2>1. Holders(m) \subseteq {q} /\ Upgraders(m) \subseteq {q}
      BY <1>4 DEF CountedIn, Holders, Upgraders, Converting
    <2>2. Holders(m) = {} \/ Upgraders(m) = {}
      BY <2>1 DEF Holders, Upgraders, Converting
    <2>3. m \notin own => Holders(m) = {} /\ Upgraders(m) = {}
      BY <2>1 DEF Holders, Upgraders, Converting
    <2>4. /\ Holders(m) = {} => Cardinality(Holders(m)) = 0
          /\ Upgraders(m) = {} => Cardinality(Upgraders(m)) = 0
          /\ Cardinality(Holders(m)) \in {0, 1} /\ Cardinality(Upgraders(m)) \in {0, 1}
      BY <1>1, <2>1, FewRequests
    <2>5. IF m \in own THEN grantedCounts[m] <= 1 ELSE grantedCounts[m] = 0
      BY <1>1, <2>2, <2>3, <2>4
    <2> QED BY <1>1, <1>2, <2>5 DEF grantedModesWithout
  <1> QED BY <1>3, <1>4

(* A set of modes conflicts when one of its members does. *)
LEMMA ConflictsIffOne ==
    ASSUME NEW m \in Mode, NEW S \in SUBSET Mode
    PROVE  conflicts(m, S) <=> \E n \in S : conflicts(m, {n})
  BY DEF conflicts

(* A request for m is blocked by what is on the lock head exactly when some *)
(* request there stands in its way.                                         *)
LEMMA BlockedByHead ==
    ASSUME Inv, NEW m \in Mode
    PROVE  conflicts(m, grantedModes) <=> \E b \in Linked(grantedList) : Obstructs(b, m)
  <1>1. grantedModes \in SUBSET Mode
    BY DEF grantedModes
  <1>2. \A n \in Mode : n \in grantedModes <=> \E b \in Linked(grantedList) : CountedIn(b, n)
    BY GrantedModesAre
  <1>3. ASSUME NEW b \in Linked(grantedList), Obstructs(b, m) PROVE conflicts(m, grantedModes)
    <2>1. PICK n \in Mode : CountedIn(b, n) /\ conflicts(m, {n})
      BY <1>3, HeadModes DEF CountedIn, Obstructs
    <2> QED BY <1>1, <1>2, <2>1, ConflictsIffOne
  <1>4. ASSUME conflicts(m, grantedModes) PROVE \E b \in Linked(grantedList) : Obstructs(b, m)
    <2>1. PICK n \in grantedModes : conflicts(m, {n})
      BY <1>1, <1>4, ConflictsIffOne
    <2>2. PICK b \in Linked(grantedList) : CountedIn(b, n)
      BY <1>1, <1>2
    <2> QED BY <2>1, <2>2 DEF CountedIn, Obstructs
  <1> QED BY <1>3, <1>4

(* An upgrade of q to m is blocked exactly when another request stands in   *)
(* its way.                                                                 *)
LEMMA BlockedByOthers ==
    ASSUME Inv, NEW q \in Linked(grantedList), NEW own, NEW m \in Mode,
           \/ status[q] # "CONVERTING" /\ own = {mode[q]}
           \/ /\ status[q] = "CONVERTING" /\ mode[q] # convertMode[q]
              /\ own = {mode[q], convertMode[q]}
    PROVE  conflicts(m, grantedModesWithout(q, own))
             <=> \E b \in Linked(grantedList) \ {q} : Obstructs(b, m)
  <1>1. grantedModesWithout(q, own) \in SUBSET Mode
    BY DEF grantedModesWithout
  <1>2. \A n \in Mode : n \in grantedModesWithout(q, own)
             <=> \E b \in Linked(grantedList) \ {q} : CountedIn(b, n)
    BY OtherModesAre
  <1> QED BY <1>1, <1>2, ConflictsIffOne, HeadModes DEF CountedIn, Obstructs

(* In particular an upgrade that waits. *)
LEMMA ConvertibleIff ==
    ASSUME Inv, UpgradeInv, NEW q \in Linked(grantedList), status[q] = "CONVERTING"
    PROVE  Convertible(q)
             <=> \A b \in Linked(grantedList) \ {q} : ~Obstructs(b, convertMode[q])
  <1>1. q \in Locker /\ convertMode[q] \in Mode
    BY HeadModes
  <1>2. mode[q] # convertMode[q]
    BY <1>1 DEF UpgradeInv, Stronger
  <1> QED BY <1>1, <1>2, BlockedByOthers DEF Convertible

-----------------------------------------------------------------------------
(* Steps outside the scan that leave the lock head alone. *)

USE DEF reqVars, headVars, grantedVars, conflictVars, plhVars, mutexVars, scanVars

(* A scan runs under the bucket mutex. *)
LEMMA ScanOwnsBucket ==
    ASSUME Inv, NEW t \in Locker, pc[t] \in Scanning
    PROVE  bucketMutex = t
  BY DEF Inv, MutexInv, Thread

\* A request stays as it is, but for a late mark as compatibleFirst.
SameRequest(x) ==
    /\ mode'[x] = mode[x] /\ status'[x] = status[x] /\ convertMode'[x] = convertMode[x]
    /\ compatibleFirst[x] => compatibleFirst'[x]

(* Upgrades stay upgrades when a step changes one request. *)
LEMMA UpgradeStep ==
    ASSUME UpgradeInv, NEW l \in Locker, OnlyRequestOf(l),
           status'[l] = "CONVERTING" => Stronger(mode'[l], convertMode'[l]),
           pc'[l] \in Upgrading => Stronger(mode'[l], newMode'[l])
    PROVE  UpgradeInv'
  <1>1. ASSUME NEW x \in Locker, x # l
        PROVE  /\ status'[x] = status[x] /\ mode'[x] = mode[x] /\ pc'[x] = pc[x]
               /\ convertMode'[x] = convertMode[x] /\ newMode'[x] = newMode[x]
    BY <1>1 DEF OnlyRequestOf, Thread
  <1> QED BY <1>1 DEF UpgradeInv

(* A step that leaves the two lists and what is on them alone. *)
LEMMA SameHead ==
    ASSUME Inv, UNCHANGED <<grantedList, grantedCounts, conflictList>>,
           \A x \in Linked(grantedList) \cup Linked(conflictList) : SameRequest(x)
    PROVE  /\ \A i \in 1..Len(grantedList) :
                Convertible(grantedList[i])' <=> Convertible(grantedList[i])
           /\ FrontWaits => FrontWaits'
  <1>1. \A i \in 1..Len(grantedList) : SameRequest(grantedList[i])
    BY DEF Linked
  <1>2. \A i \in 1..Len(grantedList) :
          Convertible(grantedList[i])' <=> Convertible(grantedList[i])
    BY <1>1 DEF SameRequest, Convertible, grantedModesWithout
  <1>3. conflictList # <<>> => conflictList[1] \in Linked(conflictList)
    BY DEF Linked, Inv, TypeOK
  <1>4. FrontWaits => FrontWaits'
    BY <1>3 DEF FrontWaits, SameRequest, Blocked, grantedModes
  <1> QED BY <1>2, <1>4

(* A step that leaves the lists and the scan alone. *)
LEMMA QuietStep ==
    ASSUME Inv, ScanInv, UpgradeInv',
           UNCHANGED <<grantedList, grantedCounts, conflictList, iter, checkConflictQueue>>,
           \A x \in Linked(grantedList) \cup Linked(conflictList) : SameRequest(x),
           \A t \in Locker : /\ pc'[t] = "grantConversions" <=> pc[t] = "grantConversions"
                             /\ pc'[t] = "grantWaiters" <=> pc[t] = "grantWaiters"
    PROVE  ScanInv'
  <1>1. ConversionInv'
    BY SameHead DEF ScanInv, ConversionInv
  <1>2. FrontInv'
    BY SameHead DEF ScanInv, FrontInv, Scanning
  <1> QED BY <1>1, <1>2 DEF ScanInv

(* A step that changes one request only, off the lock head. *)
LEMMA QuietRequest ==
    ASSUME Inv, ScanInv, NEW l \in Locker, OnlyRequestOf(l),
           UNCHANGED <<grantedList, grantedCounts, conflictList, iter, checkConflictQueue>>,
           OnHead(l) \/ Queued(l) => SameRequest(l),
           pc[l] \notin Scanning, pc'[l] \notin Scanning,
           status'[l] = "CONVERTING" => Stronger(mode'[l], convertMode'[l]),
           pc'[l] \in Upgrading => Stronger(mode'[l], newMode'[l])
    PROVE  ScanInv'
  <1>1. UpgradeInv'
    BY UpgradeStep DEF ScanInv
  <1>2. \A x \in Linked(grantedList) \cup Linked(conflictList) : SameRequest(x)
    BY LinkedLockers DEF Inv, OnlyRequestOf, SameRequest, OnHead, Queued
  <1>3. \A t \in Locker : /\ pc'[t] = "grantConversions" <=> pc[t] = "grantConversions"
                          /\ pc'[t] = "grantWaiters" <=> pc[t] = "grantWaiters"
    BY DEF OnlyRequestOf, Thread, Scanning
  <1> QED BY <1>1, <1>2, <1>3, QuietStep

(* _lockBegin, the intent fast path and the entry to the migration. *)
LEMMA LockScan ==
    ASSUME Inv, ScanInv, NEW l \in Locker,
           \/ \E m \in AcquireModes : LockBegin(l, m)
           \/ LockPartition(l) \/ LockStartPartition(l) \/ LockMigrate(l)
    PROVE  ScanInv'
  <1>0. TypeOK /\ StatusInv(l)
    BY DEF Inv, RequestInv
  <1>1. status[l] = "NEW" /\ pc[l] \notin Scanning /\ pc'[l] \notin Scanning \cup Upgrading
    BY <1>0 DEF LockBegin, LockPartition, LockStartPartition, LockMigrate, goto, TypeOK,
       Thread,
                StatusInv, Scanning, Upgrading, Asking
  <1>2. ~OnHead(l) /\ ~Queued(l)
    BY <1>1, NewIsUnlinked
  <1>3. /\ OnlyRequestOf(l) /\ status'[l] # "CONVERTING"
        /\ UNCHANGED <<grantedList, grantedCounts, conflictList, iter, checkConflictQueue>>
    BY <1>0, <1>1 DEF LockBegin, LockPartition, LockStartPartition, LockMigrate, goto,
                      clearNotification, TypeOK, Thread, OnlyRequestOf
  <1> QED BY <1>1, <1>2, <1>3, QuietRequest

(* The first part of convert(), and the end of a wait. *)
LEMMA ConvertScan ==
    ASSUME Inv, ScanInv, NEW l \in Locker,
           \/ \E m \in upgradeModes : ConvertCovered(l, m) \/ ConvertBegin(l, m)
           \/ ConvertMigrate(l) \/ WaitGranted(l) \/ WaitAbandoned(l) \/ Unlock(l)
    PROVE  ScanInv'
  <1>0. /\ TypeOK /\ StatusInv(l)
        /\ status[l] = "CONVERTING" => Stronger(mode[l], convertMode[l])
        /\ pc[l] \in Upgrading => Stronger(mode[l], newMode[l])
    BY DEF Inv, RequestInv, ScanInv, UpgradeInv
  <1>1. /\ OnlyRequestOf(l)
        /\ UNCHANGED <<status, mode, convertMode>>
        /\ UNCHANGED <<grantedList, grantedCounts, conflictList, iter, checkConflictQueue>>
    BY <1>0 DEF ConvertCovered, ConvertBegin, ConvertMigrate, WaitGranted, WaitAbandoned,
                Unlock, UnlockBegin, CanConvert, goto, clearNotification, TypeOK, OnlyRequestOf
  <1>2. pc[l] \notin Scanning /\ pc'[l] \notin Scanning
    BY <1>0 DEF ConvertCovered, ConvertBegin, ConvertMigrate, WaitGranted, WaitAbandoned,
                Unlock, UnlockBegin, CanConvert, goto, TypeOK, Thread, Scanning
  <1>3. pc'[l] \in Upgrading => Stronger(mode[l], newMode'[l])
    BY <1>0 DEF ConvertCovered, ConvertBegin, ConvertMigrate, WaitGranted, WaitAbandoned,
                Unlock, UnlockBegin, CanConvert, goto, TypeOK, Thread, Upgrading, Stronger,
                isModeCovered
  <1>4. compatibleFirst[l] => compatibleFirst'[l]
    BY <1>0, Zenon DEF ConvertCovered, ConvertBegin, ConvertMigrate, WaitGranted,
       WaitAbandoned,
                Unlock, UnlockBegin, TypeOK
  <1> QED BY <1>0, <1>1, <1>2, <1>3, <1>4, QuietRequest DEF SameRequest

(* unlock() of a request that is on a partition, or has left it. *)
LEMMA UnlockPartitionScan ==
    ASSUME Inv, ScanInv, NEW l \in Locker, UnlockPartition(l)
    PROVE  ScanInv'
  <1>0. /\ TypeOK /\ StatusInv(l) /\ PlaceInv(l)
        /\ status[l] = "CONVERTING" => Stronger(mode[l], convertMode[l])
    BY DEF Inv, RequestInv, ScanInv, UpgradeInv
  <1>1. /\ OnlyRequestOf(l)
        /\ UNCHANGED <<grantedList, grantedCounts, conflictList, iter, checkConflictQueue,
                       convertMode>>
        /\ pc[l] \notin Scanning /\ pc'[l] \notin Scanning \cup Upgrading
    BY <1>0 DEF UnlockPartition, ForgetRequest, goto, TypeOK, Thread, OnlyRequestOf,
       Scanning,
                Upgrading
  <1>2. CASE OnPartition(l)
    <2>1. ~OnHead(l) /\ ~Queued(l) /\ status'[l] # "CONVERTING"
      BY <1>0, <1>2 DEF PlaceInv, UnlockPartition, OnPartition, ForgetRequest, TypeOK
    <2> QED BY <1>1, <2>1, QuietRequest
  <1>3. CASE ~OnPartition(l)
    <2>1. UNCHANGED <<status, mode, compatibleFirst>>
      BY <1>3 DEF UnlockPartition, OnPartition
    <2> QED BY <1>0, <1>1, <2>1, QuietRequest DEF SameRequest
  <1> QED BY <1>2, <1>3

(* The rest of the migration, and the cleanup. *)
LEMMA ThreadScan ==
    ASSUME Inv, ScanInv,
           \/ \E t \in Thread : MigrateLockPartition(t) \/ MigrateUnlockPartition(t)
           \/ CleanupMigrate \/ Cleanup \/ UNCHANGED vars
    PROVE  ScanInv'
  <1>0. TypeOK
    BY DEF Inv
  <1>1. /\ UNCHANGED reqVars
        /\ UNCHANGED <<grantedList, grantedCounts, conflictList, iter, checkConflictQueue>>
    <2>1. CASE CleanupMigrate \/ Cleanup
      BY <2>1 DEF CleanupMigrate, Cleanup
    <2>2. CASE UNCHANGED vars
      BY <2>2 DEF vars
    <2>3. CASE \E t \in Thread : MigrateLockPartition(t) \/ MigrateUnlockPartition(t)
      BY <2>3 DEF MigrateLockPartition, MigrateUnlockPartition
    <2> QED BY <2>1, <2>2, <2>3
  <1>2. \A x \in Locker : pc'[x] = pc[x]
    <2>1. pc \in [Thread -> Label] /\ \A x \in Locker : x \in Thread /\ x # Cleaner
      BY <1>0, LockerAssumption DEF TypeOK, Thread
    <2>2. CASE CleanupMigrate \/ Cleanup
      BY <2>1, <2>2 DEF CleanupMigrate, Cleanup, goto
    <2>3. CASE UNCHANGED vars
      BY <2>3 DEF vars
    <2>4. CASE \E t \in Thread : MigrateLockPartition(t) \/ MigrateUnlockPartition(t)
      BY <2>4 DEF MigrateLockPartition, MigrateUnlockPartition
    <2> QED BY <2>2, <2>3, <2>4
  <1>3. UpgradeInv'
    BY <1>1, <1>2 DEF ScanInv, UpgradeInv
  <1>4. \A x \in Locker : SameRequest(x)
    BY <1>1 DEF SameRequest
  <1> QED BY <1>0, <1>1, <1>2, <1>3, <1>4, QuietStep, LinkedLockers

-----------------------------------------------------------------------------
(* Steps that change the lock head. *)

\* What the lemmas above say of a state.
HeadFacts ==
    /\ \A b \in Linked(grantedList) :
        /\ b \in Locker /\ mode[b] \in Mode
        /\ status[b] = "CONVERTING" => convertMode[b] \in Mode
    /\ \A w \in Linked(conflictList) :
        w \in Locker /\ mode[w] \in Mode /\ status[w] = "WAITING"
    /\ \A q \in Linked(grantedList) :
        status[q] = "CONVERTING" =>
           (Convertible(q)
              <=> \A b \in Linked(grantedList) \ {q} : ~Obstructs(b, convertMode[q]))
    /\ \A m \in Mode :
        /\ m \in grantedModes <=> \E b \in Linked(grantedList) : CountedIn(b, m)
        /\ conflicts(m, grantedModes) <=> \E b \in Linked(grantedList) : Obstructs(b, m)

(* They hold before and after a step. *)
LEMMA HeadFactsHold ==
    /\ Inv /\ UpgradeInv => HeadFacts
    /\ (Inv /\ UpgradeInv => HeadFacts)'
  <1>1. Inv /\ UpgradeInv => HeadFacts
    BY ConvertibleIff, GrantedModesAre, BlockedByHead, HeadModes, QueueModes DEF HeadFacts
  <1>2. (Inv /\ UpgradeInv => HeadFacts)'
    BY <1>1, PTL
  <1> QED BY <1>1, <1>2

\* b stands in the way of all that it stood in the way of.
StandsFirm(b) == \A m \in Mode : Obstructs(b, m) => Obstructs(b, m)'

(* A request that stays the same stands firm, and so does one that turns    *)
(* into a stronger one.                                                     *)
LEMMA StandsFirmIf ==
    ASSUME NEW b, mode[b] \in Mode, mode'[b] \in Mode,
           status[b] = "CONVERTING" => convertMode[b] \in Mode,
           \/ SameRequest(b)
           \/ /\ isModeCovered(mode[b], mode'[b])
              /\ status[b] = "CONVERTING" => mode'[b] = convertMode[b]
           \/ status[b] # "CONVERTING" /\ mode'[b] = mode[b]
    PROVE  StandsFirm(b)
  <1> SUFFICES ASSUME NEW m \in Mode, Obstructs(b, m) PROVE Obstructs(b, m)'
    BY DEF StandsFirm
  <1>1. CASE SameRequest(b)
    BY <1>1 DEF SameRequest, Obstructs
  <1>2. CASE /\ isModeCovered(mode[b], mode'[b])
             /\ status[b] = "CONVERTING" => mode'[b] = convertMode[b]
    <2>1. conflicts(m, {mode[b]}) => conflicts(m, {mode'[b]})
      BY <1>2, ConflictsSymmetric, CoveredConflicts
    <2> QED BY <1>2, <2>1 DEF Obstructs
  <1>3. CASE status[b] # "CONVERTING" /\ mode'[b] = mode[b]
    BY <1>3 DEF Obstructs
  <1> QED BY <1>1, <1>2, <1>3

(* While requests on the lock head stand firm, a blocked upgrade stays      *)
(* blocked.                                                                 *)
LEMMA StaysBlocked ==
    ASSUME Inv, Inv', UpgradeInv, UpgradeInv',
           \A b \in Linked(grantedList) : b \in Linked(grantedList)' /\ StandsFirm(b),
           NEW q \in Linked(grantedList), ~Convertible(q),
           status'[q] = "CONVERTING" =>
                status[q] = "CONVERTING" /\ convertMode'[q] = convertMode[q]
    PROVE  ~Convertible(q)'
  <1>1. CASE status'[q] # "CONVERTING"
    BY <1>1 DEF Convertible
  <1>2. CASE status'[q] = "CONVERTING"
    <2>0. HeadFacts /\ HeadFacts'
      BY HeadFactsHold
    <2>11. status[q] = "CONVERTING" /\ convertMode'[q] = convertMode[q]
      BY <1>2
    <2>12. convertMode[q] \in Mode
      BY <2>11, HeadModes
    <2>1. PICK m \in Mode : m = convertMode[q] /\ m = convertMode'[q]
      BY <2>11, <2>12
    <2>2. PICK b \in Linked(grantedList) \ {q} : Obstructs(b, m)
      BY <2>11, <2>0, <2>1 DEF HeadFacts
    <2>3. b \in Linked(grantedList)' /\ Obstructs(b, m)'
      BY <2>2 DEF StandsFirm
    <2>4. Obstructs(b, convertMode[q])'
      BY <2>1, <2>3 DEF Obstructs
    <2> QED BY <1>2, <2>0, <2>2, <2>3, <2>4 DEF HeadFacts
  <1> QED BY <1>1, <1>2

(* A step that adds to the granted queue or strengthens what is on it. *)
LEMMA ConversionStep ==
    ASSUME Inv, Inv', UpgradeInv, UpgradeInv', ConversionInv,
           \A i \in 1..Len(grantedList) :
                i \in 1..Len(grantedList') /\ grantedList'[i] = grantedList[i],
           \A i \in 1..Len(grantedList') :
                i \in 1..Len(grantedList) \/ status'[grantedList'[i]] # "CONVERTING",
           \A b \in Linked(grantedList) :
                /\ StandsFirm(b)
                /\ status'[b] = "CONVERTING" =>
                     \/ status[b] = "CONVERTING" /\ convertMode'[b] = convertMode[b]
                     \/ ~Convertible(b)',
           \A i \in 1..Len(grantedList) :
                \/ (\A t \in Locker : pc'[t] = "grantConversions" => i < iter')
                        => \A t \in Locker : pc[t] = "grantConversions" => i < iter
                \/ status'[grantedList[i]] # "CONVERTING"
                \/ ~Convertible(grantedList[i])
    PROVE  ConversionInv'
  <1> SUFFICES ASSUME NEW i \in 1..Len(grantedList'),
                      \A t \in Locker : pc'[t] = "grantConversions" => i < iter'
               PROVE  ~Convertible(grantedList[i])'
    BY DEF ConversionInv
  <1>1. CASE status'[grantedList'[i]] # "CONVERTING"
    BY <1>1 DEF Convertible
  <1>2. CASE status'[grantedList'[i]] = "CONVERTING"
    <2>1. i \in 1..Len(grantedList) /\ grantedList'[i] = grantedList[i]
      BY <1>2
    <2>2. PICK q \in Linked(grantedList) : q = grantedList[i] /\ q = grantedList'[i]
      BY <2>1 DEF Linked
    <2>3. ~Convertible(q)
      BY <1>2, <2>1, <2>2 DEF ConversionInv
    <2>4. \A b \in Linked(grantedList) : b \in Linked(grantedList)'
      BY DEF Linked
    <2>5. ~Convertible(q)'
      BY <1>2, <2>2, <2>3, <2>4, StaysBlocked
    <2> QED BY <2>2, <2>5 DEF Convertible
  <1> QED BY <1>1, <1>2

(* The front of the queue goes on waiting. *)
LEMMA FrontStays ==
    ASSUME Inv, Inv', UpgradeInv, UpgradeInv',
           \A b \in Linked(grantedList) : b \in Linked(grantedList)' /\ StandsFirm(b),
           FrontWaits, conflictList # <<>>, conflictList' # <<>>,
           conflictList'[1] = conflictList[1], UNCHANGED compatibleFirst,
           mode'[conflictList[1]] = mode[conflictList[1]]
    PROVE  FrontWaits'
  <1>0. HeadFacts /\ HeadFacts'
    BY HeadFactsHold
  <1>1. PICK w \in Linked(conflictList) :
           w = conflictList[1] /\ w = conflictList'[1] /\ mode'[w] = mode[w]
    BY DEF Linked, Inv, TypeOK
  <1>2. PICK m \in Mode : m = mode[w]
    BY <1>0, <1>1 DEF HeadFacts
  <1>3. grantedList' # <<>>
    <2>1. grantedList # <<>> /\ grantedList \in Seq(Locker)
      BY DEF FrontWaits, Inv, TypeOK
    <2>2. PICK b : b \in Linked(grantedList)
      BY <2>1 DEF Linked
    <2>3. Linked(<<>>) = {}
      BY DEF Linked
    <2> QED BY <2>2, <2>3
  <1>4. CASE Blocked(1)
    <2>1. PICK b \in Linked(grantedList) : Obstructs(b, m)
      BY <1>0, <1>1, <1>2, <1>4 DEF Blocked, HeadFacts
    <2>2. b \in Linked(grantedList)' /\ Obstructs(b, m)'
      BY <2>1 DEF StandsFirm
    <2>3. conflicts(m, grantedModes)'
      BY <1>0, <2>2 DEF HeadFacts
    <2>4. Blocked(1)'
      BY <1>1, <1>2, <2>3 DEF Blocked, conflicts
    <2> QED BY <1>3, <2>4 DEF FrontWaits
  <1>5. CASE compatibleFirst[w]
    BY <1>1, <1>3, <1>5 DEF FrontWaits
  <1> QED BY <1>1, <1>4, <1>5 DEF FrontWaits

(* Nobody scans while the bucket mutex is free or a migration has it. *)
LEMMA NoScan ==
    ASSUME Inv,
           \/ bucketMutex = Nobody
           \/ \E t \in Thread : pc[t] \in {"lockMigrate", "convertMigrate", "cleanupMigrate"}
    PROVE  /\ \A x \in Locker : pc[x] \notin Scanning
           /\ FrontInv <=> FrontWaits
  <1>1. ASSUME NEW x \in Locker, pc[x] \in Scanning PROVE FALSE
    <2>1. bucketMutex = x /\ x # Nobody
      BY <1>1, ScanOwnsBucket, LockerAssumption
    <2>2. PICK t \in Thread : pc[t] \in {"lockMigrate", "convertMigrate", "cleanupMigrate"}
      BY <2>1
    <2>3. t = x
      BY <2>1, <2>2 DEF Inv, MutexInv
    <2> QED BY <1>1, <2>2, <2>3 DEF Scanning
  <1> QED BY <1>1 DEF FrontInv

(* An empty queue asks for no mode. *)
LEMMA EmptyQueue ==
    ASSUME Inv, conflictList = <<>> PROVE conflictModes = {}
  <1>1. Linked(conflictList) = {}
    BY DEF Linked
  <1>2. ASSUME NEW m \in Mode PROVE conflictCounts[m] = 0
    <2>1. Waiters(m) = {}
      BY <1>1 DEF Waiters
    <2>2. Cardinality(Waiters(m)) = 0
      BY <2>1, FS_EmptySet
    <2> QED BY <2>2, CountsSplit DEF Inv, ConflictCountsMatch
  <1> QED BY <1>2 DEF conflictModes

(* What stands firm when one request is granted or queued. *)
LEMMA OthersStandFirm ==
    ASSUME Inv, NEW l \in Locker, l \notin Linked(grantedList),
           UNCHANGED <<mode, convertMode, compatibleFirst>>,
           \A x \in Locker \ {l} : status'[x] = status[x]
    PROVE  \A b \in Linked(grantedList) : StandsFirm(b) /\ SameRequest(b)
  <1> SUFFICES ASSUME NEW b \in Linked(grantedList) PROVE StandsFirm(b) /\ SameRequest(b)
    OBVIOUS
  <1>1. /\ b \in Locker /\ b # l /\ mode[b] \in Mode
        /\ status[b] = "CONVERTING" => convertMode[b] \in Mode
    BY HeadModes
  <1>2. SameRequest(b)
    BY <1>1 DEF SameRequest
  <1> QED BY <1>1, <1>2, StandsFirmIf

(* LockHead::newRequest grants. *)
LEMMA NewGrantScan ==
    ASSUME Inv, Inv', ScanInv, UpgradeInv', NEW l \in Locker, l \notin Linked(grantedList),
           newRequestGranted(l), UNCHANGED <<mode, convertMode, compatibleFirst>>,
           \A t \in Locker : pc[t] \notin Scanning /\ pc'[t] \notin Scanning
    PROVE  ScanInv'
  <1>0. /\ TypeOK /\ FrontWaits /\ UpgradeInv /\ ConversionInv
        /\ grantedList' = Append(grantedList, l) /\ conflictList' = conflictList
        /\ status' = [status EXCEPT ![l] = "GRANTED"]
    BY DEF Inv, ScanInv, FrontInv, newRequestGranted, push_back
  <1>1. \A b \in Linked(grantedList) : StandsFirm(b) /\ SameRequest(b)
    BY <1>0, OthersStandFirm DEF TypeOK
  <1>2. /\ \A i \in 1..Len(grantedList) :
             i \in 1..Len(grantedList') /\ grantedList'[i] = grantedList[i]
        /\ \A i \in 1..Len(grantedList') :
             i \in 1..Len(grantedList) \/ status'[grantedList'[i]] # "CONVERTING"
    <2>1. /\ Len(grantedList') = Len(grantedList) + 1 /\ Len(grantedList) \in Nat
          /\ \A i \in 1..Len(grantedList) : grantedList'[i] = grantedList[i]
          /\ grantedList'[Len(grantedList) + 1] = l
      BY <1>0, AppendProperties, LenProperties DEF TypeOK
    <2>2. status'[l] = "GRANTED"
      BY <1>0 DEF TypeOK
    <2> QED BY <2>1, <2>2
  <1>3. ConversionInv'
    BY <1>0, <1>1, <1>2, ConversionStep DEF SameRequest, Scanning
  <1>4. FrontWaits'
    <2>1. \A b \in Linked(grantedList) : b \in Linked(grantedList)'
      BY <1>2 DEF Linked
    <2>2. CASE conflictList = <<>>
      BY <1>0, <2>2 DEF FrontWaits
    <2>3. CASE conflictList # <<>>
      BY <1>0, <1>1, <2>1, <2>3, FrontStays
    <2> QED BY <2>2, <2>3
  <1> QED BY <1>3, <1>4 DEF ScanInv, FrontInv

(* LockHead::newRequest queues. *)
LEMMA NewWaitScan ==
    ASSUME Inv, Inv', ScanInv, UpgradeInv', NEW l \in Locker, l \notin Linked(grantedList),
           mode[l] \in Mode, newRequestWaits(l), UNCHANGED <<mode, convertMode, compatibleFirst>>,
           \A t \in Locker : pc[t] \notin Scanning /\ pc'[t] \notin Scanning
    PROVE  ScanInv'
  <1>0. /\ TypeOK /\ FrontWaits /\ UpgradeInv /\ ConversionInv
        /\ UNCHANGED <<grantedList, grantedCounts>>
        /\ status' = [status EXCEPT ![l] = "WAITING"]
        /\ conflictList' = IF compatibleFirst[l] THEN push_front(conflictList, l)
                                                 ELSE push_back(conflictList, l)
        /\ MustWait(l)
    BY DEF Inv, ScanInv, FrontInv, newRequestWaits
  <1>1. \A b \in Linked(grantedList) : StandsFirm(b) /\ SameRequest(b)
    BY <1>0, OthersStandFirm DEF TypeOK
  <1>2. ConversionInv'
    BY <1>0, <1>1, ConversionStep DEF SameRequest, Scanning
  <1>3. conflictList = <<>> => conflicts(mode[l], grantedModes)
    BY <1>0, EmptyQueue DEF MustWait, conflicts
  <1>4. grantedList # <<>>
    <2>1. conflicts(mode[l], grantedModes) => \E b : b \in Linked(grantedList)
      BY BlockedByHead
    <2>2. Linked(<<>>) = {}
      BY DEF Linked
    <2> QED BY <1>0, <1>3, <2>1, <2>2 DEF FrontWaits
  <1>5. FrontWaits'
    <2>1. CASE compatibleFirst[l]
      <3>1. conflictList'[1] = l
        BY <1>0, <2>1 DEF push_front, TypeOK
      <3> QED BY <1>0, <1>4, <2>1, <3>1 DEF FrontWaits
    <2>2. CASE ~compatibleFirst[l] /\ conflictList = <<>>
      <3>1. conflictList'[1] = l
        BY <1>0, <2>2 DEF push_back, TypeOK
      <3>2. Blocked(1)'
        BY <1>0, <1>3, <2>2, <3>1 DEF Blocked, conflicts, grantedModes
      <3> QED BY <1>0, <1>4, <3>2 DEF FrontWaits
    <2>3. CASE ~compatibleFirst[l] /\ conflictList # <<>>
      <3>1. conflictList'[1] = conflictList[1] /\ conflictList' # <<>>
        <4>1. conflictList \in Seq(Locker) /\ Len(conflictList) \in Nat \ {0}
          BY <1>0, <2>3 DEF TypeOK
        <4>2. conflictList' = Append(conflictList, l)
          BY <1>0, <2>3 DEF push_back
        <4> QED BY <4>1, <4>2, AppendProperties
      <3> QED BY <1>0, <1>1, <2>3, <3>1, FrontStays
    <2> QED BY <2>1, <2>2, <2>3
  <1> QED BY <1>2, <1>5 DEF ScanInv, FrontInv

(* The last part of lock(). *)
LEMMA LockNewRequestScan ==
    ASSUME Inv, Inv', ScanInv, NEW l \in Locker, LockNewRequest(l)
    PROVE  ScanInv'
  <1>0. TypeOK /\ StatusInv(l) /\ ModeInv(l)
    BY DEF Inv, RequestInv
  <1>1. pc[l] \in Asking /\ status[l] = "NEW" /\ mode[l] \in Mode
    BY <1>0 DEF LockNewRequest, StatusInv, ModeInv, Asking
  <1>2. ~OnHead(l)
    BY <1>1, NewIsUnlinked
  <1>3. /\ OnlyRequestOf(l) /\ UNCHANGED <<mode, convertMode, compatibleFirst>>
        /\ pc'[l] \in {"wait", "idle"} /\ status'[l] \in {"WAITING", "GRANTED"}
        /\ newRequestWaits(l) \/ newRequestGranted(l)
    BY <1>0 DEF LockNewRequest, newRequestWaits, newRequestGranted, goto, TypeOK, Thread,
                OnlyRequestOf
  <1>4. UpgradeInv'
    BY <1>3, UpgradeStep DEF ScanInv, Upgrading
  <1>5. \A t \in Locker : pc[t] \notin Scanning
    BY NoScan DEF LockNewRequest, Thread
  <1>6. \A t \in Locker : pc'[t] \notin Scanning
    BY <1>3, <1>5 DEF OnlyRequestOf, Thread, Scanning
  <1> QED BY <1>1, <1>2, <1>3, <1>4, <1>5, <1>6, NewGrantScan, NewWaitScan DEF OnHead

(* The migration of a request from its partition. *)
LEMMA MigrateRequestScan ==
    ASSUME Inv, Inv', ScanInv, NEW t \in Thread, MigrateRequest(t)
    PROVE  ScanInv'
  <1>0. TypeOK
    BY DEF Inv
  <1>1. PICK q \in Locker : q = Head(plhGrantedList[back]) /\ OnPartition(q)
    <2>1. back \in Partition
      BY <1>0, PopBack DEF TypeOK, MigrateRequest, Migrating, PartitionedHead, back
    <2>2. plhGrantedList[back] \in Seq(Locker) /\ plhGrantedList[back] # <<>>
          /\ NoDuplicates(plhGrantedList[back])
      BY <1>0, <2>1 DEF TypeOK, MigrateRequest, Inv, ListsInv
    <2> QED BY <2>1, <2>2, PopFront DEF Inv, ListsInv, OnPartition
  <1>2. ~OnHead(q) /\ mode[q] \in Mode
    BY <1>1 DEF Inv, RequestInv, PlaceInv, IntentModes, Mode
  <1>3. /\ newRequestWaits(q) \/ newRequestGranted(q)
        /\ UNCHANGED <<pc, mode, convertMode, compatibleFirst, newMode>>
        /\ \A x \in Locker \ {q} : status'[x] = status[x]
        /\ status'[q] \in {"WAITING", "GRANTED"}
    BY <1>0, <1>1 DEF MigrateRequest, newRequestWaits, newRequestGranted, TypeOK
  <1>4. UpgradeInv'
    BY <1>3 DEF ScanInv, UpgradeInv
  <1>5. \A x \in Locker : pc[x] \notin Scanning
    BY NoScan DEF MigrateRequest, Migrating
  <1> QED BY <1>2, <1>3, <1>4, <1>5, NewGrantScan, NewWaitScan DEF OnHead

(* The rest of convert(): the upgrade is granted or waits. *)
LEMMA ConvertEndScan ==
    ASSUME Inv, Inv', ScanInv, NEW l \in Locker, Convert(l)
    PROVE  ScanInv'
  <1>0. /\ TypeOK /\ StatusInv(l) /\ ModeInv(l) /\ PlaceInv(l) /\ UpgradeInv /\ ConversionInv
        /\ HeadFacts
    BY HeadFactsHold DEF Inv, RequestInv, ScanInv
  <1>1. /\ pc[l] \in Upgrading /\ status[l] = "GRANTED" /\ newMode[l] \in Mode
        /\ Stronger(mode[l], newMode[l]) /\ ~PartitionedHead
    BY <1>0 DEF Convert, StatusInv, ModeInv, Upgrading, UpgradeInv
  <1>2. l \in Linked(grantedList) /\ mode[l] \in Mode
    <2>1. ~OnPartition(l)
      BY <1>0, <1>1, NothingPartitioned, PartitionAssumption DEF Inv, OnPartition
    <2>2. OnHead(l)
      BY <1>0, <1>1, <2>1 DEF PlaceInv, Scanning, Upgrading
    <2> QED BY <2>2, HeadModes DEF OnHead
  <1>3. /\ OnlyRequestOf(l) /\ pc'[l] \in {"wait", "idle"} /\ newMode'[l] = MODE_NONE
        /\ UNCHANGED <<grantedList, conflictList, compatibleFirst, iter, checkConflictQueue>>
    BY <1>0 DEF Convert, goto, TypeOK, Thread, OnlyRequestOf
  <1>4. \A t \in Locker : pc[t] \notin Scanning /\ pc'[t] \notin Scanning
    <2>1. \A t \in Locker : pc[t] \notin Scanning
      BY NoScan DEF Convert, Thread
    <2> QED BY <1>3, <2>1 DEF OnlyRequestOf, Thread, Scanning
  <1>5. \/ status'[l] = "GRANTED" /\ mode'[l] = newMode[l]
        \/ /\ status'[l] = "CONVERTING" /\ mode'[l] = mode[l] /\ convertMode'[l] = newMode[l]
           /\ conflicts(newMode[l], grantedModesWithout(l, {mode[l]}))
    BY <1>0, <1>1 DEF Convert, TypeOK
  <1>6. UpgradeInv'
    BY <1>0, <1>1, <1>3, <1>5, UpgradeStep DEF Upgrading
  <1>7. \A b \in Linked(grantedList) \ {l} : SameRequest(b)
    BY <1>0, <1>3 DEF SameRequest, OnlyRequestOf, HeadFacts
  <1>8. \A b \in Linked(grantedList) : StandsFirm(b)
    <2>1. StandsFirm(l)
      BY <1>1, <1>2, <1>5, StandsFirmIf DEF Stronger
    <2>2. ASSUME NEW b \in Linked(grantedList), b # l PROVE StandsFirm(b)
      BY <1>7, <2>2, HeadModes, StandsFirmIf DEF SameRequest
    <2> QED BY <2>1, <2>2
  <1>9. status'[l] = "CONVERTING" => ~Convertible(l)'
    <2> SUFFICES ASSUME status'[l] = "CONVERTING" PROVE ~Convertible(l)'
      OBVIOUS
    <2>1. PICK m \in Mode : m = newMode[l] /\ m = convertMode'[l]
      BY <1>1, <1>5
    <2>2. PICK b \in Linked(grantedList) \ {l} : Obstructs(b, m)
      BY <1>1, <1>2, <1>5, <2>1, BlockedByOthers
    <2>3. Obstructs(b, convertMode[l])'
      BY <1>8, <2>1, <2>2 DEF StandsFirm, Obstructs
    <2>4. HeadFacts'
      BY <1>6, HeadFactsHold
    <2> QED BY <1>2, <1>3, <2>2, <2>3, <2>4 DEF HeadFacts
  <1>10. ConversionInv'
    <2>1. \A b \in Linked(grantedList) : status'[b] = "CONVERTING" =>
             \/ status[b] = "CONVERTING" /\ convertMode'[b] = convertMode[b]
             \/ ~Convertible(b)'
      BY <1>7, <1>9 DEF SameRequest
    <2> QED BY <1>0, <1>3, <1>4, <1>6, <1>8, <2>1, ConversionStep DEF Scanning
  <1>11. FrontWaits'
    <2>1. CASE conflictList = <<>>
      BY <1>3, <2>1 DEF FrontWaits
    <2>2. CASE conflictList # <<>>
      <3>1. conflictList[1] \in Linked(conflictList)
        BY <1>0, <2>2 DEF TypeOK, Linked
      <3>2. conflictList[1] # l /\ conflictList[1] \in Locker
        BY <1>0, <1>1, <3>1 DEF HeadFacts
      <3>3. mode'[conflictList[1]] = mode[conflictList[1]]
        BY <1>3, <3>2 DEF OnlyRequestOf
      <3>4. FrontWaits
        BY <1>4 DEF ScanInv, FrontInv
      <3> QED BY <1>0, <1>3, <1>6, <1>8, <2>2, <3>3, <3>4, FrontStays
    <2> QED BY <2>1, <2>2
  <1> QED BY <1>6, <1>10, <1>11 DEF ScanInv, FrontInv

-----------------------------------------------------------------------------
(* The start of a scan. *)

(* unlock() takes a granted request off the list.  Without the last request *)
(* in its mode the queue is not looked at, and need not be.                 *)
LEMMA UnlockGrantedScan ==
    ASSUME Inv, Inv', ScanInv, NEW l \in Locker, UnlockGranted(l)
    PROVE  ScanInv'
  <1>0. TypeOK /\ StatusInv(l) /\ ModeInv(l) /\ PlaceInv(l)
    BY DEF Inv, RequestInv
  <1>1. /\ OnlyRequestOf(l) /\ UNCHANGED reqVars /\ conflictList' = conflictList
        /\ pc[l] = "unlockBucket" /\ status[l] = "GRANTED" /\ bucketMutex = Nobody
        /\ pc'[l] = "grantConversions" /\ iter' = 1
        /\ checkConflictQueue' = (grantedCounts[mode[l]] = 1)
        /\ grantedCounts' = [grantedCounts EXCEPT ![mode[l]] = @ - 1]
    BY <1>0 DEF UnlockGranted, onLockModeChanged, goto, TypeOK, Thread, OnlyRequestOf, Dec
  <1>2. UpgradeInv'
    BY <1>1, UpgradeStep DEF ScanInv, UpgradeInv, Upgrading
  <1>3. ConversionInv'
    <2>1. \A i \in 1..Len(grantedList') : ~(i < iter')
      BY <1>1 DEF Inv, TypeOK
    <2> QED BY <1>1, <2>1 DEF ConversionInv
  <1>4. CASE grantedCounts[mode[l]] = 1
    BY <1>1, <1>2, <1>3, <1>4 DEF ScanInv, FrontInv, Scanning
  <1>5. CASE grantedCounts[mode[l]] # 1
    <2>1. FrontWaits
      BY <1>1, NoScan DEF ScanInv
    <2>2. mode[l] \in Mode /\ l \in Linked(grantedList)
      <3>1. bucketMutex' = l /\ ~OnPartition(l)
        BY <1>0, <1>1 DEF UnlockGranted, onLockModeChanged, PlaceInv, Upgrading
      <3> QED BY <1>0, <1>1, <3>1 DEF PlaceInv, ModeInv, OnHead, Scanning
    <2>3. grantedCounts[mode[l]] > 1
      <3>1. CountsMatchLists
        BY DEF Inv
      <3>2. grantedCounts[mode[l]] > 0
        BY <1>0, <2>2, <3>1, Counted
      <3>3. grantedCounts[mode[l]] \in Nat
        BY <1>0, <2>2 DEF TypeOK, Count
      <3> QED BY <1>5, <3>2, <3>3
    <2>4. grantedModes' = grantedModes /\ mode[l] \in grantedModes'
      BY <1>0, <1>1, <2>2, <2>3 DEF grantedModes, TypeOK, Count
    <2>5. grantedList' # <<>>
      <3>1. PICK m \in Mode : m = mode[l] /\ m \in grantedModes'
        BY <2>2, <2>4
      <3>2. HeadFacts'
        BY <1>2, HeadFactsHold
      <3>3. \E b : b \in Linked(grantedList)'
        BY <3>1, <3>2 DEF HeadFacts
      <3>4. Linked(<<>>) = {}
        BY DEF Linked
      <3> QED BY <3>3, <3>4
    <2>6. FrontWaits'
      BY <1>1, <2>1, <2>4, <2>5 DEF FrontWaits, Blocked
    <2> QED BY <1>2, <1>3, <2>6 DEF ScanInv, FrontInv
  <1> QED BY <1>4, <1>5

(* A waiter or an upgrade is given up, or a request downgraded: everything  *)
(* is looked at.                                                            *)
LEMMA FullScan ==
    ASSUME Inv, Inv', ScanInv, NEW l \in Locker,
           \/ UnlockWaiting(l) \/ UnlockConverting(l)
           \/ \E m \in AcquireModes : Downgrade(l, m)
    PROVE  ScanInv'
  <1>0. TypeOK /\ StatusInv(l)
    BY DEF Inv, RequestInv
  <1>1. /\ OnlyRequestOf(l) /\ pc'[l] = "grantConversions" /\ iter' = 1
        /\ checkConflictQueue' = TRUE /\ status'[l] # "CONVERTING"
    BY <1>0 DEF UnlockWaiting, UnlockConverting, Downgrade, onLockModeChanged, goto, TypeOK,
                Thread, OnlyRequestOf, StatusInv
  <1>2. UpgradeInv'
    BY <1>1, UpgradeStep DEF ScanInv, Upgrading
  <1>3. \A i \in 1..Len(grantedList') : ~(i < iter')
    BY <1>1 DEF Inv, TypeOK
  <1>4. ConversionInv'
    BY <1>1, <1>3 DEF ConversionInv
  <1> QED BY <1>1, <1>2, <1>4 DEF ScanInv, FrontInv, Scanning

-----------------------------------------------------------------------------
(* The scan. *)

(* One thread scans at a time. *)
LEMMA OneScan ==
    ASSUME Inv, NEW l \in Locker, pc[l] \in Scanning
    PROVE  \A t \in Locker \ {l} : pc[t] \notin Scanning
  BY ScanOwnsBucket

(* A scan that has not come to the queue, of which it will look at nothing, *)
(* or that is past the front of it, leaves the front blocked.               *)
LEMMA FrontDuringScan ==
    ASSUME Inv, NEW l \in Locker, pc[l] \in Scanning
    PROVE  /\ pc[l] = "grantConversions" => (FrontInv <=> (checkConflictQueue \/ FrontWaits))
           /\ pc[l] = "grantWaiters" =>
                (FrontInv <=> (checkConflictQueue /\ iter = 1) \/ FrontWaits)
  <1>1. \A t \in Locker \ {l} : pc[t] \notin Scanning
    BY OneScan
  <1>2. iter \in Nat /\ iter >= 1
    BY DEF Inv, TypeOK
  <1> QED BY <1>1, <1>2 DEF FrontInv, Scanning

(* The loop over the granted queue grants an upgrade. *)
LEMMA GrantConversionScan ==
    ASSUME Inv, Inv', ScanInv, NEW l \in Locker, GrantConversion(l)
    PROVE  ScanInv'
  <1>0. TypeOK /\ UpgradeInv /\ ConversionInv /\ HeadFacts
    BY HeadFactsHold DEF Inv, ScanInv
  <1>1. PICK q \in Locker : q = grantedList[iter] /\ q \in Linked(grantedList)
    BY <1>0, LinkedLockers DEF GrantConversion, MoreConversions, TypeOK, Linked
  <1>2. /\ pc[l] = "grantConversions" /\ status[q] = "CONVERTING"
        /\ status' = [status EXCEPT ![q] = "GRANTED"]
        /\ mode' = [mode EXCEPT ![q] = convertMode[q]]
        /\ convertMode' = [convertMode EXCEPT ![q] = MODE_NONE]
        /\ iter' = iter + 1
        /\ UNCHANGED <<pc, compatibleFirst, newMode, grantedList, conflictList,
                       checkConflictQueue>>
    BY <1>1 DEF GrantConversion, Convertible
  <1>3. pc[q] = "wait"
    BY <1>1, <1>2, ConvertingWaits DEF Scanning
  <1>4. /\ mode[q] \in Mode /\ convertMode[q] \in Mode /\ Stronger(mode[q], convertMode[q])
        /\ status'[q] = "GRANTED" /\ mode'[q] = convertMode[q]
    BY <1>0, <1>1, <1>2, HeadModes DEF TypeOK, UpgradeInv
  <1>5. \A x \in Locker \ {q} : SameRequest(x)
    BY <1>0, <1>2 DEF SameRequest, TypeOK
  <1>6. UpgradeInv'
    BY <1>0, <1>2, <1>3, <1>4, <1>5 DEF UpgradeInv, SameRequest, Upgrading
  <1>7. \A b \in Linked(grantedList) : b \in Linked(grantedList)' /\ StandsFirm(b)
    <2>1. StandsFirm(q)
      BY <1>4, StandsFirmIf DEF Stronger
    <2>2. ASSUME NEW b \in Linked(grantedList), b # q PROVE StandsFirm(b)
      BY <1>5, <2>2, HeadModes, StandsFirmIf DEF SameRequest
    <2> QED BY <1>2, <2>1, <2>2
  <1>8. ConversionInv'
    <2>1. \A b \in Linked(grantedList) : status'[b] = "CONVERTING" =>
             status[b] = "CONVERTING" /\ convertMode'[b] = convertMode[b]
      BY <1>4, <1>5, HeadModes DEF SameRequest
    <2>2. \A i \in 1..Len(grantedList) :
             i < iter' => i < iter \/ status'[grantedList[i]] # "CONVERTING"
      BY <1>0, <1>1, <1>2, <1>4 DEF TypeOK
    <2> QED BY <1>0, <1>2, <1>6, <1>7, <2>1, <2>2, ConversionStep
  <1>9. FrontInv'
    <2>1. (FrontInv <=> (checkConflictQueue \/ FrontWaits))
      BY <1>2, FrontDuringScan DEF Scanning
    <2>2. FrontWaits' => FrontInv'
      BY DEF FrontInv
    <2>3. checkConflictQueue => FrontInv'
      BY <1>2 DEF FrontInv, Scanning
    <2>4. CASE FrontWaits /\ conflictList = <<>>
      BY <1>2, <2>2, <2>4 DEF FrontWaits
    <2>5. CASE FrontWaits /\ conflictList # <<>>
      <3>1. conflictList[1] \in Linked(conflictList)
        BY <1>0, <2>5 DEF TypeOK, Linked
      <3>2. conflictList[1] # q /\ conflictList[1] \in Locker
        BY <1>0, <1>2, <3>1 DEF HeadFacts
      <3>3. mode'[conflictList[1]] = mode[conflictList[1]]
        BY <1>5, <3>2 DEF SameRequest
      <3> QED BY <1>0, <1>2, <1>6, <1>7, <2>2, <2>5, <3>3, FrontStays
    <2> QED BY <2>1, <2>3, <2>4, <2>5 DEF ScanInv
  <1> QED BY <1>6, <1>8, <1>9 DEF ScanInv

(* The loop over the granted queue goes past a request that stays blocked,  *)
(* and ends when it can grant nothing more.                                 *)
LEMMA SkipConversionScan ==
    ASSUME Inv, Inv', ScanInv, NEW l \in Locker, SkipConversion(l) \/ ConversionsDone(l)
    PROVE  ScanInv'
  <1>0. TypeOK /\ UpgradeInv /\ ConversionInv
    BY DEF Inv, ScanInv
  <1>1. /\ pc[l] = "grantConversions" /\ \A t \in Locker \ {l} : pc'[t] = pc[t]
        /\ UNCHANGED reqVars /\ UNCHANGED <<grantedList, grantedCounts, conflictList>>
        /\ UNCHANGED checkConflictQueue
    <2>1. pc \in [Thread -> Label] /\ Locker \subseteq Thread
      BY <1>0 DEF TypeOK, Thread
    <2>2. CASE SkipConversion(l)
      BY <2>2 DEF SkipConversion
    <2>3. CASE ConversionsDone(l)
      BY <2>1, <2>3 DEF ConversionsDone, goto
    <2> QED BY <2>2, <2>3
  <1>2. pc'[l] \in Scanning /\ l \in Locker
    BY <1>0, <1>1 DEF SkipConversion, ConversionsDone, goto, TypeOK, Thread, Scanning
  <1>3. UpgradeInv'
    BY <1>0, <1>1, <1>2 DEF UpgradeInv, Upgrading, Scanning
  <1>4. /\ \A i \in 1..Len(grantedList) :
             Convertible(grantedList[i])' <=> Convertible(grantedList[i])
        /\ FrontWaits => FrontWaits'
    BY <1>1, SameHead DEF SameRequest
  <1>5. ASSUME NEW i \in 1..Len(grantedList), i < iter PROVE ~Convertible(grantedList[i])
    <2>1. \A t \in Locker : pc[t] = "grantConversions" => i < iter
      BY <1>5
    <2> QED BY <1>0, <2>1 DEF ConversionInv
  <1>6. ConversionInv'
    <2>1. CASE SkipConversion(l)
      <3>1. pc'[l] = "grantConversions" /\ iter' = iter + 1 /\ ~Convertible(grantedList[iter])
        BY <1>1, <2>1 DEF SkipConversion
      <3>2. \A i \in 1..Len(grantedList) : i < iter' => ~Convertible(grantedList[i])
        BY <1>0, <1>5, <3>1 DEF TypeOK
      <3> QED BY <1>1, <1>4, <3>1, <3>2 DEF ConversionInv
    <2>2. CASE ConversionsDone(l)
      <3>1. CASE conversionsCount = 0
        <4>1. ASSUME NEW i \in 1..Len(grantedList) PROVE ~Convertible(grantedList[i])
          <5>1. PICK q \in Linked(grantedList) : q = grantedList[i]
            BY DEF Linked
          <5>2. status[q] # "CONVERTING"
            BY <3>1, HeadModes, Counted DEF Inv
          <5> QED BY <5>1, <5>2 DEF Convertible
        <4> QED BY <1>1, <1>4, <4>1 DEF ConversionInv
      <3>2. CASE ~(iter <= Len(grantedList))
        <4>1. \A i \in 1..Len(grantedList) : i < iter
          BY <1>0, <3>2 DEF TypeOK
        <4> QED BY <1>1, <1>4, <1>5, <4>1 DEF ConversionInv
      <3> QED BY <1>0, <2>2, <3>1, <3>2 DEF ConversionsDone, MoreConversions, TypeOK
    <2> QED BY <2>1, <2>2
  <1>7. FrontInv'
    <2>1. FrontInv <=> (checkConflictQueue \/ FrontWaits)
      BY <1>1, FrontDuringScan DEF Scanning
    <2>2. checkConflictQueue => FrontInv'
      BY <1>0, <1>1, <1>2 DEF FrontInv, Scanning, SkipConversion, ConversionsDone
    <2>3. FrontWaits' => FrontInv'
      BY DEF FrontInv
    <2> QED BY <1>4, <2>1, <2>2, <2>3 DEF ScanInv
  <1> QED BY <1>3, <1>6, <1>7 DEF ScanInv

(* The loop over the queue grants a waiter. *)
LEMMA GrantWaiterScan ==
    ASSUME Inv, Inv', ScanInv, NEW l \in Locker, GrantWaiter(l)
    PROVE  ScanInv'
  <1>0. TypeOK /\ UpgradeInv /\ ConversionInv /\ HeadFacts
    BY HeadFactsHold DEF Inv, ScanInv
  <1>20. iter \in 1..Len(conflictList) /\ checkConflictQueue
    BY <1>0 DEF GrantWaiter, MoreWaiters, TypeOK
  <1>1. PICK q \in Locker : q = conflictList[iter] /\ q \in Linked(conflictList)
    BY <1>0, <1>20, LinkedLockers DEF Linked
  <1>2. /\ pc[l] = "grantWaiters"
        /\ status' = [status EXCEPT ![q] = "GRANTED"]
        /\ conflictList' = RemoveAt(conflictList, iter)
        /\ grantedList' = Append(grantedList, q)
        /\ iter' = IF mode[q] = "X" THEN Len(conflictList) ELSE iter
        /\ UNCHANGED <<pc, mode, convertMode, compatibleFirst, newMode, checkConflictQueue>>
    BY <1>1 DEF GrantWaiter, push_back
  <1>3. status[q] = "WAITING" /\ mode[q] \in Mode /\ q \notin Linked(grantedList)
    BY <1>1, HeadModes, QueueModes
  <1>4. UpgradeInv'
    BY <1>0, <1>2, <1>3 DEF UpgradeInv, TypeOK
  <1>5. \A b \in Linked(grantedList) : StandsFirm(b) /\ SameRequest(b)
    BY <1>0, <1>1, <1>2, <1>3, OthersStandFirm DEF TypeOK
  <1>6. /\ Len(grantedList') = Len(grantedList) + 1 /\ Len(grantedList) \in Nat
        /\ \A i \in 1..Len(grantedList) : grantedList'[i] = grantedList[i]
        /\ grantedList'[Len(grantedList) + 1] = q
        /\ status'[q] = "GRANTED"
    BY <1>0, <1>1, <1>2, AppendProperties, LenProperties DEF TypeOK
  <1>7. \A t \in Locker : pc[t] # "grantConversions"
    BY <1>2, OneScan DEF Scanning
  <1>8. ConversionInv'
    <2>1. /\ \A i \in 1..Len(grantedList) :
               i \in 1..Len(grantedList') /\ grantedList'[i] = grantedList[i]
          /\ \A i \in 1..Len(grantedList') :
               i \in 1..Len(grantedList) \/ status'[grantedList'[i]] # "CONVERTING"
      BY <1>6
    <2> QED BY <1>0, <1>2, <1>4, <1>5, <1>7, <2>1, ConversionStep DEF SameRequest
  <1>9. q \in Linked(grantedList)' /\ \A b \in Linked(grantedList) : b \in Linked(grantedList)'
    BY <1>6 DEF Linked
  <1>10. HeadFacts'
    BY <1>4, HeadFactsHold
  <1>11. FrontInv'
    <2> SUFFICES ASSUME conflictList' # <<>>, iter' > 1 PROVE FrontWaits'
      BY <1>20, <1>2 DEF FrontInv, FrontWaits, Scanning
    <2>1. CASE mode[q] = "X"
      <3>1. PICK w \in Linked(conflictList)' : w = conflictList'[1]
        BY DEF Inv, TypeOK, Linked
      <3>2. PICK m \in Mode : m = mode'[w]
        BY <1>10 DEF HeadFacts
      <3>3. Obstructs(q, m)'
        BY <1>2, <2>1 DEF Obstructs, conflicts, LockConflictsTable, Mode, MODE_NONE
      <3>4. conflicts(m, grantedModes)'
        BY <1>9, <1>10, <3>3 DEF HeadFacts
      <3>5. Blocked(1)'
        BY <3>1, <3>2, <3>4 DEF Blocked, conflicts
      <3>6. grantedList' # <<>>
        BY <1>6
      <3> QED BY <3>5, <3>6 DEF FrontWaits
    <2>2. CASE mode[q] # "X"
      <3>1. iter > 1 /\ conflictList # <<>>
        BY <1>20, <1>2, <2>2
      <3>2. FrontWaits
        BY <1>2, <3>1, FrontDuringScan DEF ScanInv, Scanning
      <3>3. conflictList'[1] = conflictList[1]
        <4>1. Len(conflictList) - 1 \in Nat /\ 1 \in 1..(Len(conflictList) - 1)
          BY <1>0, <1>20, <3>1 DEF TypeOK
        <4> QED BY <1>2, <3>1, <4>1 DEF RemoveAt
      <3> QED BY <1>0, <1>2, <1>4, <1>5, <1>9, <3>1, <3>2, <3>3, FrontStays
    <2> QED BY <2>1, <2>2
  <1> QED BY <1>4, <1>8, <1>11 DEF ScanInv

(* Whoever is blocked is blocked by a holder. *)
LEMMA FrontIsBlocked ==
    ASSUME Inv, conflictList # <<>>, Blocked(1)
    PROVE  FrontWaits
  <1>1. PICK w \in Linked(conflictList) : w = conflictList[1]
    BY DEF Inv, TypeOK, Linked
  <1>2. mode[w] \in Mode
    BY QueueModes
  <1>3. \E b : b \in Linked(grantedList)
    BY <1>1, <1>2, BlockedByHead DEF Blocked
  <1>4. Linked(<<>>) = {}
    BY DEF Linked
  <1> QED BY <1>3, <1>4 DEF FrontWaits

(* The loop over the queue goes past a blocked waiter. *)
LEMMA SkipWaiterScan ==
    ASSUME Inv, Inv', ScanInv, NEW l \in Locker, SkipWaiter(l)
    PROVE  ScanInv'
  <1>0. TypeOK /\ UpgradeInv /\ ConversionInv
    BY DEF Inv, ScanInv
  <1>1. /\ pc[l] = "grantWaiters" /\ UNCHANGED reqVars /\ iter' = iter + 1
        /\ UNCHANGED <<pc, grantedList, grantedCounts, conflictList, checkConflictQueue>>
        /\ Blocked(iter) /\ checkConflictQueue /\ iter \in 1..Len(conflictList)
    BY <1>0 DEF SkipWaiter, MoreWaiters, TypeOK
  <1>2. UpgradeInv'
    BY <1>0, <1>1 DEF UpgradeInv
  <1>3. /\ \A i \in 1..Len(grantedList) :
             Convertible(grantedList[i])' <=> Convertible(grantedList[i])
        /\ FrontWaits => FrontWaits'
    BY <1>1, SameHead DEF SameRequest
  <1>4. \A t \in Locker : pc[t] # "grantConversions"
    BY <1>1, OneScan DEF Scanning
  <1>5. ConversionInv'
    BY <1>0, <1>1, <1>3, <1>4 DEF ConversionInv
  <1>6. FrontWaits
    <2>1. CASE iter = 1
      BY <1>1, <2>1, FrontIsBlocked DEF FrontWaits
    <2>2. CASE iter # 1
      BY <1>1, <2>2, FrontDuringScan DEF ScanInv, Scanning
    <2> QED BY <2>1, <2>2
  <1> QED BY <1>2, <1>3, <1>5, <1>6 DEF ScanInv, FrontInv

(* The end of the scan: the front of the queue is blocked. *)
LEMMA LockModeChangedDoneScan ==
    ASSUME Inv, Inv', ScanInv, NEW l \in Locker, LockModeChangedDone(l)
    PROVE  ScanInv'
  <1>0. TypeOK /\ UpgradeInv /\ ConversionInv /\ StatusInv(l) /\ PlaceInv(l)
    BY DEF Inv, ScanInv, RequestInv
  <1>1. /\ pc[l] = "grantWaiters" /\ OnlyRequestOf(l) /\ pc'[l] = "idle"
        /\ UNCHANGED <<grantedList, grantedCounts, conflictList, convertMode, newMode>>
        /\ recursiveCount[l] # 0 => UNCHANGED <<status, mode, compatibleFirst>>
        /\ status'[l] # "CONVERTING" /\ ~MoreWaiters
    BY <1>0 DEF LockModeChangedDone, ForgetRequest, goto, TypeOK, Thread, OnlyRequestOf,
                StatusInv, Scanning
  <1>2. UpgradeInv'
    BY <1>0, <1>1, UpgradeStep DEF Upgrading
  <1>3. OnHead(l) \/ Queued(l) => SameRequest(l)
    BY <1>0, <1>1 DEF PlaceInv, SameRequest, Scanning
  <1>4. \A x \in Linked(grantedList) \cup Linked(conflictList) : SameRequest(x)
    BY <1>0, <1>1, <1>3, LinkedLockers DEF OnlyRequestOf, SameRequest, OnHead, Queued
  <1>5. /\ \A i \in 1..Len(grantedList) :
             Convertible(grantedList[i])' <=> Convertible(grantedList[i])
        /\ FrontWaits => FrontWaits'
    BY <1>1, <1>4, SameHead
  <1>6. \A t \in Locker : pc[t] # "grantConversions"
    BY <1>1, OneScan DEF Scanning
  <1>7. ConversionInv'
    BY <1>0, <1>1, <1>5, <1>6 DEF ConversionInv
  <1>8. FrontWaits
    <2>1. CASE checkConflictQueue /\ iter = 1
      <3>1. ~(1 <= Len(conflictList)) \/ Blocked(1)
        BY <1>1, <2>1 DEF MoreWaiters, StopsAt
      <3>2. conflictList # <<>> => 1 <= Len(conflictList)
        BY <1>0 DEF TypeOK
      <3> QED BY <3>1, <3>2, FrontIsBlocked DEF FrontWaits
    <2>2. CASE ~(checkConflictQueue /\ iter = 1)
      BY <1>1, <2>2, FrontDuringScan DEF ScanInv, Scanning
    <2> QED BY <2>1, <2>2
  <1> QED BY <1>2, <1>5, <1>7, <1>8 DEF ScanInv, FrontInv

-----------------------------------------------------------------------------
(* The invariant of the scan. *)

(* It holds at first. *)
LEMMA InitScan ==
    ASSUME Init PROVE ScanInv
  <1>1. grantedList = <<>> /\ conflictList = <<>> /\ Len(<<>>) = 0
    BY DEF Init
  <1>2. UpgradeInv
    BY DEF Init, UpgradeInv, Upgrading, Thread
  <1> QED BY <1>1, <1>2 DEF ScanInv, ConversionInv, FrontInv, FrontWaits

(* Every step of the lock manager preserves it. *)
LEMMA NextScan ==
    ASSUME Inv, Inv', ScanInv, Next PROVE ScanInv'
  <1>1. CASE \E l \in Locker : LockerNext(l)
    <2>1. PICK l \in Locker : LockerNext(l)
      BY <1>1
    <2>2. CASE \/ \E m \in AcquireModes : LockBegin(l, m)
               \/ LockPartition(l) \/ LockStartPartition(l) \/ LockMigrate(l)
      BY <2>2, LockScan
    <2>3. CASE \/ \E m \in upgradeModes : ConvertCovered(l, m) \/ ConvertBegin(l, m)
               \/ ConvertMigrate(l) \/ WaitGranted(l) \/ WaitAbandoned(l) \/ Unlock(l)
      BY <2>3, ConvertScan
    <2>4. CASE LockNewRequest(l) \/ Convert(l) \/ UnlockPartition(l)
      BY <2>4, LockNewRequestScan, ConvertEndScan, UnlockPartitionScan
    <2>5. CASE UnlockGranted(l)
      BY <2>5, UnlockGrantedScan
    <2>6. CASE \/ UnlockWaiting(l) \/ UnlockConverting(l)
               \/ \E m \in AcquireModes : Downgrade(l, m)
      BY <2>6, FullScan
    <2>7. CASE GrantConversion(l) \/ SkipConversion(l) \/ ConversionsDone(l)
      BY <2>7, GrantConversionScan, SkipConversionScan
    <2>8. CASE GrantWaiter(l) \/ SkipWaiter(l) \/ LockModeChangedDone(l)
      BY <2>8, GrantWaiterScan, SkipWaiterScan, LockModeChangedDoneScan
    <2> QED BY <2>1, <2>2, <2>3, <2>4, <2>5, <2>6, <2>7, <2>8 DEF LockerNext
  <1>2. CASE \E t \in Thread : MigrateNext(t)
    BY <1>2, ThreadScan, MigrateRequestScan DEF MigrateNext
  <1>3. CASE CleanupMigrate \/ Cleanup
    BY <1>3, ThreadScan
  <1> QED BY <1>1, <1>2, <1>3 DEF Next

(* With no mode granted, the lock head has no request and its counters are  *)
(* zero.                                                                    *)
LEMMA NothingGranted ==
    ASSUME Inv, grantedModes = {}
    PROVE  conversionsCount = 0 /\ compatibleFirstCount = 0
  <1>1. Linked(grantedList) = {}
    BY HeadModes, GrantedModesAre DEF CountedIn
  <1>2. Converting = {} /\ Prior = {}
    BY <1>1 DEF Converting, Prior
  <1>3. Cardinality(Converting) = 0 /\ Cardinality(Prior) = 0
    BY <1>2, FS_EmptySet
  <1> QED BY <1>3, CountsSplit DEF Inv, GrantedCountsMatch

(* When nobody has the bucket mutex, a queued request implies a holder, the *)
(* front of the queue is really blocked unless it jumped ahead, every       *)
(* upgrade that waits is really blocked, and an empty lock head counts      *)
(* nothing: neither the checkConflictQueue nor the conversionsCount         *)
(* shortcut of _onLockModeChanged leaves anybody stranded, and the cleanup  *)
(* finds what it asserts.                                                   *)
THEOREM NobodyStranded == NoGrantRace => (Spec => []NoStrandedWaiter)
  <1> SUFFICES ASSUME NoGrantRace PROVE Spec => []NoStrandedWaiter
    OBVIOUS
  <1>1. Init => ScanInv
    BY InitScan
  <1>2. Inv /\ Inv' /\ ScanInv /\ [Next]_vars => ScanInv'
    BY NextScan, ThreadScan
  <1>3. Inv /\ ScanInv => NoStrandedWaiter
    <2> SUFFICES ASSUME Inv, ScanInv, bucketMutex = Nobody
                 PROVE  /\ FrontWaits
                        /\ \A l \in Linked(grantedList) : ~Convertible(l)
                        /\ grantedModes = {} => conversionsCount = 0 /\ compatibleFirstCount = 0
      BY DEF NoStrandedWaiter, FrontWaits
    <2>1. FrontWaits /\ \A x \in Locker : pc[x] \notin Scanning
      BY NoScan DEF ScanInv
    <2>2. \A l \in Linked(grantedList) : ~Convertible(l)
      BY <2>1 DEF ScanInv, ConversionInv, Linked, Scanning
    <2> QED BY <2>1, <2>2, NothingGranted
  <1>4. Spec => []Inv
    BY Invariance
  <1> QED BY <1>1, <1>2, <1>3, <1>4, PTL DEF Spec
=============================================================================
