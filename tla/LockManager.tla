---------------------------- MODULE LockManager ----------------------------
(***************************************************************************)
(* The lock manager of the server (db/concurrency/lock_manager.cpp), for   *)
(* one resource: the LockHead in its hash bucket, the PartitionedLockHeads *)
(* that intent requests use to stay off the bucket, and the lockers, each  *)
(* running the single-resource part of LockerImpl (_lockBegin,             *)
(* _lockComplete, _unlockImpl of lock_state.cpp).  Resources never share   *)
(* state except the bucket mutex, so one resource is representative.       *)
(*                                                                         *)
(* Granularity.  A step is a stretch of code no other thread can observe   *)
(* the middle of: what runs between two mutex operations, or one iteration *)
(* of a loop that runs under the bucket mutex.  The owner of a request     *)
(* reads its status without any mutex in unlock(), while other threads     *)
(* grant it under the bucket mutex; the model keeps that read in a step of *)
(* its own.                                                                *)
(***************************************************************************)
EXTENDS Integers, Sequences, FiniteSets

CONSTANTS
    Locker,              \* the lockers; each is one thread with one LockRequest
    Partition,           \* the lock partitions (_numPartitions)
    PartitionOf,         \* _getPartition: locker id modulo _numPartitions
    AcquireModes,        \* modes that first acquisitions may ask for
    UpgradeModes,        \* modes that re-acquisitions may ask for
    PriorityResources,   \* may the resource be Global, PBWM or RSTL: TRUE; another: FALSE
    AbandonConversions,  \* a blocked upgrade may time out or be interrupted
    GrantRacesAbandon,   \* FALSE leaves out the executions in which an upgrade is granted
                         \* after its owner gave up waiting and dropped its reference,
                         \* before that owner obtained the bucket mutex: the owner then
                         \* finds the mutex free when it reads the status
    MaxRecursion,        \* bound on recursiveCount
    Cleaner,             \* the UnusedLockCleaner thread
    Nobody               \* no thread holds the mutex

MODE_NONE == "NONE"
Mode == {"IS", "IX", "S", "X"}
IntentModes == {"IS", "IX"}

(* LockConflictsTable and the questions the code asks of it. *)
LockConflictsTable ==
    [m \in Mode \cup {MODE_NONE} |->
        CASE m = "IS" -> {"X"}
          [] m = "IX" -> {"S", "X"}
          [] m = "S"  -> {"IX", "X"}
          [] m = "X"  -> {"IS", "IX", "S", "X"}
          [] OTHER    -> {}]

conflicts(newMode_, existingModes) ==
    LockConflictsTable[newMode_] \cap existingModes # {}

isModeCovered(m, coveringMode) ==
    LockConflictsTable[m] \subseteq LockConflictsTable[coveringMode]

ASSUME LockerAssumption ==
    /\ IsFiniteSet(Locker)
    /\ Cleaner \notin Locker
    /\ Nobody \notin Locker \cup {Cleaner}
ASSUME PartitionAssumption == PartitionOf \in [Locker -> Partition]
ASSUME ModeAssumption == AcquireModes \subseteq Mode /\ UpgradeModes \subseteq Mode
ASSUME RecursionAssumption == MaxRecursion \in Nat
ASSUME FlagAssumption ==
    PriorityResources \cup {AbandonConversions, GrantRacesAbandon} \subseteq BOOLEAN
Thread == Locker \cup {Cleaner}

VARIABLES
    \* where each thread is in the code
    pc,
    \* LockRequest, one per locker (recursiveCount 0: no request in the locker's map)
    status, mode, convertMode, recursiveCount, partitioned, compatibleFirst,
    newMode,             \* the newMode argument of a convert() under way
    notified,            \* CondVarLockGrantNotification::_result = LOCK_OK
    \* LockHead
    headExists, grantedList, grantedCounts, conflictList, conflictCounts,
    partitions, conversionsCount, compatibleFirstCount,
    \* PartitionedLockHead of the resource in each partition
    plhExists, plhGrantedList,
    \* mutexes
    bucketMutex, partitionMutex,
    \* locals of the _onLockModeChanged call under way, if any
    iter, checkConflictQueue, newlyCompatibleFirst,
    \* the resource is Global, PBWM or RSTL; never changes
    priorityResource

reqVars == <<status, mode, convertMode, recursiveCount, partitioned,
             compatibleFirst, newMode, notified>>
grantedVars == <<grantedList, grantedCounts, conversionsCount, compatibleFirstCount>>
conflictVars == <<conflictList, conflictCounts>>
headVars == <<headExists, partitions, grantedVars, conflictVars>>
plhVars == <<plhExists, plhGrantedList>>
mutexVars == <<bucketMutex, partitionMutex>>
scanVars == <<iter, checkConflictQueue, newlyCompatibleFirst>>
vars == <<pc, reqVars, headVars, plhVars, mutexVars, scanVars, priorityResource>>

-----------------------------------------------------------------------------
(* Intrusive lists of requests (LockRequestList). *)

Linked(list) == {list[i] : i \in 1..Len(list)}

push_front(list, l) == <<l>> \o list
push_back(list, l) == Append(list, l)

RemoveAt(list, k) ==
    [i \in 1..(Len(list) - 1) |-> IF i < k THEN list[i] ELSE list[i + 1]]

\* Precondition of LockRequestList::remove: l is linked in the list.
remove(list, l) ==
    RemoveAt(list, CHOOSE k \in 1..Len(list) : list[k] = l)

(* grantedModes and conflictModes are kept in lock-step with the counts. *)
grantedModes == {m \in Mode : grantedCounts[m] > 0}
conflictModes == {m \in Mode : conflictCounts[m] > 0}

\* (mutant) the count is changed twice
Dec_Twice(counts, m) == [counts EXCEPT ![m] = @ - 2]
\* (mutant) the count is not changed
Inc_Lost(counts, m) == counts

Inc(counts, m) == [counts EXCEPT ![m] = @ + 1]
Dec(counts, m) == [counts EXCEPT ![m] = @ - 1]

NoRequests == [m \in Mode |-> 0]

\* (mutant) looks at the granted modes only
MustWait_Overtaking(l) == conflicts(mode[l], grantedModes)

\* LockHead::newRequest waits; otherwise it grants.
MustWait(l) ==
    \/ conflicts(mode[l], grantedModes)
    \/ compatibleFirstCount = 0 /\ conflicts(mode[l], conflictModes)

\* (mutant) takes two holders of the same mode for one
grantedModesWithout_Two(l, own) ==
    {m \in Mode : grantedCounts[m] > IF m \in own THEN 2 ELSE 0}

\* Modes granted or being converted to, not counting what l itself contributes.
grantedModesWithout(l, own) ==
    {m \in Mode : grantedCounts[m] > IF m \in own THEN 1 ELSE 0}

PartitionedHead == partitions # <<>>

-----------------------------------------------------------------------------
Init ==
    /\ pc = [t \in Thread |-> "idle"]
    /\ status = [l \in Locker |-> "NEW"]
    /\ mode = [l \in Locker |-> MODE_NONE]
    /\ convertMode = [l \in Locker |-> MODE_NONE]
    /\ recursiveCount = [l \in Locker |-> 0]
    /\ partitioned = [l \in Locker |-> FALSE]
    /\ compatibleFirst = [l \in Locker |-> FALSE]
    /\ newMode = [l \in Locker |-> MODE_NONE]
    /\ notified = [l \in Locker |-> FALSE]
    /\ headExists = FALSE
    /\ grantedList = <<>>
    /\ grantedCounts = NoRequests
    /\ conflictList = <<>>
    /\ conflictCounts = NoRequests
    /\ partitions = <<>>
    /\ conversionsCount = 0
    /\ compatibleFirstCount = 0
    /\ plhExists = [p \in Partition |-> FALSE]
    /\ plhGrantedList = [p \in Partition |-> <<>>]
    /\ bucketMutex = Nobody
    /\ partitionMutex = [p \in Partition |-> Nobody]
    /\ iter = 1
    /\ checkConflictQueue = FALSE
    /\ newlyCompatibleFirst = FALSE
    /\ priorityResource \in PriorityResources

goto(t, label) == pc' = [pc EXCEPT ![t] = label]

\* it->remove() in LockerImpl::_unlockImpl: the locker forgets its request.
ForgetRequest(l) ==
    /\ status' = [status EXCEPT ![l] = "NEW"]
    /\ mode' = [mode EXCEPT ![l] = MODE_NONE]
    /\ partitioned' = [partitioned EXCEPT ![l] = FALSE]
    /\ compatibleFirst' = [compatibleFirst EXCEPT ![l] = FALSE]

\* (mutant) isSharedLockMode in place of the strong modes
HasPriority_Shared(m) == priorityResource /\ m \in {"IS", "S"}

\* The strong modes of Global, PBWM and RSTL jump the queue (enqueueAtFront) and
\* switch the resource to compatibleFirst; _lockBegin sets both flags together.
HasPriority(m) == priorityResource /\ m \in Mode \ IntentModes

-----------------------------------------------------------------------------
\* (mutant) the result of the previous wait stays
clearNotification_Stale(l) == UNCHANGED notified

\* CondVarLockGrantNotification::clear
clearNotification(l) == notified' = [notified EXCEPT ![l] = FALSE]

(* LockerImpl::_lockBegin and LockManager::lock for a new request. *)

LockBegin(l, m) ==
    /\ pc[l] = "idle"
    /\ recursiveCount[l] = 0
    /\ recursiveCount' = [recursiveCount EXCEPT ![l] = 1]
    /\ mode' = [mode EXCEPT ![l] = m]
    /\ partitioned' = [partitioned EXCEPT ![l] = m \in IntentModes]
    /\ compatibleFirst' = [compatibleFirst EXCEPT ![l] = HasPriority(m)]
    /\ clearNotification(l)
    /\ goto(l, IF m \in IntentModes THEN "lockPartition" ELSE "lockBucket")
    /\ UNCHANGED <<status, convertMode, newMode, headVars, plhVars, mutexVars, scanVars>>

\* Intent fast path, under the partition mutex.
LockPartition(l) ==
    LET p == PartitionOf[l] IN
    /\ pc[l] = "lockPartition"
    /\ partitionMutex[p] = Nobody
    /\ IF plhExists[p]
       THEN /\ plhGrantedList' = [plhGrantedList EXCEPT ![p] = push_back(@, l)]
            /\ status' = [status EXCEPT ![l] = "GRANTED"]
            /\ goto(l, "idle")
       ELSE /\ goto(l, "lockBucket")
            /\ UNCHANGED <<plhGrantedList, status>>
    /\ UNCHANGED <<mode, convertMode, recursiveCount, partitioned, compatibleFirst,
                   newMode, notified, headVars, plhExists, mutexVars, scanVars>>

\* (mutant) does not look at the queue
CanPartition_Overtaking(l) == partitioned[l] /\ grantedModes \subseteq IntentModes
\* (mutant) does not look at the granted modes
CanPartition_Granted(l) == partitioned[l] /\ conflictModes = {}

CanPartition(l) ==
    partitioned[l] /\ grantedModes \subseteq IntentModes /\ conflictModes = {}

\* Under the bucket mutex: start (or join) a partitioned lock.
LockStartPartition(l) ==
    LET p == PartitionOf[l] IN
    /\ pc[l] = "lockBucket"
    /\ bucketMutex = Nobody
    /\ CanPartition(l)
    /\ partitionMutex[p] = Nobody
    /\ headExists' = TRUE
    /\ plhExists' = [plhExists EXCEPT ![p] = TRUE]
    /\ partitions' = Append(partitions, p)
    /\ plhGrantedList' = [plhGrantedList EXCEPT ![p] = push_back(@, l)]
    /\ status' = [status EXCEPT ![l] = "GRANTED"]
    /\ goto(l, "idle")
    /\ UNCHANGED <<mode, convertMode, recursiveCount, partitioned, compatibleFirst,
                   newMode, notified, grantedVars, conflictVars, mutexVars, scanVars>>

\* Under the bucket mutex: the first non-intent request migrates the partitions.
LockMigrate(l) ==
    /\ pc[l] = "lockBucket"
    /\ bucketMutex = Nobody
    /\ ~CanPartition(l)
    /\ PartitionedHead
    /\ bucketMutex' = l
    /\ goto(l, "lockMigrate")
    /\ UNCHANGED <<reqVars, headVars, plhVars, partitionMutex, scanVars>>

(* LockHead::newRequest: queue on the conflict list or grant. *)
newRequestWaits(l) ==
    /\ MustWait(l)
    /\ status' = [status EXCEPT ![l] = "WAITING"]
    /\ conflictList' = IF compatibleFirst[l] THEN push_front(conflictList, l)
                                             ELSE push_back(conflictList, l)
    /\ conflictCounts' = Inc(conflictCounts, mode[l])
    /\ UNCHANGED grantedVars

newRequestGranted(l) ==
    /\ ~MustWait(l)
    /\ status' = [status EXCEPT ![l] = "GRANTED"]
    /\ grantedList' = push_back(grantedList, l)
    /\ grantedCounts' = Inc(grantedCounts, mode[l])
    /\ compatibleFirstCount' = compatibleFirstCount + IF compatibleFirst[l] THEN 1 ELSE 0
    /\ UNCHANGED <<conversionsCount, conflictVars>>

\* The last part of lock(), reached with the bucket mutex and nothing to migrate.
LockNewRequest(l) ==
    /\ \/ pc[l] = "lockBucket" /\ bucketMutex = Nobody /\ ~CanPartition(l)
       \/ pc[l] = "lockMigrate"
    /\ ~PartitionedHead
    /\ headExists' = TRUE
    /\ partitioned' = [partitioned EXCEPT ![l] = FALSE]
    /\ \/ newRequestWaits(l) /\ goto(l, "wait")
       \/ newRequestGranted(l) /\ goto(l, "idle")
    /\ bucketMutex' = Nobody
    /\ UNCHANGED <<mode, convertMode, recursiveCount, compatibleFirst, newMode,
                   notified, partitions, plhVars, partitionMutex, scanVars>>

-----------------------------------------------------------------------------
(* LockHead::migratePartitionedLockHeads, run by a thread t that owns the   *)
(* bucket mutex: lock(), convert() or the cleaner.                          *)

Migrating(t) ==
    /\ pc[t] \in {"lockMigrate", "convertMigrate", "cleanupMigrate"}
    /\ PartitionedHead

back == partitions[Len(partitions)]

MigrateLockPartition(t) ==
    /\ Migrating(t)
    /\ partitionMutex[back] = Nobody
    /\ partitionMutex' = [partitionMutex EXCEPT ![back] = t]
    /\ UNCHANGED <<pc, reqVars, headVars, plhVars, bucketMutex, scanVars>>

\* Moves the front request of the partition to the lock head.
MigrateRequest(t) ==
    /\ Migrating(t)
    /\ partitionMutex[back] = t
    /\ plhGrantedList[back] # <<>>
    /\ LET l == Head(plhGrantedList[back]) IN
         newRequestWaits(l) \/ newRequestGranted(l)
    /\ plhGrantedList' = [plhGrantedList EXCEPT ![back] = Tail(@)]
    /\ UNCHANGED <<pc, mode, convertMode, recursiveCount, partitioned, compatibleFirst,
                   newMode, notified, headExists, partitions, plhExists, mutexVars,
                   scanVars>>

\* Deletes the emptied PartitionedLockHead and pops the partition.
MigrateUnlockPartition(t) ==
    /\ Migrating(t)
    /\ partitionMutex[back] = t
    /\ plhGrantedList[back] = <<>>
    /\ plhExists' = [plhExists EXCEPT ![back] = FALSE]
    /\ partitionMutex' = [partitionMutex EXCEPT ![back] = Nobody]
    /\ partitions' = SubSeq(partitions, 1, Len(partitions) - 1)
    /\ UNCHANGED <<pc, reqVars, headExists, grantedVars, conflictVars, plhGrantedList,
                   bucketMutex, scanVars>>

-----------------------------------------------------------------------------
(* LockerImpl::_lockBegin and LockManager::convert for an existing request. *)

CanConvert(l) ==
    /\ pc[l] = "idle"
    /\ recursiveCount[l] \in 1..(MaxRecursion - 1)

\* Fast path: the mode held already covers the one asked for.
ConvertCovered(l, m) ==
    /\ CanConvert(l)
    /\ isModeCovered(m, mode[l])
    /\ recursiveCount' = [recursiveCount EXCEPT ![l] = @ + 1]
    /\ compatibleFirst' = [compatibleFirst EXCEPT ![l] = @ \/ HasPriority(m)]
    /\ clearNotification(l)
    /\ UNCHANGED <<pc, status, mode, convertMode, partitioned, newMode, headVars,
                   plhVars, mutexVars, scanVars>>

\* Unrelated modes (S -> IX) are not supported: the callers never ask for them.
ConvertBegin(l, m) ==
    /\ CanConvert(l)
    /\ ~isModeCovered(m, mode[l])
    /\ isModeCovered(mode[l], m)
    /\ recursiveCount' = [recursiveCount EXCEPT ![l] = @ + 1]
    /\ compatibleFirst' = [compatibleFirst EXCEPT ![l] = @ \/ HasPriority(m)]
    /\ clearNotification(l)
    /\ newMode' = [newMode EXCEPT ![l] = m]
    /\ goto(l, "convertBucket")
    /\ UNCHANGED <<status, mode, convertMode, partitioned, headVars, plhVars,
                   mutexVars, scanVars>>

ConvertMigrate(l) ==
    /\ pc[l] = "convertBucket"
    /\ bucketMutex = Nobody
    /\ PartitionedHead
    /\ bucketMutex' = l
    /\ goto(l, "convertMigrate")
    /\ UNCHANGED <<reqVars, headVars, plhVars, partitionMutex, scanVars>>

\* The rest of convert(), with the bucket mutex and nothing to migrate.
Convert(l) ==
    LET blocked == conflicts(newMode[l], grantedModesWithout(l, {mode[l]})) IN
    /\ \/ pc[l] = "convertBucket" /\ bucketMutex = Nobody
       \/ pc[l] = "convertMigrate"
    /\ ~PartitionedHead
    /\ IF blocked
       THEN /\ status' = [status EXCEPT ![l] = "CONVERTING"]
            /\ convertMode' = [convertMode EXCEPT ![l] = newMode[l]]
            /\ conversionsCount' = conversionsCount + 1
            /\ grantedCounts' = Inc(grantedCounts, newMode[l])
            /\ goto(l, "wait")
            /\ UNCHANGED mode
       ELSE /\ grantedCounts' = Dec(Inc(grantedCounts, newMode[l]), mode[l])
            /\ mode' = [mode EXCEPT ![l] = newMode[l]]
            /\ goto(l, "idle")
            /\ UNCHANGED <<status, convertMode, conversionsCount>>
    /\ newMode' = [newMode EXCEPT ![l] = MODE_NONE]
    /\ bucketMutex' = Nobody
    /\ UNCHANGED <<recursiveCount, partitioned, compatibleFirst, notified, headExists,
                   partitions, grantedList, compatibleFirstCount, conflictVars, plhVars,
                   partitionMutex, scanVars>>

-----------------------------------------------------------------------------
(* LockerImpl::_lockComplete. *)

WaitGranted(l) ==
    /\ pc[l] = "wait"
    /\ notified[l]
    /\ goto(l, "idle")
    /\ UNCHANGED <<reqVars, headVars, plhVars, mutexVars, scanVars>>

\* LockManager::unlock up to its first mutex: the reference count is dropped and the
\* status is read without synchronization.
UnlockBegin(l) ==
    /\ recursiveCount' = [recursiveCount EXCEPT ![l] = @ - 1]
    /\ goto(l, IF status[l] = "GRANTED" /\ recursiveCount[l] > 1 THEN "idle"
               ELSE IF partitioned[l] THEN "unlockPartition"
               ELSE "unlockBucket")
    /\ UNCHANGED <<status, mode, convertMode, partitioned, compatibleFirst, newMode,
                   notified, headVars, plhVars, partitionMutex, scanVars>>

\* unlockOnErrorGuard: the wait timed out or was interrupted; an interrupt is
\* honoured even when the grant has just arrived.
WaitAbandoned(l) ==
    /\ pc[l] = "wait"
    /\ recursiveCount[l] = 1 \/ AbandonConversions
    /\ UnlockBegin(l)
    /\ IF status[l] = "CONVERTING" /\ ~GrantRacesAbandon
       THEN bucketMutex = Nobody /\ bucketMutex' = l
       ELSE UNCHANGED bucketMutex

-----------------------------------------------------------------------------
(* LockManager::unlock, LockManager::downgrade. *)

Unlock(l) ==
    /\ pc[l] = "idle"
    /\ recursiveCount[l] > 0
    /\ UnlockBegin(l)
    /\ UNCHANGED bucketMutex

UnlockPartition(l) ==
    LET p == PartitionOf[l] IN
    /\ pc[l] = "unlockPartition"
    /\ partitionMutex[p] = Nobody
    /\ IF l \in Linked(plhGrantedList[p])
       THEN /\ plhGrantedList' = [plhGrantedList EXCEPT ![p] = remove(@, l)]
            /\ ForgetRequest(l)
            /\ goto(l, "idle")
       ELSE /\ goto(l, "unlockBucket")
            /\ UNCHANGED <<plhGrantedList, status, mode, partitioned, compatibleFirst>>
    /\ UNCHANGED <<convertMode, recursiveCount, newMode, notified, headVars, plhExists,
                   mutexVars, scanVars>>

\* Call of _onLockModeChanged; the bucket mutex stays with the caller.
onLockModeChanged(l, check) ==
    /\ bucketMutex' = l
    /\ iter' = 1
    /\ checkConflictQueue' = check
    /\ newlyCompatibleFirst' = FALSE
    /\ goto(l, "grantConversions")

UnlockGranted(l) ==
    /\ pc[l] = "unlockBucket"
    /\ bucketMutex = Nobody
    /\ status[l] = "GRANTED"
    /\ grantedList' = remove(grantedList, l)
    /\ grantedCounts' = Dec(grantedCounts, mode[l])
    /\ compatibleFirstCount' = compatibleFirstCount - IF compatibleFirst[l] THEN 1 ELSE 0
    /\ onLockModeChanged(l, grantedCounts[mode[l]] = 1)
    /\ UNCHANGED <<reqVars, headExists, partitions, conversionsCount, conflictVars,
                   plhVars, partitionMutex>>

UnlockWaiting(l) ==
    /\ pc[l] = "unlockBucket"
    /\ bucketMutex = Nobody
    /\ status[l] = "WAITING"
    /\ conflictList' = remove(conflictList, l)
    /\ conflictCounts' = Dec(conflictCounts, mode[l])
    /\ onLockModeChanged(l, TRUE)
    /\ UNCHANGED <<reqVars, headExists, partitions, grantedVars, plhVars, partitionMutex>>

\* convertMode is reset to MODE_NONE before its count is read, and grantedCounts of
\* MODE_NONE is always 0: the conflict queue is always checked.
UnlockConverting(l) ==
    /\ pc[l] = "unlockBucket"
    /\ bucketMutex \in {Nobody, l}
    /\ status[l] = "CONVERTING"
    /\ status' = [status EXCEPT ![l] = "GRANTED"]
    /\ conversionsCount' = conversionsCount - 1
    /\ grantedCounts' = Dec(grantedCounts, convertMode[l])
    /\ convertMode' = [convertMode EXCEPT ![l] = MODE_NONE]
    /\ onLockModeChanged(l, TRUE)
    /\ UNCHANGED <<mode, recursiveCount, partitioned, compatibleFirst, newMode, notified,
                   headExists, partitions, grantedList, compatibleFirstCount,
                   conflictVars, plhVars, partitionMutex>>

\* Callers downgrade strong modes only, so the request is on the lock head.
Downgrade(l, m) ==
    /\ pc[l] = "idle"
    /\ recursiveCount[l] > 0
    /\ mode[l] \in Mode \ IntentModes
    /\ isModeCovered(m, mode[l])
    /\ m # mode[l]
    /\ bucketMutex = Nobody
    /\ grantedCounts' = Dec(Inc(grantedCounts, m), mode[l])
    /\ mode' = [mode EXCEPT ![l] = m]
    /\ onLockModeChanged(l, TRUE)
    /\ UNCHANGED <<status, convertMode, recursiveCount, partitioned, compatibleFirst,
                   newMode, notified, headExists, partitions, grantedList,
                   conversionsCount, compatibleFirstCount, conflictVars, plhVars,
                   partitionMutex>>

-----------------------------------------------------------------------------
(* LockManager::_onLockModeChanged, one loop iteration per step. *)

\* (mutant) misses the last request of the list
MoreConversions_ButLast == iter < Len(grantedList) /\ conversionsCount > 0

MoreConversions == iter <= Len(grantedList) /\ conversionsCount > 0

Convertible(q) ==
    /\ status[q] = "CONVERTING"
    /\ ~conflicts(convertMode[q], grantedModesWithout(q, {mode[q], convertMode[q]}))

GrantConversion(l) ==
    LET q == grantedList[iter] IN
    /\ pc[l] = "grantConversions"
    /\ MoreConversions
    /\ Convertible(q)
    /\ conversionsCount' = conversionsCount - 1
    /\ grantedCounts' = Dec(grantedCounts, mode[q])
    /\ status' = [status EXCEPT ![q] = "GRANTED"]
    /\ mode' = [mode EXCEPT ![q] = convertMode[q]]
    /\ convertMode' = [convertMode EXCEPT ![q] = MODE_NONE]
    /\ notified' = [notified EXCEPT ![q] = TRUE]
    /\ iter' = iter + 1
    /\ UNCHANGED <<pc, recursiveCount, partitioned, compatibleFirst, newMode, headExists,
                   partitions, grantedList, compatibleFirstCount, conflictVars, plhVars,
                   mutexVars, checkConflictQueue, newlyCompatibleFirst>>

SkipConversion(l) ==
    /\ pc[l] = "grantConversions"
    /\ MoreConversions
    /\ ~Convertible(grantedList[iter])
    /\ iter' = iter + 1
    /\ UNCHANGED <<pc, reqVars, headVars, plhVars, mutexVars, checkConflictQueue,
                   newlyCompatibleFirst>>

ConversionsDone(l) ==
    /\ pc[l] = "grantConversions"
    /\ ~MoreConversions
    /\ iter' = 1
    /\ goto(l, "grantWaiters")
    /\ UNCHANGED <<reqVars, headVars, plhVars, mutexVars, checkConflictQueue,
                   newlyCompatibleFirst>>

\* (mutant) everything is compatible after the switch to compatibleFirst
Blocked_Before(i) == ~newlyCompatibleFirst /\ conflicts(mode[conflictList[i]], grantedModes)

Blocked(i) == conflicts(mode[conflictList[i]], grantedModes)

\* The front of the queue is not passed over, except right after the switch to
\* compatibleFirst.
StopsAt(i) == Blocked(i) /\ i = 1 /\ ~newlyCompatibleFirst

\* (mutant) misses the last request of the queue
MoreWaiters_ButLast ==
    /\ checkConflictQueue
    /\ iter < Len(conflictList)
    /\ ~StopsAt(iter)

MoreWaiters ==
    /\ checkConflictQueue
    /\ iter <= Len(conflictList)
    /\ ~StopsAt(iter)

\* Granting MODE_X ends the loop: iter is put past the end of the shortened list.
GrantWaiter(l) ==
    LET q == conflictList[iter] IN
    /\ pc[l] = "grantWaiters"
    /\ MoreWaiters
    /\ ~Blocked(iter)
    /\ status' = [status EXCEPT ![q] = "GRANTED"]
    /\ conflictList' = RemoveAt(conflictList, iter)
    /\ conflictCounts' = Dec(conflictCounts, mode[q])
    /\ grantedList' = push_back(grantedList, q)
    /\ grantedCounts' = Inc(grantedCounts, mode[q])
    /\ compatibleFirstCount' = compatibleFirstCount + IF compatibleFirst[q] THEN 1 ELSE 0
    /\ newlyCompatibleFirst' = (newlyCompatibleFirst
                                \/ (compatibleFirst[q] /\ compatibleFirstCount = 0))
    /\ notified' = [notified EXCEPT ![q] = TRUE]
    /\ iter' = IF mode[q] = "X" THEN Len(conflictList) ELSE iter
    /\ UNCHANGED <<pc, mode, convertMode, recursiveCount, partitioned, compatibleFirst,
                   newMode, headExists, partitions, conversionsCount, plhVars, mutexVars,
                   checkConflictQueue>>

SkipWaiter(l) ==
    /\ pc[l] = "grantWaiters"
    /\ MoreWaiters
    /\ Blocked(iter)
    /\ iter' = iter + 1
    /\ UNCHANGED <<pc, reqVars, headVars, plhVars, mutexVars, checkConflictQueue,
                   newlyCompatibleFirst>>

\* End of _onLockModeChanged and of its caller; unlock() returns whether this was the
\* last reference, and then _unlockImpl removes the request from the locker.
LockModeChangedDone(l) ==
    /\ pc[l] = "grantWaiters"
    /\ ~MoreWaiters
    /\ IF recursiveCount[l] = 0
       THEN ForgetRequest(l)
       ELSE UNCHANGED <<status, mode, partitioned, compatibleFirst>>
    /\ bucketMutex' = Nobody
    /\ goto(l, "idle")
    /\ iter' = 1
    /\ checkConflictQueue' = FALSE
    /\ newlyCompatibleFirst' = FALSE
    /\ UNCHANGED <<convertMode, recursiveCount, newMode, notified, headVars, plhVars,
                   partitionMutex>>

-----------------------------------------------------------------------------
(* LockManager::_cleanupUnusedLocksInBucket, run by the UnusedLockCleaner   *)
(* and by the lockInfo command.                                             *)

CleanupMigrate ==
    /\ pc[Cleaner] = "idle"
    /\ bucketMutex = Nobody
    /\ PartitionedHead
    /\ bucketMutex' = Cleaner
    /\ goto(Cleaner, "cleanupMigrate")
    /\ UNCHANGED <<reqVars, headVars, plhVars, partitionMutex, scanVars>>

Cleanup ==
    /\ \/ pc[Cleaner] = "idle" /\ bucketMutex = Nobody
       \/ pc[Cleaner] = "cleanupMigrate"
    /\ headExists
    /\ ~PartitionedHead
    /\ headExists' = (grantedModes # {})
    /\ bucketMutex' = Nobody
    /\ goto(Cleaner, "idle")
    /\ UNCHANGED <<reqVars, partitions, grantedVars, conflictVars, plhVars,
                   partitionMutex, scanVars>>

-----------------------------------------------------------------------------
\* No caller upgrades Global, PBWM or RSTL to S or X: the request would be marked
\* compatibleFirst without being counted in compatibleFirstCount.
upgradeModes == {m \in UpgradeModes : priorityResource => m \in IntentModes}

LockerNext(l) ==
    \/ \E m \in AcquireModes : LockBegin(l, m)
    \/ \E m \in upgradeModes : ConvertCovered(l, m) \/ ConvertBegin(l, m)
    \/ \E m \in AcquireModes : Downgrade(l, m)
    \/ LockPartition(l) \/ LockStartPartition(l) \/ LockMigrate(l) \/ LockNewRequest(l)
    \/ ConvertMigrate(l) \/ Convert(l)
    \/ WaitGranted(l) \/ WaitAbandoned(l)
    \/ Unlock(l) \/ UnlockPartition(l)
    \/ UnlockGranted(l) \/ UnlockWaiting(l) \/ UnlockConverting(l)
    \/ GrantConversion(l) \/ SkipConversion(l) \/ ConversionsDone(l)
    \/ GrantWaiter(l) \/ SkipWaiter(l) \/ LockModeChangedDone(l)

MigrateNext(t) ==
    MigrateLockPartition(t) \/ MigrateRequest(t) \/ MigrateUnlockPartition(t)

sameResource == UNCHANGED priorityResource

Next ==
    /\ \/ \E l \in Locker : LockerNext(l)
       \/ \E t \in Thread : MigrateNext(t)
       \/ CleanupMigrate \/ Cleanup
    /\ sameResource

Spec == Init /\ [][Next]_vars

-----------------------------------------------------------------------------
(* Fairness.  Locks are held by scoped objects, so an outermost scope ends and its   *)
(* final unlock runs (Unlock, LastUnlock); a thread inside the lock manager keeps    *)
(* running, and a mutex that keeps becoming free is eventually obtained: strong      *)
(* fairness of Progress.  Nothing obliges a locker to start a lock, to upgrade, to   *)
(* downgrade or to give up waiting.                                                  *)
LastUnlock(l) == recursiveCount[l] = 1 /\ Unlock(l)

Progress(l) ==
    \/ LockPartition(l) \/ LockStartPartition(l) \/ LockMigrate(l) \/ LockNewRequest(l)
    \/ ConvertMigrate(l) \/ Convert(l) \/ MigrateNext(l) \/ WaitGranted(l)
    \/ UnlockPartition(l) \/ UnlockGranted(l) \/ UnlockWaiting(l) \/ UnlockConverting(l)
    \/ GrantConversion(l) \/ SkipConversion(l) \/ ConversionsDone(l)
    \/ GrantWaiter(l) \/ SkipWaiter(l) \/ LockModeChangedDone(l)

CleanerProgress == MigrateNext(Cleaner) \/ (pc[Cleaner] = "cleanupMigrate" /\ Cleanup)

Fairness ==
    /\ \A l \in Locker :
        /\ SF_vars(sameResource /\ Progress(l))
        /\ WF_vars(sameResource /\ Unlock(l))
        /\ SF_vars(sameResource /\ LastUnlock(l))
    /\ WF_vars(sameResource /\ CleanerProgress)

FairSpec == Spec /\ Fairness

-----------------------------------------------------------------------------
(* Type invariant. *)
Count == [Mode -> Nat]
Label == {"idle", "lockPartition", "lockBucket", "lockMigrate", "convertBucket",
          "convertMigrate", "wait", "unlockPartition", "unlockBucket",
          "grantConversions", "grantWaiters", "cleanupMigrate"}

TypeOK ==
    /\ pc \in [Thread -> Label]
    /\ status \in [Locker -> {"NEW", "GRANTED", "WAITING", "CONVERTING"}]
    /\ mode \in [Locker -> Mode \cup {MODE_NONE}]
    /\ convertMode \in [Locker -> Mode \cup {MODE_NONE}]
    /\ recursiveCount \in [Locker -> Nat]
    /\ partitioned \in [Locker -> BOOLEAN]
    /\ compatibleFirst \in [Locker -> BOOLEAN]
    /\ newMode \in [Locker -> Mode \cup {MODE_NONE}]
    /\ notified \in [Locker -> BOOLEAN]
    /\ headExists \in BOOLEAN
    /\ grantedList \in Seq(Locker)
    /\ grantedCounts \in Count
    /\ conflictList \in Seq(Locker)
    /\ conflictCounts \in Count
    /\ partitions \in Seq(Partition)
    /\ conversionsCount \in Nat
    /\ compatibleFirstCount \in Nat
    /\ plhExists \in [Partition -> BOOLEAN]
    /\ plhGrantedList \in [Partition -> Seq(Locker)]
    /\ bucketMutex \in Thread \cup {Nobody}
    /\ partitionMutex \in [Partition -> Thread \cup {Nobody}]
    /\ iter \in Nat \ {0}
    /\ checkConflictQueue \in BOOLEAN
    /\ newlyCompatibleFirst \in BOOLEAN
    /\ priorityResource \in PriorityResources

(* What a locker's owner is entitled to believe: it has references on a request that *)
(* was granted (a blocked upgrade still holds its old mode).                         *)
Holds(l) == recursiveCount[l] > 0 /\ status[l] \in {"GRANTED", "CONVERTING"}

(* No two lockers hold the resource in conflicting modes, whatever mix of partition  *)
(* fast path, migration, upgrade, downgrade and abandoned wait got them there.       *)
MutualExclusion ==
    \A a, b \in Locker :
        a # b /\ Holds(a) /\ Holds(b) => ~conflicts(mode[a], {mode[b]})

(* LockHead: "these counts should exactly match the aggregated modes on the granted  *)
(* list" (converting requests count twice), and likewise for the conflict list and   *)
(* the two counters of the granted queue.                                            *)
CountsMatchLists ==
    LET granted == Linked(grantedList)
        converting == {l \in granted : status[l] = "CONVERTING"}
    IN
    /\ \A m \in Mode :
        /\ grantedCounts[m] = Cardinality({l \in granted : mode[l] = m})
                             + Cardinality({l \in converting : convertMode[l] = m})
        /\ conflictCounts[m] = Cardinality({l \in Linked(conflictList) : mode[l] = m})
    /\ conversionsCount = Cardinality(converting)
    /\ compatibleFirstCount = Cardinality({l \in granted : compatibleFirst[l]})

(* A partitioned lock head has no conflicts and grants intent modes only, so moving  *)
(* a partitioned request to the head always re-grants it (invariant(res == LOCK_OK)  *)
(* in the migration loop); a PartitionedLockHead is always reachable from the head.  *)
PartitionedIsUncontended ==
    /\ PartitionedHead => grantedModes \subseteq IntentModes /\ conflictModes = {}
    /\ \A p \in Partition :
        /\ plhExists[p] => headExists /\ p \in {partitions[i] : i \in 1..Len(partitions)}
        /\ plhGrantedList[p] # <<>> => plhExists[p]

(* Between critical sections nobody waits for nothing: a waiter implies a holder,    *)
(* the front waiter is really blocked unless it jumped the queue ahead of a waiter   *)
(* it conflicts with, and every blocked upgrade is really blocked.  This is what the *)
(* checkConflictQueue and conversionsCount shortcuts must not break; it also makes   *)
(* the assertions of the lock head cleanup hold.                                     *)
NoStrandedWaiter ==
    bucketMutex = Nobody =>
        /\ conflictList # <<>> =>
            /\ grantedList # <<>>
            /\ Blocked(1) \/ compatibleFirst[conflictList[1]]
        /\ \A l \in Linked(grantedList) : ~Convertible(l)
        /\ grantedModes = {} => conversionsCount = 0 /\ compatibleFirstCount = 0

(* A waiting locker has its notification exactly when its request was granted: no    *)
(* lost wakeup, no stale one from an earlier wait, and (with the assertion in        *)
(* CondVarLockGrantNotification::notify) none delivered twice.                       *)
NotifiedIffGranted ==
    /\ \A l \in Locker : pc[l] = "wait" => (notified[l] <=> status[l] = "GRANTED")
    /\ \A l \in Linked(conflictList) : ~notified[l]

(* Fairness to waiters: unless the resource is in compatibleFirst mode, a new        *)
(* request is not granted past a queued request it conflicts with, not even through  *)
(* the partition fast path, which does not look at the queue.                        *)
NoOvertaking ==
    [][\A l \in Locker :
        status[l] = "NEW" /\ status'[l] = "GRANTED" /\ compatibleFirstCount = 0
            => \A w \in Linked(conflictList) : ~conflicts(mode[l], {mode[w]})]_vars

(* unlock(): "The fast path for decrementing multiple references did already ensure  *)
(* request->recursiveCount == 0" when a granted request is taken off the list.       *)
GrantedRemovedOnLastReference ==
    \A l \in Locker :
        pc[l] = "unlockBucket" /\ status[l] = "GRANTED" /\ bucketMutex = Nobody
            => recursiveCount[l] = 0

(* Every wait ends (on resources without queue-jumping requests, where upgrades      *)
(* cannot wait for each other): under Fairness a queued request or upgrade is        *)
(* granted or abandoned.                                                             *)
WaitEnds == \A l \in Locker : pc[l] = "wait" ~> pc[l] # "wait"

(* Refinement: the lock manager implements the abstract lock of ResourceLock.  A     *)
(* locker wants a mode from the start of lock() or convert() until it is granted or  *)
(* gives up, and holds one as defined by Holds.                                      *)
wanted ==
    [l \in Locker |->
        CASE recursiveCount[l] > 0 /\ status[l] \in {"NEW", "WAITING"} -> mode[l]
          [] newMode[l] # MODE_NONE -> newMode[l]
          [] status[l] = "CONVERTING" /\ pc[l] = "wait" -> convertMode[l]
          [] OTHER -> MODE_NONE]
held == [l \in Locker |-> IF Holds(l) THEN mode[l] ELSE MODE_NONE]

Resource == INSTANCE ResourceLock WITH NoMode <- MODE_NONE, Conflicts <- LockConflictsTable
ImplementsResourceLock == Resource!Spec
=============================================================================
