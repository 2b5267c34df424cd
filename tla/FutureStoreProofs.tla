-------------------------- MODULE FutureStoreProofs --------------------------
(***************************************************************************)
(* Safety of FutureStore for any set of futures, callers and keys and any  *)
(* limits: its bookkeeping is exact, and what the interleaved tasks hand   *)
(* to the subscribers is due, delivered once and never forgotten.          *)
(***************************************************************************)
EXTENDS FutureStore, FiniteSetTheorems, FunctionTheorems, TLAPS

\* What a subscription may ask for are sets of futures.
LEMMA AskedAreIds == \A F \in SUBSET Asked : F \in SUBSET Ids
  BY FutureStoreAssumption

\* What the entry of a future says of its background task, and the reverse:
\* an id that was never issued has left no trace, and a cancelled future has
\* no entry and (unless it discards its result) a task that tells nobody.
TaskShape ==
    \A i \in Ids :
        /\ i \notin issued => /\ status[i] = "absent"
                              /\ task[i] = "none"
                              /\ i \notin cancelled
        /\ status[i] = "pending" => task[i] = "executing"
        /\ status[i] = "completed" =>
              /\ task[i] \in {"notify", "yielding", "finishing", "done"}
              /\ i \notin cancelled
        /\ i \in cancelled => status[i] = "absent"
        /\ i \in cancelled /\ ~ discardResult[i] =>
              task[i] \in {"executing", "done"}
        /\ task[i] # "yielding" => matching[i] = {}
        /\ task[i] # "finishing" => finishing[i] = {} /\ failing[i] = {}
        /\ task[i] \in {"none", "executing"} =>
              \A s \in Subs : handed[s][i] = 0

\* A subscription that has not been made yet appears nowhere.
NotYetSubscribed ==
    \A s \in Subs : s >= nextSubscriber =>
        /\ s \notin subscribers
        /\ stream[s] = "none"
        /\ futureIds[s] = {}
        /\ requested[s] = {}
        /\ \A i \in Ids : s \notin matching[i] \cup finishing[i] \cup failing[i]

\* The snapshot of a notification holds subscribers of the future's owner.
SnapshotOfOwner ==
    \A i \in Ids : \A s \in matching[i] : subOwner[s] = owner[i]

\* Where a filtered subscriber stands with each result it asked for: not yet
\* handed and still awaited, or handed and no longer awaited, or handed by a
\* notification that has yet to say so (or found the subscriber gone).
Awaited ==
    \A s \in Subs, i \in Ids :
        /\ i \in requested[s] /\ handed[s][i] = 0 => i \in futureIds[s]
        /\ ~ wild[s] /\ handed[s][i] > 0 =>
              \/ i \notin futureIds[s]
              \/ /\ task[i] = "yielding"
                 /\ s \in matching[i] /\ delivery[i][s] = "enqueued"
              \/ task[i] \in {"finishing", "done"}

\* What the yields of a notification have done so far.
YieldsSoFar ==
    \A i \in Ids : \A s \in matching[i] :
        /\ delivery[i][s] = "enqueued" => handed[s][i] > 0
        /\ delivery[i][s] = "none" /\ ~ wild[s] => handed[s][i] = 0

\* A subscriber is finished only with everything it asked for in its hands.
FinishedComplete ==
    \A i \in Ids : \A s \in finishing[i] :
        ~ wild[s] /\ \A j \in requested[s] : handed[s][j] = 1

\* A wildcard subscriber was handed at once what its minimum sequence makes
\* it refuse from a later notification.
MinimumCovers ==
    /\ \A s \in Subs : minimumSequence[s] <= nextSequence
    /\ \A s \in subscribers, i \in Ids :
          /\ wild[s] /\ subOwner[s] = owner[i]
          /\ status[i] = "completed" /\ sequence[i] < minimumSequence[s]
          => handed[s][i] > 0

\* The completion queue holds at most MaxCompleted entries beyond its offset,
\* and the next completion will be younger than all of them.
WindowBound ==
    /\ Len(completedOrder) - evictionOffset <= MaxCompleted
    /\ \A i \in CompletedIds : sequence[i] < nextSequence

BookInv == TypeOK /\ StoreBookkeeping /\ WindowBound

IInv ==
    /\ BookInv
    /\ TaskShape
    /\ NotYetSubscribed
    /\ SnapshotOfOwner
    /\ HandedOnlyWhatIsDue
    /\ Awaited
    /\ YieldsSoFar
    /\ FinishedComplete
    /\ FilteredExactlyOnce
    /\ MinimumCovers
    /\ NoStrandedWaiter
-----------------------------------------------------------------------------
(***************************************************************************)
(* The operators of evict.                                                 *)
(***************************************************************************)
\* What evict removes from the queue leaves the offset inside it, and leaves
\* at most MaxCompleted entries beyond it.
LEMMA ExcessBound ==
    ASSUME NEW order \in Seq(Ids), evictionOffset \in 0 .. Len(order)
    PROVE  /\ Excess(order) \in Nat
           /\ evictionOffset + Excess(order) \in 0 .. Len(order)
           /\ Len(order) - (evictionOffset + Excess(order)) <= MaxCompleted
  BY FutureStoreAssumption DEF Excess

\* Compaction keeps the entries beyond the offset and their order.
LEMMA CompactedWindow ==
    ASSUME NEW order \in Seq(Ids), NEW offset \in 0 .. Len(order),
           NEW q, q = Compacted(order, offset)
    PROVE  /\ q.order \in Seq(Ids)
           /\ q.offset \in 0 .. Len(q.order)
           /\ Len(q.order) - q.offset = Len(order) - offset
           /\ \A n \in 1 .. Len(order) - offset :
                 q.order[q.offset + n] = order[offset + n]
<1>1. CASE offset > 0 /\ offset >= Len(order) \div 2
  <2> DEFINE rest == SubSeq(order, offset + 1, Len(order))
  <2>1. q.order = rest /\ q.offset = 0
    BY <1>1 DEF Compacted
  <2>2. rest \in Seq(Ids) /\ Len(rest) = Len(order) - offset
    OBVIOUS
  <2>3. \A n \in 1 .. Len(order) - offset : rest[n] = order[offset + n]
    OBVIOUS
  <2> HIDE DEF rest
  <2> QED BY <2>1, <2>2, <2>3
<1>2. CASE ~ (offset > 0 /\ offset >= Len(order) \div 2)
  BY <1>2 DEF Compacted
<1> QED BY <1>1, <1>2
-----------------------------------------------------------------------------
(***************************************************************************)
(* The four ways in which a step changes the store.                        *)
(***************************************************************************)
\* cancel, and removePending of an entry that is still pending.
Withdraw(i) ==
    /\ status[i] = "pending"
    /\ pendingCount' = pendingCount - 1
    /\ status' = [status EXCEPT ![i] = "absent"]
    /\ ReleaseKeys({i})
    /\ UNCHANGED <<sequence, completedOrder, evictionOffset, nextSequence>>

\* Every step leaves the store alone, registers, completes or withdraws.
LEMMA StoreSteps ==
    ASSUME [Next]_vars
    PROVE  \/ UNCHANGED storeVars
           \/ \E i \in Ids, o \in Owners, k \in Keys \cup {NoKey}, d \in BOOLEAN :
                 Register(i, o, k, d)
           \/ \E i \in Ids : status[i] = "pending" /\ Complete(i)
           \/ \E i \in Ids : Withdraw(i)
<1>1. ASSUME NEW i \in Ids, TaskStep(i)
      PROVE  \/ UNCHANGED storeVars
             \/ status[i] = "pending" /\ Complete(i)
             \/ Withdraw(i)
  <2>1. CASE TaskComplete(i)
    BY <2>1 DEF TaskComplete
  <2>2. CASE TaskDiscard(i)
    BY <2>2 DEF TaskDiscard, RemovePending, Withdraw
  <2>3. CASE NotifySnapshot(i) \/ NotifyApply(i) \/ NotifyDone(i)
    BY <2>3 DEF NotifySnapshot, NotifyApply, NotifyDone
  <2>4. ASSUME NEW s \in Subs, NotifyYield(i, s) \/ NotifyFinish(i, s)
        PROVE  UNCHANGED storeVars
    BY <2>4 DEF NotifyYield, NotifyFinish
  <2> QED BY <1>1, <2>1, <2>2, <2>3, <2>4 DEF TaskStep
<1>2. ASSUME NEW i \in Ids, NEW o \in Owners, Cancel(i, o) PROVE Withdraw(i)
  BY <1>2 DEF Cancel, Withdraw
<1>3. ASSUME NEW i \in Ids, NEW o \in Owners, CancelRefused(i, o)
      PROVE  UNCHANGED storeVars
  BY <1>3 DEF CancelRefused, vars
<1>4. ASSUME NEW s \in Subs, NEW o \in Owners, NEW w \in BOOLEAN,
             NEW F \in SUBSET Ids, Subscribe(s, o, w, F)
      PROVE  UNCHANGED storeVars
  BY <1>4 DEF Subscribe
<1>5. ASSUME NEW s \in Subs, Consume(s) \/ OnTermination(s) \/ StreamCancelled(s)
      PROVE  UNCHANGED storeVars
  BY <1>5 DEF Consume, OnTermination, StreamCancelled
<1>6. ASSUME NEW o \in Owners, NEW k \in Keys \cup {NoKey}, RegisterRefused(o, k)
      PROVE  UNCHANGED storeVars
  BY <1>6 DEF RegisterRefused, vars
<1>7. CASE UNCHANGED vars
  BY <1>7 DEF vars
<1> QED BY <1>1, <1>2, <1>3, <1>4, <1>5, <1>6, <1>7, AskedAreIds DEF Next

\* The store's own part of the type invariant.
StoreTypeOK ==
    /\ status \in [Ids -> {"absent", "pending", "completed"}]
    /\ sequence \in [Ids -> Nat]
    /\ keyOf \in [Ids -> Keys \cup {NoKey}]
    /\ keyIndex \in [Keys -> Ids \cup {NoId}]
    /\ completedOrder \in Seq(Ids)
    /\ evictionOffset \in 0 .. Len(completedOrder)
    /\ nextSequence \in Nat
    /\ pendingCount \in 0 .. MaxPending

\* While an entry is pending, the count of them can be decremented.
LEMMA PendingIsCounted ==
    ASSUME StoreTypeOK, PendingCountExact, NEW i \in Ids, status[i] = "pending"
    PROVE  pendingCount >= 1
<1>1. IsFiniteSet(PendingIds) /\ i \in PendingIds
  BY FS_Subset, FutureStoreAssumption DEF PendingIds
<1>2. Cardinality(PendingIds) \in Nat /\ Cardinality(PendingIds) # 0
  BY <1>1, FS_CardinalityType, FS_EmptySet
<1> QED BY <1>2 DEF PendingCountExact

LEMMA StoreTypeStep ==
    StoreTypeOK /\ PendingCountExact /\ [Next]_vars => StoreTypeOK'
<1> SUFFICES ASSUME StoreTypeOK, PendingCountExact, [Next]_vars
             PROVE  StoreTypeOK'
  OBVIOUS
<1>0. \A i \in Ids : status[i] = "pending" => pendingCount - 1 \in 0 .. MaxPending
  BY PendingIsCounted, FutureStoreAssumption DEF StoreTypeOK
<1> USE DEF StoreTypeOK
<1>1. CASE UNCHANGED storeVars
  BY <1>1 DEF storeVars
<1>2. ASSUME NEW i \in Ids, NEW o \in Owners, NEW k \in Keys \cup {NoKey},
             NEW d \in BOOLEAN, Register(i, o, k, d)
      PROVE  StoreTypeOK'
  <2>1. pendingCount' \in 0 .. MaxPending
    BY <1>2, FutureStoreAssumption DEF Register, AtPendingLimit
  <2>2. keyIndex' \in [Keys -> Ids \cup {NoId}]
    BY <1>2 DEF Register
  <2> QED BY <1>2, <2>1, <2>2 DEF Register
<1>3. ASSUME NEW i \in Ids, status[i] = "pending", Complete(i) PROVE StoreTypeOK'
  <2> DEFINE order == Append(completedOrder, i)
             queue == Compacted(order, evictionOffset + Excess(order))
  <2>1. order \in Seq(Ids) /\ evictionOffset \in 0 .. Len(order)
    OBVIOUS
  <2>2. evictionOffset + Excess(order) \in 0 .. Len(order)
    BY <2>1, ExcessBound
  <2> HIDE DEF order
  <2>3. queue.order \in Seq(Ids) /\ queue.offset \in 0 .. Len(queue.order)
    BY <2>1, <2>2, CompactedWindow
  <2>4. completedOrder' = queue.order /\ evictionOffset' = queue.offset
    BY <1>3 DEF Complete, order
  <2> HIDE DEF queue
  <2>5. pendingCount' \in 0 .. MaxPending
    BY <1>0, <1>3 DEF Complete
  <2>6. status' \in [Ids -> {"absent", "pending", "completed"}]
    BY <1>3 DEF Complete
  <2>7. keyOf' \in [Ids -> Keys \cup {NoKey}] /\ keyIndex' \in [Keys -> Ids \cup {NoId}]
    BY <1>3 DEF Complete, ReleaseKeys
  <2>8. sequence' \in [Ids -> Nat] /\ nextSequence' \in Nat
    BY <1>3 DEF Complete
  <2> QED BY <2>3, <2>4, <2>5, <2>6, <2>7, <2>8
<1>4. ASSUME NEW i \in Ids, Withdraw(i) PROVE StoreTypeOK'
  BY <1>0, <1>4 DEF Withdraw, ReleaseKeys
<1> QED BY <1>1, <1>2, <1>3, <1>4, StoreSteps

\* evict removes completed entries only, the one just completed included.
LEMMA EvictedAreCompleted ==
    ASSUME StoreTypeOK, RetentionWindow, NEW i \in Ids
    PROVE  Evicted(Append(completedOrder, i)) \subseteq CompletedIds \cup {i}
<1> DEFINE order == Append(completedOrder, i)
<1>1. /\ order \in Seq(Ids) /\ Len(order) = Len(completedOrder) + 1
      /\ order[Len(order)] = i
      /\ \A n \in 1 .. Len(completedOrder) : order[n] = completedOrder[n]
  BY DEF StoreTypeOK
<1>2. evictionOffset \in 0 .. Len(order)
  BY <1>1 DEF StoreTypeOK
<1> HIDE DEF order
<1>3. /\ Excess(order) \in Nat
      /\ evictionOffset + Excess(order) \in 0 .. Len(order)
  BY <1>1, <1>2, ExcessBound
<1>4. ASSUME NEW n \in 1 .. Excess(order)
      PROVE  order[evictionOffset + n] \in CompletedIds \cup {i}
  <2>1. evictionOffset + n \in 1 .. Len(order)
    BY <1>2, <1>3
  <2>2. CASE evictionOffset + n = Len(order)
    BY <1>1, <2>2
  <2>3. CASE evictionOffset + n # Len(order)
    <3>0. Len(completedOrder) \in Nat /\ evictionOffset \in Nat
      BY DEF StoreTypeOK
    <3>1. evictionOffset + n \in Active
      BY <1>1, <1>3, <2>1, <2>3, <3>0 DEF Active
    <3>2. order[evictionOffset + n] = completedOrder[evictionOffset + n]
      BY <1>1, <2>1, <2>3
    <3> QED BY <3>1, <3>2 DEF RetentionWindow
  <2> QED BY <2>2, <2>3
<1> QED BY <1>4 DEF Evicted, order

\* pendingCount follows the pending entries through every step.
LEMMA CountStep ==
    /\ StoreTypeOK /\ RetentionWindow /\ PendingCountExact /\ TaskShape
    /\ [Next]_vars
    => PendingCountExact'
<1> SUFFICES ASSUME StoreTypeOK, RetentionWindow, PendingCountExact, TaskShape,
                    [Next]_vars
             PROVE  PendingCountExact'
  OBVIOUS
<1>0. IsFiniteSet(PendingIds) /\ Cardinality(PendingIds) \in Nat
  BY FS_Subset, FS_CardinalityType, FutureStoreAssumption DEF PendingIds
<1>1. CASE UNCHANGED storeVars
  BY <1>1 DEF storeVars, PendingCountExact, PendingIds
<1>2. ASSUME NEW i \in Ids, NEW o \in Owners, NEW k \in Keys \cup {NoKey},
             NEW d \in BOOLEAN, Register(i, o, k, d)
      PROVE  PendingCountExact'
  <2>1. PendingIds' = PendingIds \cup {i} /\ i \notin PendingIds
    BY <1>2 DEF Register, PendingIds, TaskShape, StoreTypeOK
  <2>2. pendingCount' = pendingCount + 1
    BY <1>2 DEF Register
  <2> QED BY <1>0, <2>1, <2>2, FS_AddElement DEF PendingCountExact
<1>3. ASSUME NEW i \in Ids, status[i] = "pending", Complete(i)
      PROVE  PendingCountExact'
  <2>1. Evicted(Append(completedOrder, i)) \subseteq CompletedIds \cup {i}
    BY EvictedAreCompleted
  <2>2. PendingIds' = PendingIds \ {i} /\ i \in PendingIds
    BY <1>3, <2>1 DEF Complete, PendingIds, CompletedIds, StoreTypeOK
  <2>3. pendingCount' = pendingCount - 1
    BY <1>3 DEF Complete
  <2> QED BY <1>0, <2>2, <2>3, FS_RemoveElement DEF PendingCountExact
<1>4. ASSUME NEW i \in Ids, Withdraw(i) PROVE PendingCountExact'
  <2>1. PendingIds' = PendingIds \ {i} /\ i \in PendingIds
    BY <1>4 DEF Withdraw, PendingIds, StoreTypeOK
  <2>2. pendingCount' = pendingCount - 1
    BY <1>4 DEF Withdraw
  <2> QED BY <1>0, <2>1, <2>2, FS_RemoveElement DEF PendingCountExact
<1> QED BY <1>1, <1>2, <1>3, <1>4, StoreSteps

\* Both directions of the key index follow an entry that comes or goes.
LEMMA KeyStep ==
    /\ StoreTypeOK /\ RetentionWindow /\ KeyIndexConsistent /\ TaskShape
    /\ [Next]_vars
    => KeyIndexConsistent'
<1> SUFFICES ASSUME StoreTypeOK, RetentionWindow, KeyIndexConsistent, TaskShape,
                    [Next]_vars
             PROVE  KeyIndexConsistent'
  OBVIOUS
<1> USE FutureStoreAssumption DEF StoreTypeOK
<1>0. \A i \in Ids : status[i] = "absent" => keyOf[i] = NoKey
  BY DEF KeyIndexConsistent, KeyTaken
<1>1. CASE UNCHANGED storeVars
  BY <1>1 DEF storeVars, KeyIndexConsistent, KeyTaken
<1>2. ASSUME NEW i \in Ids, NEW o \in Owners, NEW k \in Keys \cup {NoKey},
             NEW d \in BOOLEAN, Register(i, o, k, d)
      PROVE  KeyIndexConsistent'
  <2>1. status[i] = "absent" /\ keyOf[i] = NoKey
    BY <1>0, <1>2 DEF Register, TaskShape
  <2>2. /\ status' = [status EXCEPT ![i] = "pending"]
        /\ keyOf' = [keyOf EXCEPT ![i] = k]
    BY <1>2 DEF Register
  <2>3. CASE k = NoKey
    <3>1. keyIndex' = keyIndex /\ keyOf' = keyOf
      BY <1>2, <2>1, <2>2, <2>3 DEF Register
    <3> QED BY <2>1, <2>2, <3>1 DEF KeyIndexConsistent, KeyTaken
  <2>4. CASE k # NoKey
    <3>1. keyIndex' = [keyIndex EXCEPT ![k] = i] /\ keyIndex[k] = NoId
      BY <1>2, <2>4 DEF Register, KeyTaken
    <3>2. \A j \in Ids : keyOf[j] # k
      BY <2>4, <3>1 DEF KeyIndexConsistent
    <3> QED BY <2>1, <2>2, <2>4, <3>1, <3>2 DEF KeyIndexConsistent, KeyTaken
  <2> QED BY <2>3, <2>4
<1>3. ASSUME NEW S \in SUBSET Ids, ReleaseKeys(S),
             \A j \in Ids : status'[j] = "absent" => j \in S \/ status[j] = "absent"
      PROVE  KeyIndexConsistent'
  <2>1. ASSUME NEW k \in Keys, KeyTaken(k)'
        PROVE  keyOf'[keyIndex'[k]] = k /\ status'[keyIndex'[k]] # "absent"
    <3>1. keyIndex'[k] = keyIndex[k] /\ KeyTaken(k) /\ \A j \in S : keyOf[j] # k
      BY <1>3, <2>1 DEF ReleaseKeys, KeyTaken
    <3>2. keyIndex[k] \in Ids /\ keyOf[keyIndex[k]] = k
            /\ status[keyIndex[k]] # "absent"
      BY <3>1 DEF KeyIndexConsistent, KeyTaken
    <3>3. keyIndex[k] \notin S
      BY <3>1, <3>2
    <3> QED BY <1>3, <3>1, <3>2, <3>3 DEF ReleaseKeys
  <2>2. ASSUME NEW j \in Ids, keyOf'[j] # NoKey PROVE keyIndex'[keyOf'[j]] = j
    <3>1. j \notin S /\ keyOf'[j] = keyOf[j] /\ keyOf[j] \in Keys
      BY <1>3, <2>2 DEF ReleaseKeys
    <3>2. keyIndex[keyOf[j]] = j
      BY <2>2, <3>1 DEF KeyIndexConsistent
    <3>3. \A l \in S : keyOf[l] # keyOf[j]
      BY <2>2, <3>1, <3>2 DEF KeyIndexConsistent
    <3> QED BY <1>3, <3>1, <3>2, <3>3 DEF ReleaseKeys
  <2> QED BY <2>1, <2>2 DEF KeyIndexConsistent
<1>4. ASSUME NEW i \in Ids, status[i] = "pending", Complete(i)
      PROVE  KeyIndexConsistent'
  <2> DEFINE gone == Evicted(Append(completedOrder, i))
  <2>1. gone \in SUBSET Ids
    BY EvictedAreCompleted DEF CompletedIds
  <2>2. ReleaseKeys(gone)
    BY <1>4 DEF Complete
  <2>3. \A j \in Ids : status'[j] = "absent" => j \in gone \/ status[j] = "absent"
    BY <1>4 DEF Complete
  <2> QED BY <1>3, <2>1, <2>2, <2>3
<1>5. ASSUME NEW i \in Ids, Withdraw(i) PROVE KeyIndexConsistent'
  <2>1. \A j \in Ids : status'[j] = "absent" => j \in {i} \/ status[j] = "absent"
    BY <1>5 DEF Withdraw
  <2> QED BY <1>3, <1>5, <2>1 DEF Withdraw
<1> QED BY <1>1, <1>2, <1>4, <1>5, StoreSteps

\* A window of at most MaxCompleted queue entries holds at most that many ids.
LEMMA WindowCardinality ==
    ASSUME NEW q \in Seq(Ids), NEW offset \in 0 .. Len(q),
           Len(q) - offset <= MaxCompleted
    PROVE  Cardinality({q[n] : n \in offset + 1 .. Len(q)}) <= MaxCompleted
<1> DEFINE window == offset + 1 .. Len(q)
           held == {q[n] : n \in window}
           f == [n \in window |-> q[n]]
<1>1. f \in Surjection(window, held)
  BY Fun_IsSurj
<1>2. /\ offset + 1 \in Int /\ Len(q) \in Int
      /\ (IF offset + 1 > Len(q) THEN 0 ELSE Len(q) - (offset + 1) + 1)
            = Len(q) - offset
  OBVIOUS
<1>3. IsFiniteSet(window) /\ Cardinality(window) = Len(q) - offset
  BY <1>2, FS_Interval
<1> HIDE DEF window, held, f
<1>4. IsFiniteSet(held) /\ Cardinality(held) <= Cardinality(window)
  BY <1>1, <1>3, FS_Surjection
<1>5. Cardinality(held) \in Nat /\ Cardinality(window) \in Nat
  BY <1>3, <1>4, FS_CardinalityType
<1>6. Cardinality(held) <= MaxCompleted
  BY <1>3, <1>4, <1>5, FutureStoreAssumption
<1> QED BY <1>6 DEF held, window

\* The completion queue lists the completed entries, oldest first, through
\* completions, evictions and compactions.
LEMMA WindowStep ==
    /\ StoreTypeOK /\ RetentionWindow /\ WindowBound /\ TaskShape
    /\ [Next]_vars
    => RetentionWindow' /\ WindowBound'
<1> SUFFICES ASSUME StoreTypeOK, RetentionWindow, WindowBound, TaskShape,
                    [Next]_vars
             PROVE  RetentionWindow' /\ WindowBound'
  OBVIOUS
<1>1. CASE UNCHANGED storeVars
  BY <1>1 DEF storeVars, RetentionWindow, WindowBound, CompletedIds, Active
<1>2. ASSUME CompletedIds' = CompletedIds,
             UNCHANGED <<sequence, completedOrder, evictionOffset, nextSequence>>
      PROVE  RetentionWindow' /\ WindowBound'
  BY <1>2 DEF RetentionWindow, WindowBound, Active
<1>3. ASSUME NEW i \in Ids, NEW o \in Owners, NEW k \in Keys \cup {NoKey},
             NEW d \in BOOLEAN, Register(i, o, k, d)
      PROVE  RetentionWindow' /\ WindowBound'
  <2>1. CompletedIds' = CompletedIds
    BY <1>3 DEF Register, CompletedIds, TaskShape, StoreTypeOK
  <2> QED BY <1>2, <1>3, <2>1 DEF Register
<1>4. ASSUME NEW i \in Ids, Withdraw(i) PROVE RetentionWindow' /\ WindowBound'
  <2>1. CompletedIds' = CompletedIds
    BY <1>4 DEF Withdraw, CompletedIds, StoreTypeOK
  <2> QED BY <1>2, <1>4, <2>1 DEF Withdraw
<1>5. ASSUME NEW i \in Ids, status[i] = "pending", Complete(i)
      PROVE  RetentionWindow' /\ WindowBound'
  <2> DEFINE order  == Append(completedOrder, i)
             offset == evictionOffset + Excess(order)
             queue  == Compacted(order, offset)
             old    == evictionOffset + 1 .. Len(order)
             kept   == offset + 1 .. Len(order)
  <2>1. /\ order \in Seq(Ids) /\ Len(order) = Len(completedOrder) + 1
        /\ order[Len(order)] = i
        /\ \A n \in 1 .. Len(completedOrder) : order[n] = completedOrder[n]
    BY DEF StoreTypeOK
  <2>2. /\ evictionOffset \in 0 .. Len(order) /\ evictionOffset \in Nat
        /\ Len(order) \in Nat /\ Len(completedOrder) \in Nat
    BY <2>1 DEF StoreTypeOK
  <2>3. /\ completedOrder' = queue.order /\ evictionOffset' = queue.offset
        /\ sequence' = [sequence EXCEPT ![i] = nextSequence]
        /\ nextSequence' = nextSequence + 1
        /\ status' = [j \in Ids |-> IF j \in Evicted(order) THEN "absent"
                                    ELSE IF j = i THEN "completed"
                                    ELSE status[j]]
    BY <1>5 DEF Complete
  <2> HIDE DEF order
  <2>4. /\ Excess(order) \in Nat
        /\ offset \in 0 .. Len(order)
        /\ Len(order) - offset <= MaxCompleted
    BY <2>1, <2>2, ExcessBound
  <2> HIDE DEF queue
  <2>5. /\ queue.order \in Seq(Ids)
        /\ queue.offset \in 0 .. Len(queue.order)
        /\ Len(queue.order) - queue.offset = Len(order) - offset
        /\ \A n \in 1 .. Len(order) - offset :
              queue.order[queue.offset + n] = order[offset + n]
    BY <2>1, <2>4, CompactedWindow, SMTT(30) DEF queue
  <2>51. /\ queue.offset \in Nat /\ Len(queue.order) \in Nat /\ offset \in Nat
         /\ Len(queue.order) - queue.offset = Len(order) - offset
    BY <2>2, <2>4, <2>5
  <2>6. Evicted(order) = {order[n] : n \in evictionOffset + 1 .. offset}
    <3>1. \A n \in 1 .. Excess(order) :
             evictionOffset + n \in evictionOffset + 1 .. offset
      BY <2>2, <2>4
    <3>2. \A m \in evictionOffset + 1 .. offset :
             /\ m - evictionOffset \in 1 .. Excess(order)
             /\ m = evictionOffset + (m - evictionOffset)
      BY <2>2, <2>4
    <3> QED BY <3>1, <3>2 DEF Evicted
  <2>7. \A n \in old : \/ n = Len(order) /\ order[n] = i
                       \/ /\ n \in Active /\ order[n] = completedOrder[n]
                          /\ order[n] \in CompletedIds /\ order[n] # i
    <3> SUFFICES ASSUME NEW n \in old, n # Len(order)
                 PROVE  /\ n \in Active /\ order[n] = completedOrder[n]
                        /\ order[n] \in CompletedIds /\ order[n] # i
      BY <2>1
    <3>1. n \in Active /\ n \in 1 .. Len(completedOrder)
      BY <2>1, <2>2 DEF Active
    <3>2. order[n] = completedOrder[n] /\ completedOrder[n] \in CompletedIds
      BY <2>1, <3>1 DEF RetentionWindow
    <3> QED BY <1>5, <3>1, <3>2 DEF CompletedIds
  <2>8. \A m, n \in old : m < n => sequence'[order[m]] < sequence'[order[n]]
    <3> SUFFICES ASSUME NEW m \in old, NEW n \in old, m < n
                 PROVE  sequence'[order[m]] < sequence'[order[n]]
      OBVIOUS
    <3>1. /\ m \in Active /\ order[m] = completedOrder[m]
          /\ order[m] \in CompletedIds /\ order[m] # i
      BY <2>2, <2>7
    <3>2. sequence'[order[m]] = sequence[order[m]]
      BY <2>3, <3>1 DEF CompletedIds, StoreTypeOK
    <3>3. CASE n = Len(order)
      <4>1. sequence'[order[n]] = nextSequence
        BY <2>1, <2>3, <3>3 DEF StoreTypeOK
      <4> QED BY <3>1, <3>2, <4>1 DEF WindowBound
    <3>4. CASE n # Len(order)
      <4>1. /\ n \in Active /\ order[n] = completedOrder[n]
            /\ order[n] \in CompletedIds /\ order[n] # i
        BY <2>7, <3>4
      <4>2. sequence'[order[n]] = sequence[order[n]]
        BY <2>3, <4>1 DEF CompletedIds, StoreTypeOK
      <4> QED BY <3>1, <3>2, <4>1, <4>2 DEF RetentionWindow
    <3> QED BY <3>3, <3>4
  <2>9. \A n \in old : order[n] \in Ids /\ sequence'[order[n]] \in Nat
    BY <1>5, <2>3, <2>7 DEF CompletedIds, StoreTypeOK
  <2>10. \A m, n \in old : order[m] = order[n] => m = n
    <3> SUFFICES ASSUME NEW m \in old, NEW n \in old, order[m] = order[n], m # n
                 PROVE  FALSE
      OBVIOUS
    <3>1. m < n \/ n < m
      BY <2>2
    <3> QED BY <2>8, <2>9, <3>1
  <2>11. CompletedIds' = {order[n] : n \in kept}
    <3>0. /\ \A n \in kept : n \in old /\ n \notin evictionOffset + 1 .. offset
          /\ \A n \in evictionOffset + 1 .. offset : n \in old /\ n \notin kept
          /\ \A n \in old : n \in kept \/ n \in evictionOffset + 1 .. offset
      BY <2>2, <2>4
    <3>1. ASSUME NEW j \in CompletedIds' PROVE j \in {order[n] : n \in kept}
      <4>1. j \in Ids /\ j \notin Evicted(order) /\ (j = i \/ j \in CompletedIds)
        BY <2>3, <3>1 DEF CompletedIds
      <4>2. \E n \in old : j = order[n]
        <5>1. CASE j = i
          <6>1. Len(order) \in old
            BY <2>1, <2>2 DEF StoreTypeOK
          <6> QED BY <2>1, <5>1, <6>1
        <5>2. CASE j \in CompletedIds
          <6>1. PICK n \in Active : j = completedOrder[n]
            BY <5>2 DEF RetentionWindow
          <6>2. n \in old /\ n \in 1 .. Len(completedOrder)
            BY <2>1, <2>2, <6>1 DEF Active
          <6> QED BY <2>1, <6>1, <6>2
        <5> QED BY <4>1, <5>1, <5>2
      <4> QED BY <2>6, <3>0, <4>1, <4>2
    <3>2. ASSUME NEW n \in kept PROVE order[n] \in CompletedIds'
      <4>1. n \in old /\ order[n] \in Ids
        BY <2>9, <3>0
      <4>2. order[n] \notin Evicted(order)
        BY <2>6, <2>10, <3>0, <4>1
      <4>3. order[n] = i \/ order[n] \in CompletedIds
        BY <2>7, <4>1
      <4> QED BY <2>3, <4>1, <4>2, <4>3 DEF CompletedIds
    <3> QED BY <3>1, <3>2
  <2>12. \A n \in Active' :
            /\ n + offset - queue.offset \in kept
            /\ completedOrder'[n] = order[n + offset - queue.offset]
    <3> SUFFICES ASSUME NEW n \in Active'
                 PROVE  /\ n + offset - queue.offset \in kept
                        /\ completedOrder'[n] = order[n + offset - queue.offset]
      OBVIOUS
    <3>1. n \in queue.offset + 1 .. Len(queue.order)
      BY <2>3 DEF Active
    <3>2. n - queue.offset \in 1 .. Len(order) - offset
      BY <2>2, <2>51, <3>1, SMTT(30)
    <3>3. queue.order[queue.offset + (n - queue.offset)]
             = order[offset + (n - queue.offset)]
      BY <2>5, <3>2
    <3>4. /\ queue.offset + (n - queue.offset) = n
          /\ offset + (n - queue.offset) = n + offset - queue.offset
      BY <2>2, <2>51, <3>1
    <3>5. n + offset - queue.offset \in kept
      BY <2>2, <2>51, <3>1, SMTT(30)
    <3> QED BY <2>3, <3>3, <3>4, <3>5
  <2>13. \A m \in kept : \E n \in Active' : m = n + offset - queue.offset
    <3> SUFFICES ASSUME NEW m \in kept
                 PROVE  \E n \in Active' : m = n + offset - queue.offset
      OBVIOUS
    <3>1. m - offset + queue.offset \in queue.offset + 1 .. Len(queue.order)
      BY <2>2, <2>51, SMTT(30)
    <3>2. m = (m - offset + queue.offset) + offset - queue.offset
      BY <2>2, <2>51
    <3> QED BY <2>3, <3>1, <3>2 DEF Active
  <2>14. CompletedIds' = {completedOrder'[n] : n \in Active'}
    BY <2>11, <2>12, <2>13
  <2>15. \A m, n \in Active' :
            m < n => sequence'[completedOrder'[m]] < sequence'[completedOrder'[n]]
    <3> SUFFICES ASSUME NEW m \in Active', NEW n \in Active', m < n
                 PROVE  sequence'[completedOrder'[m]] < sequence'[completedOrder'[n]]
      OBVIOUS
    <3>1. m + offset - queue.offset < n + offset - queue.offset
      BY <2>2, <2>3, <2>4, <2>5, SMTT(30) DEF Active
    <3>2. \A l \in kept : l \in old
      BY <2>2, <2>4
    <3> QED BY <2>8, <2>12, <3>1, <3>2
  <2>16. Cardinality(CompletedIds') <= MaxCompleted
    BY <2>3, <2>4, <2>5, <2>14, WindowCardinality DEF Active
  <2>17. \A j \in CompletedIds' : sequence'[j] < nextSequence'
    <3> SUFFICES ASSUME NEW j \in CompletedIds' PROVE sequence'[j] < nextSequence'
      OBVIOUS
    <3>1. j \in Ids /\ (j = i \/ j \in CompletedIds)
      BY <2>3 DEF CompletedIds
    <3> QED BY <2>3, <3>1 DEF WindowBound, StoreTypeOK
  <2> QED BY <2>3, <2>4, <2>5, <2>14, <2>15, <2>16, <2>17
          DEF RetentionWindow, WindowBound
<1> QED BY <1>1, <1>3, <1>4, <1>5, StoreSteps
-----------------------------------------------------------------------------
(***************************************************************************)
(* Typing and the shape of tasks and subscriptions.                        *)
(***************************************************************************)
\* What a yield does: nothing but to report a stream that takes no more, or
\* to put the result in the buffer.
LEMMA YieldCases ==
    ASSUME NEW s \in Subs, NEW i \in Ids, NEW result, Yield(s, i, result)
    PROVE  \/ result \in {"terminated", "dropped"} /\ UNCHANGED <<buffered, handed>>
           \/ /\ result = "enqueued" /\ buffered[s] # BufferCapacity
              /\ buffered' = [buffered EXCEPT ![s] = @ + 1]
              /\ handed' = [handed EXCEPT ![s][i] = @ + 1]
  BY DEF Yield

\* What the result of a yield says of the history of the subscriber.
LEMMA YieldHands ==
    ASSUME TypeOK, NEW i \in Ids, NEW s \in Subs, NotifyYield(i, s)
    PROVE  \E result \in {"enqueued", "dropped", "terminated"} :
              \A r \in Subs, j \in Ids :
                 /\ delivery'[j][r] = IF j = i /\ r = s THEN result
                                      ELSE delivery[j][r]
                 /\ handed'[r][j] = IF j = i /\ r = s /\ result = "enqueued"
                                    THEN handed[r][j] + 1 ELSE handed[r][j]
<1>1. PICK result \in Yields \ {"none"} :
         /\ Yield(s, i, result)
         /\ delivery' = [delivery EXCEPT ![i][s] = result]
  BY DEF NotifyYield
<1>2. delivery \in [Ids -> [Subs -> Yields]] /\ handed \in [Subs -> [Ids -> Nat]]
  BY DEF TypeOK
<1>3. \A r \in Subs, j \in Ids :
         delivery'[j][r] = IF j = i /\ r = s THEN result ELSE delivery[j][r]
  BY <1>1, <1>2
<1>4. CASE result \in {"terminated", "dropped"} /\ UNCHANGED <<buffered, handed>>
  BY <1>3, <1>4
<1>5. CASE /\ result = "enqueued"
           /\ handed' = [handed EXCEPT ![s][i] = @ + 1]
  <2>1. \A r \in Subs, j \in Ids :
           handed'[r][j] = IF j = i /\ r = s THEN handed[r][j] + 1
                           ELSE handed[r][j]
    BY <1>2, <1>5
  <2> QED BY <1>3, <1>5, <2>1
<1> QED BY <1>1, <1>4, <1>5, YieldCases

LEMMA TypeStep == TypeOK /\ PendingCountExact /\ [Next]_vars => TypeOK'
<1> SUFFICES ASSUME TypeOK, PendingCountExact, [Next]_vars PROVE TypeOK'
  OBVIOUS
<1>0. StoreTypeOK'
  BY StoreTypeStep DEF TypeOK, StoreTypeOK
<1>a. \A s \in Subs :
         /\ buffered[s] # BufferCapacity => buffered[s] + 1 \in 0 .. BufferCapacity
         /\ buffered[s] > 0 => buffered[s] - 1 \in 0 .. BufferCapacity
  <2>1. BufferCapacity \in Nat /\ \A s \in Subs : buffered[s] \in 0 .. BufferCapacity
    BY FutureStoreAssumption DEF TypeOK
  <2> QED BY <2>1
<1> USE <1>0, FutureStoreAssumption DEF StoreTypeOK, TypeOK
<1>1. ASSUME NEW i \in Ids, NEW o \in Owners, NEW k \in Keys \cup {NoKey},
             NEW d \in BOOLEAN, Register(i, o, k, d)
      PROVE  TypeOK'
  BY <1>1 DEF Register, subVars
<1>2. ASSUME NEW i \in Ids, TaskComplete(i) PROVE TypeOK'
  <2>1. task' = [task EXCEPT ![i] = "notify"] \/ task' = [task EXCEPT ![i] = "done"]
    BY <1>2 DEF TaskComplete
  <2>2. task' \in [Ids -> {"none", "executing", "notify", "yielding",
                           "finishing", "done"}]
    BY <2>1
  <2> QED BY <1>2, <2>2 DEF TaskComplete, subVars, newVars
<1>3. ASSUME NEW i \in Ids, TaskDiscard(i) PROVE TypeOK'
  BY <1>3 DEF TaskDiscard, subVars, newVars
<1>4. ASSUME NEW i \in Ids, NotifySnapshot(i) PROVE TypeOK'
  BY <1>4 DEF NotifySnapshot, subVars, newVars, Yields
<1>5. ASSUME NEW i \in Ids, NEW s \in Subs, NotifyYield(i, s) PROVE TypeOK'
  <2>1. PICK result \in Yields \ {"none"} :
           /\ Yield(s, i, result)
           /\ delivery' = [delivery EXCEPT ![i][s] = result]
    BY <1>5 DEF NotifyYield
  <2>2. delivery' \in [Ids -> [Subs -> Yields]]
    BY <2>1
  <2>3. CASE UNCHANGED <<buffered, handed>>
    BY <1>5, <2>2, <2>3 DEF NotifyYield, subVars, newVars
  <2>4. CASE /\ buffered[s] # BufferCapacity
             /\ buffered' = [buffered EXCEPT ![s] = @ + 1]
             /\ handed' = [handed EXCEPT ![s][i] = @ + 1]
    <3>1. buffered[s] + 1 \in 0 .. BufferCapacity
      BY <1>a, <2>4
    <3>2. buffered' \in [Subs -> 0 .. BufferCapacity]
      BY <2>4, <3>1
    <3>3. handed' \in [Subs -> [Ids -> Nat]]
      BY <2>4, SMTT(30)
    <3> QED BY <1>5, <2>2, <3>2, <3>3 DEF NotifyYield, subVars, newVars
  <2> QED BY <2>1, <2>3, <2>4, YieldCases
<1>6. ASSUME NEW i \in Ids, NotifyApply(i) PROVE TypeOK'
  <2>1. Satisfied(i) \in SUBSET Subs /\ Dropped(i) \in SUBSET Subs
    BY DEF Satisfied, Dropped, Live
  <2> QED BY <1>6, <2>1 DEF NotifyApply, subVars, newVars, Yields
<1>7. ASSUME NEW i \in Ids, NEW s \in Subs, NotifyFinish(i, s) PROVE TypeOK'
  BY <1>7 DEF NotifyFinish, subVars, newVars
<1>8. ASSUME NEW i \in Ids, NotifyDone(i) PROVE TypeOK'
  BY <1>8 DEF NotifyDone, subVars, newVars
<1>9. ASSUME NEW i \in Ids, NEW o \in Owners, Cancel(i, o) PROVE TypeOK'
  BY <1>9 DEF Cancel, subVars, newVars, taskVars
<1>10. ASSUME NEW s \in Subs, NEW o \in Owners, NEW w \in BOOLEAN,
              NEW F \in SUBSET Ids, Subscribe(s, o, w, F)
       PROVE  TypeOK'
  <2>1. Remaining(o, w, F) \in SUBSET Ids
    BY DEF Remaining
  <2>2. nextSubscriber' \in 0 .. MaxSubscribers
    BY <1>10 DEF Subscribe, Subs
  <2>3. /\ stream' \in [Subs -> {"none", "open", "cancelling",
                                 "finished", "failed", "cancelled"}]
        /\ subscribers' \in SUBSET Subs
        /\ futureIds' \in [Subs -> SUBSET Ids]
        /\ minimumSequence' \in [Subs -> Nat]
    <3>1. CASE ~ w /\ Remaining(o, w, F) = {}
      BY <1>10, <3>1 DEF Subscribe
    <3>2. CASE ~ (~ w /\ Remaining(o, w, F) = {})
      <4>1. /\ stream' = [stream EXCEPT ![s] = "open"]
            /\ subscribers' = subscribers \cup {s}
            /\ futureIds' = [futureIds EXCEPT ![s] = Remaining(o, w, F)]
            /\ minimumSequence' = [minimumSequence EXCEPT ![s] =
                                     IF w THEN nextSequence ELSE 0]
        BY <1>10, <3>2 DEF Subscribe
      <4> QED BY <2>1, <4>1
    <3> QED BY <3>1, <3>2
  <2>4. /\ subOwner' \in [Subs -> Owners] /\ wild' \in [Subs -> BOOLEAN]
        /\ requested' \in [Subs -> SUBSET Ids] /\ handed' \in [Subs -> [Ids -> Nat]]
    BY <1>10 DEF Subscribe
  <2> QED BY <1>10, <2>2, <2>3, <2>4 DEF Subscribe, newVars, taskVars
<1>11. ASSUME NEW s \in Subs, Consume(s) PROVE TypeOK'
  <2>1. buffered[s] - 1 \in 0 .. BufferCapacity
    BY <1>a, <1>11 DEF Consume
  <2>2. buffered' \in [Subs -> 0 .. BufferCapacity]
    BY <1>11, <2>1 DEF Consume
  <2> QED BY <1>11, <2>2 DEF Consume, subVars, newVars, taskVars
<1>12. ASSUME NEW s \in Subs, OnTermination(s) \/ StreamCancelled(s) PROVE TypeOK'
  <2>1. /\ stream' \in [Subs -> {"none", "open", "cancelling",
                                 "finished", "failed", "cancelled"}]
        /\ subscribers' \in SUBSET Subs
    BY <1>12 DEF OnTermination, StreamCancelled
  <2>2. CASE OnTermination(s)
    BY <2>1, <2>2 DEF OnTermination, subVars, newVars, taskVars
  <2>3. CASE StreamCancelled(s)
    BY <2>1, <2>3 DEF StreamCancelled, subVars, newVars, taskVars
  <2> QED BY <1>12, <2>2, <2>3
<1>13. CASE UNCHANGED vars
  BY <1>13 DEF vars, subVars, newVars, taskVars
<1> HIDE <1>0, FutureStoreAssumption DEF StoreTypeOK, TypeOK
<1> QED
  BY <1>1, <1>2, <1>3, <1>4, <1>5, <1>6, <1>7, <1>8, <1>9, <1>10, <1>11,
     <1>12, <1>13, AskedAreIds DEF Next, TaskStep, RegisterRefused, CancelRefused

LEMMA TaskShapeStep ==
    TypeOK /\ NotYetSubscribed /\ TaskShape /\ [Next]_vars => TaskShape'
<1> SUFFICES ASSUME TypeOK, NotYetSubscribed, TaskShape, [Next]_vars
             PROVE  TaskShape'
  OBVIOUS
<1>0. ASSUME NEW i \in Ids, NEW s \in Subs, NotifyYield(i, s)
      PROVE  \A r \in Subs, j \in Ids : j # i => handed'[r][j] = handed[r][j]
  BY <1>0, YieldHands
<1> USE DEF TypeOK, TaskShape
<1>1. ASSUME NEW i \in Ids, NEW o \in Owners, NEW k \in Keys \cup {NoKey},
             NEW d \in BOOLEAN, Register(i, o, k, d)
      PROVE  TaskShape'
  BY <1>1 DEF Register
<1>2. ASSUME NEW i \in Ids, TaskComplete(i) PROVE TaskShape'
  <2>1. CASE status[i] = "pending"
    <3>1. /\ task' = [task EXCEPT ![i] = "notify"]
          /\ \A j \in Ids : \/ status'[j] = "absent"
                            \/ j = i /\ status'[j] = "completed"
                            \/ j # i /\ status'[j] = status[j]
      BY <1>2, <2>1 DEF TaskComplete, Complete
    <3> QED BY <1>2, <2>1, <3>1 DEF TaskComplete, newVars
  <2>2. CASE status[i] # "pending"
    BY <1>2, <2>2 DEF TaskComplete, storeVars, newVars
  <2> QED BY <2>1, <2>2
<1>3. ASSUME NEW i \in Ids, TaskDiscard(i) PROVE TaskShape'
  <2>1. \A j \in Ids : status'[j] = "absent" \/ (j # i /\ status'[j] = status[j])
    BY <1>3 DEF TaskDiscard, RemovePending, storeVars
  <2> QED BY <1>3, <2>1 DEF TaskDiscard, newVars
<1>4. ASSUME NEW i \in Ids, NotifySnapshot(i) PROVE TaskShape'
  BY <1>4 DEF NotifySnapshot, storeVars, newVars
<1>5. ASSUME NEW i \in Ids, NEW s \in Subs, NotifyYield(i, s) PROVE TaskShape'
  <2>1. \A r \in Subs, j \in Ids : j # i => handed'[r][j] = handed[r][j]
    BY <1>0, <1>5
  <2>2. /\ task[i] = "yielding"
        /\ UNCHANGED <<status, task, matching, finishing, failing, issued,
                       cancelled, discardResult>>
    BY <1>5 DEF NotifyYield, storeVars, newVars
  <2>3. \A j \in Ids : task'[j] \in {"none", "executing"} =>
           \A r \in Subs : handed'[r][j] = 0
    <3> SUFFICES ASSUME NEW j \in Ids, task'[j] \in {"none", "executing"},
                        NEW r \in Subs
                 PROVE  handed'[r][j] = 0
      OBVIOUS
    <3>1. j # i /\ handed[r][j] = 0
      BY <2>2
    <3>2. handed'[r][j] = handed[r][j]
      BY <2>1, <3>1
    <3> QED BY <3>1, <3>2
  <2> QED BY <2>2, <2>3
<1>6. ASSUME NEW i \in Ids, NotifyApply(i) PROVE TaskShape'
  BY <1>6 DEF NotifyApply, storeVars, newVars
<1>7. ASSUME NEW i \in Ids, NEW s \in Subs, NotifyFinish(i, s) PROVE TaskShape'
  BY <1>7 DEF NotifyFinish, storeVars, newVars
<1>8. ASSUME NEW i \in Ids, NotifyDone(i) PROVE TaskShape'
  BY <1>8 DEF NotifyDone, storeVars, newVars
<1>9. ASSUME NEW i \in Ids, NEW o \in Owners, Cancel(i, o) PROVE TaskShape'
  BY <1>9 DEF Cancel, newVars, taskVars
<1>10. ASSUME NEW s \in Subs, NEW o \in Owners, NEW w \in BOOLEAN,
              NEW F \in SUBSET Ids, Subscribe(s, o, w, F)
       PROVE  TaskShape'
  <2>1. \A r \in Subs, j \in Ids : status[j] # "completed" =>
           handed'[r][j] = 0 \/ handed'[r][j] = handed[r][j]
    BY <1>10 DEF Subscribe, Immediate
  <2> QED BY <1>10, <2>1 DEF Subscribe, storeVars, newVars, taskVars
<1>11. ASSUME NEW s \in Subs, Consume(s) \/ OnTermination(s) \/ StreamCancelled(s)
       PROVE  TaskShape'
  BY <1>11 DEF Consume, OnTermination, StreamCancelled, storeVars, newVars, taskVars
<1>12. CASE UNCHANGED vars
  BY <1>12 DEF vars, storeVars, newVars, taskVars
<1> HIDE DEF TypeOK, TaskShape
<1> QED
  BY <1>1, <1>2, <1>3, <1>4, <1>5, <1>6, <1>7, <1>8, <1>9, <1>10, <1>11,
     <1>12, AskedAreIds DEF Next, TaskStep, RegisterRefused, CancelRefused

LEMMA NotYetSubscribedStep ==
    TypeOK /\ NotYetSubscribed /\ [Next]_vars => NotYetSubscribed'
<1> SUFFICES ASSUME TypeOK, NotYetSubscribed, [Next]_vars PROVE NotYetSubscribed'
  OBVIOUS
<1> USE DEF TypeOK, NotYetSubscribed
<1>1. ASSUME NEW i \in Ids, NEW o \in Owners, NEW k \in Keys \cup {NoKey},
             NEW d \in BOOLEAN, Register(i, o, k, d)
      PROVE  NotYetSubscribed'
  BY <1>1 DEF Register, subVars
<1>2. ASSUME NEW i \in Ids, TaskComplete(i) PROVE NotYetSubscribed'
  BY <1>2 DEF TaskComplete, subVars
<1>3. ASSUME NEW i \in Ids, TaskDiscard(i) PROVE NotYetSubscribed'
  BY <1>3 DEF TaskDiscard, subVars
<1>4. ASSUME NEW i \in Ids, NotifySnapshot(i) PROVE NotYetSubscribed'
  BY <1>4 DEF NotifySnapshot, subVars
<1>5. ASSUME NEW i \in Ids, NEW s \in Subs, NotifyYield(i, s)
      PROVE  NotYetSubscribed'
  BY <1>5 DEF NotifyYield, subVars
<1>6. ASSUME NEW i \in Ids, NotifyApply(i) PROVE NotYetSubscribed'
  <2>1. Satisfied(i) \subseteq matching[i] /\ Dropped(i) \subseteq matching[i]
    BY DEF Satisfied, Dropped, Live
  <2>2. /\ \A s \in Subs : futureIds'[s] \subseteq futureIds[s]
        /\ subscribers' \subseteq subscribers
        /\ \A j \in Ids : /\ matching'[j] \subseteq matching[j]
                          /\ finishing'[j] \subseteq finishing[j] \cup matching[j]
                          /\ failing'[j] \subseteq failing[j] \cup matching[j]
        /\ UNCHANGED <<stream, subVars>>
    BY <1>6, <2>1 DEF NotifyApply
  <2> QED BY <2>2 DEF subVars
<1>7. ASSUME NEW i \in Ids, NEW s \in Subs, NotifyFinish(i, s)
      PROVE  NotYetSubscribed'
  BY <1>7 DEF NotifyFinish, subVars
<1>8. ASSUME NEW i \in Ids, NotifyDone(i) PROVE NotYetSubscribed'
  BY <1>8 DEF NotifyDone, subVars
<1>9. ASSUME NEW i \in Ids, NEW o \in Owners, Cancel(i, o) PROVE NotYetSubscribed'
  BY <1>9 DEF Cancel, subVars, taskVars
<1>10. ASSUME NEW s \in Subs, NEW o \in Owners, NEW w \in BOOLEAN,
              NEW F \in SUBSET Ids, Subscribe(s, o, w, F)
       PROVE  NotYetSubscribed'
  <2>1. s = nextSubscriber /\ nextSubscriber' = nextSubscriber + 1
    BY <1>10 DEF Subscribe
  <2>2. \A r \in Subs : r >= nextSubscriber' => r >= nextSubscriber /\ r # s
    BY <2>1 DEF Subs
  <2>3. \A r \in Subs : r # s =>
           /\ r \in subscribers' <=> r \in subscribers
           /\ stream'[r] = stream[r]
           /\ futureIds'[r] = futureIds[r]
           /\ requested'[r] = requested[r]
    <3>1. CASE ~ w /\ Remaining(o, w, F) = {}
      BY <1>10, <3>1 DEF Subscribe
    <3>2. CASE ~ (~ w /\ Remaining(o, w, F) = {})
      BY <1>10, <3>2 DEF Subscribe
    <3> QED BY <3>1, <3>2
  <2> QED BY <1>10, <2>2, <2>3 DEF Subscribe, taskVars
<1>11. ASSUME NEW s \in Subs, Consume(s) \/ OnTermination(s) \/ StreamCancelled(s)
       PROVE  NotYetSubscribed'
  BY <1>11 DEF Consume, OnTermination, StreamCancelled, subVars, taskVars
<1>12. CASE UNCHANGED vars
  BY <1>12 DEF vars, subVars, taskVars
<1> HIDE DEF TypeOK, NotYetSubscribed
<1> QED
  BY <1>1, <1>2, <1>3, <1>4, <1>5, <1>6, <1>7, <1>8, <1>9, <1>10, <1>11,
     <1>12, AskedAreIds DEF Next, TaskStep, RegisterRefused, CancelRefused
-----------------------------------------------------------------------------
(***************************************************************************)
(* What is handed to whom.                                                 *)
(***************************************************************************)
\* What subscribe does to the other subscriptions (nothing), to its own
\* history, and to a filter of which nothing or something is left.
LEMMA SubscribeFacts ==
    ASSUME TypeOK, NotYetSubscribed, NEW s \in Subs, NEW o \in Owners,
           NEW w \in BOOLEAN, NEW F \in SUBSET Ids, Subscribe(s, o, w, F)
    PROVE  /\ s \notin subscribers
           /\ \A i \in Ids : s \notin matching[i] \cup finishing[i] \cup failing[i]
           /\ \A r \in Subs : r # s =>
                 /\ r \in subscribers' <=> r \in subscribers
                 /\ subOwner'[r] = subOwner[r] /\ wild'[r] = wild[r]
                 /\ requested'[r] = requested[r] /\ futureIds'[r] = futureIds[r]
                 /\ minimumSequence'[r] = minimumSequence[r]
                 /\ stream'[r] = stream[r]
                 /\ \A i \in Ids : handed'[r][i] = handed[r][i]
           /\ subOwner'[s] = o /\ wild'[s] = w /\ requested'[s] = F
           /\ w => F = {}
           /\ \A i \in Ids : handed'[s][i] =
                 IF i \in Immediate(o, w, F) THEN 1 ELSE 0
           /\ \/ /\ s \notin subscribers' /\ stream'[s] = "finished"
                 /\ ~ w /\ F \subseteq Immediate(o, w, F)
                 /\ futureIds'[s] = {}
                 /\ minimumSequence'[s] = minimumSequence[s]
              \/ /\ stream'[s] = "open"
                 /\ futureIds'[s] = F \ Immediate(o, w, F)
                 /\ minimumSequence'[s] = IF w THEN nextSequence ELSE 0
           /\ UNCHANGED <<storeVars, buffered, newVars, taskVars, cancelled>>
<1>1. /\ s \notin subscribers /\ futureIds[s] = {}
      /\ \A i \in Ids : s \notin matching[i] \cup finishing[i] \cup failing[i]
  <2>1. s >= nextSubscriber
    BY DEF Subscribe, TypeOK
  <2> QED BY <2>1 DEF NotYetSubscribed
<1>2. \A r \in Subs : r # s =>
         /\ subOwner'[r] = subOwner[r] /\ wild'[r] = wild[r]
         /\ requested'[r] = requested[r]
         /\ \A i \in Ids : handed'[r][i] = handed[r][i]
  BY DEF Subscribe, TypeOK
<1>3. /\ subOwner'[s] = o /\ wild'[s] = w /\ requested'[s] = F
      /\ \A i \in Ids : handed'[s][i] = IF i \in Immediate(o, w, F) THEN 1 ELSE 0
      /\ w => F = {}
      /\ UNCHANGED <<storeVars, buffered, newVars, taskVars, cancelled>>
  BY DEF Subscribe, TypeOK
<1>4. CASE ~ w /\ Remaining(o, w, F) = {}
  <2>1. /\ stream' = [stream EXCEPT ![s] = "finished"]
        /\ UNCHANGED <<subscribers, futureIds, minimumSequence>>
    BY <1>4 DEF Subscribe
  <2>2. F \subseteq Immediate(o, w, F)
    BY <1>4 DEF Remaining
  <2> QED BY <1>1, <1>2, <1>3, <1>4, <2>1, <2>2 DEF TypeOK
<1>5. CASE ~ (~ w /\ Remaining(o, w, F) = {})
  <2>1. /\ stream' = [stream EXCEPT ![s] = "open"]
        /\ subscribers' = subscribers \cup {s}
        /\ futureIds' = [futureIds EXCEPT ![s] = Remaining(o, w, F)]
        /\ minimumSequence' = [minimumSequence EXCEPT ![s] =
                                 IF w THEN nextSequence ELSE 0]
    BY <1>5 DEF Subscribe
  <2>2. /\ stream'[s] = "open" /\ futureIds'[s] = F \ Immediate(o, w, F)
        /\ minimumSequence'[s] = IF w THEN nextSequence ELSE 0
    BY <2>1 DEF TypeOK, Remaining
  <2>3. \A r \in Subs : r # s =>
           /\ r \in subscribers' <=> r \in subscribers
           /\ futureIds'[r] = futureIds[r] /\ stream'[r] = stream[r]
           /\ minimumSequence'[r] = minimumSequence[r]
    BY <2>1 DEF TypeOK
  <2> QED BY <1>1, <1>2, <1>3, <2>2, <2>3
<1> QED BY <1>4, <1>5

\* Whatever subscribe or a yield hands over is due, and cancel withdraws no
\* future of which anything was handed over.
LEMMA DueStep ==
    /\ TypeOK /\ TaskShape /\ NotYetSubscribed
    /\ SnapshotOfOwner /\ HandedOnlyWhatIsDue /\ [Next]_vars
    => SnapshotOfOwner' /\ HandedOnlyWhatIsDue'
<1> DEFINE Due == SnapshotOfOwner /\ HandedOnlyWhatIsDue
<1> SUFFICES ASSUME TypeOK, TaskShape, NotYetSubscribed, Due, [Next]_vars
             PROVE  Due'
  OBVIOUS
<1>1. ASSUME NEW i \in Ids, NEW o \in Owners, NEW k \in Keys \cup {NoKey},
             NEW d \in BOOLEAN, Register(i, o, k, d)
      PROVE  Due'
  <2>1. task[i] = "none"
    BY <1>1 DEF Register, TaskShape
  <2>2. matching[i] = {} /\ i \notin cancelled /\ \A s \in Subs : handed[s][i] = 0
    BY <1>1, <2>1 DEF Register, TaskShape
  <2>3. /\ UNCHANGED <<matching, subOwner, cancelled, handed>>
        /\ \A j \in Ids : j # i => /\ owner'[j] = owner[j]
                                   /\ discardResult'[j] = discardResult[j]
    BY <1>1 DEF Register, subVars, TypeOK
  <2> QED BY <2>2, <2>3 DEF SnapshotOfOwner, HandedOnlyWhatIsDue
<1>2. ASSUME UNCHANGED <<subOwner, owner, discardResult, cancelled, handed>>,
             \A j \in Ids : matching'[j] \subseteq matching[j]
      PROVE  Due'
  BY <1>2 DEF SnapshotOfOwner, HandedOnlyWhatIsDue
<1>3. ASSUME NEW i \in Ids, NotifySnapshot(i) PROVE Due'
  <2>1. \A j \in Ids : \/ matching'[j] = matching[j]
                       \/ j = i /\ \A s \in matching'[j] : Accepts(s, i)
    BY <1>3 DEF NotifySnapshot, TypeOK
  <2>2. UNCHANGED <<subOwner, owner, discardResult, cancelled, handed>>
    BY <1>3 DEF NotifySnapshot, subVars, newVars
  <2> QED BY <2>1, <2>2 DEF SnapshotOfOwner, HandedOnlyWhatIsDue, Accepts
<1>4. ASSUME NEW i \in Ids, NEW s \in Subs, NotifyYield(i, s) PROVE Due'
  <2>1. \A r \in Subs, j \in Ids : (r # s \/ j # i) => handed'[r][j] = handed[r][j]
    BY <1>4, YieldHands
  <2>2. s \in matching[i] /\ task[i] = "yielding"
    BY <1>4 DEF NotifyYield
  <2>3. UNCHANGED <<subOwner, owner, discardResult, cancelled, matching>>
    BY <1>4 DEF NotifyYield, subVars, newVars
  <2>4. subOwner[s] = owner[i] /\ (i \in cancelled => discardResult[i])
    BY <2>2 DEF SnapshotOfOwner, TaskShape
  <2> QED BY <2>1, <2>3, <2>4 DEF SnapshotOfOwner, HandedOnlyWhatIsDue
<1>5. ASSUME NEW i \in Ids, NotifyApply(i) PROVE Due'
  <2>1. \A j \in Ids : matching'[j] \subseteq matching[j]
    BY <1>5 DEF NotifyApply, TypeOK
  <2> QED BY <1>2, <1>5, <2>1 DEF NotifyApply, subVars, newVars
<1>6. ASSUME NEW i \in Ids, NEW o \in Owners, Cancel(i, o) PROVE Due'
  <2>1. \A s \in Subs : handed[s][i] = 0
    BY <1>6 DEF Cancel, TaskShape
  <2>2. /\ UNCHANGED <<subOwner, owner, discardResult, handed, matching>>
        /\ cancelled' = cancelled \cup {i}
    BY <1>6 DEF Cancel, subVars, newVars, taskVars
  <2> QED BY <2>1, <2>2 DEF SnapshotOfOwner, HandedOnlyWhatIsDue
<1>7. ASSUME NEW s \in Subs, NEW o \in Owners, NEW w \in BOOLEAN,
             NEW F \in SUBSET Ids, Subscribe(s, o, w, F)
      PROVE  Due'
  <2>1. /\ \A i \in Ids : s \notin matching[i]
        /\ \A r \in Subs : r # s => /\ subOwner'[r] = subOwner[r]
                                    /\ \A i \in Ids : handed'[r][i] = handed[r][i]
        /\ subOwner'[s] = o
        /\ \A i \in Ids : handed'[s][i] = IF i \in Immediate(o, w, F) THEN 1 ELSE 0
        /\ UNCHANGED <<owner, discardResult, cancelled, matching>>
    BY <1>7, SubscribeFacts DEF newVars, taskVars
  <2>2. \A i \in Immediate(o, w, F) : owner[i] = o /\ i \notin cancelled
    BY DEF Immediate, TaskShape
  <2>3. \A i \in Ids : matching[i] \subseteq Subs
    BY DEF TypeOK
  <2>4. SnapshotOfOwner'
    BY <2>1, <2>3 DEF SnapshotOfOwner
  <2> QED BY <2>1, <2>2, <2>4 DEF HandedOnlyWhatIsDue
<1>8. ASSUME NEW i \in Ids, TaskComplete(i) \/ TaskDiscard(i) \/ NotifyDone(i)
      PROVE  Due'
  BY <1>2, <1>8 DEF TaskComplete, TaskDiscard, NotifyDone, subVars, newVars
<1>9. ASSUME NEW i \in Ids, NEW s \in Subs, NotifyFinish(i, s) PROVE Due'
  BY <1>2, <1>9 DEF NotifyFinish, subVars, newVars
<1>10. ASSUME NEW s \in Subs, Consume(s) \/ OnTermination(s) \/ StreamCancelled(s)
       PROVE  Due'
  BY <1>2, <1>10 DEF Consume, OnTermination, StreamCancelled, subVars, newVars,
                     taskVars
<1>11. CASE UNCHANGED vars
  BY <1>2, <1>11 DEF vars, subVars, newVars, taskVars
<1> HIDE DEF Due
<1> QED
  BY <1>1, <1>3, <1>4, <1>5, <1>6, <1>7, <1>8, <1>9, <1>10, <1>11, AskedAreIds
     DEF Next, TaskStep, RegisterRefused, CancelRefused

\* The two facts that every step must keep for one subscriber and one future.
AwaitedOf(s, i) ==
    /\ i \in requested[s] /\ handed[s][i] = 0 => i \in futureIds[s]
    /\ ~ wild[s] /\ handed[s][i] > 0 =>
          \/ i \notin futureIds[s]
          \/ /\ task[i] = "yielding"
             /\ s \in matching[i] /\ delivery[i][s] = "enqueued"
          \/ task[i] \in {"finishing", "done"}

\* Every result of a filter is awaited, or handed over exactly once; a stream
\* is finished when the last of them was.
LEMMA FilteredStep ==
    /\ TypeOK /\ TaskShape /\ NotYetSubscribed
    /\ Awaited /\ YieldsSoFar /\ FinishedComplete /\ FilteredExactlyOnce
    /\ [Next]_vars
    => Awaited' /\ YieldsSoFar' /\ FinishedComplete' /\ FilteredExactlyOnce'
<1> DEFINE Goal == Awaited /\ YieldsSoFar /\ FinishedComplete /\ FilteredExactlyOnce
<1> SUFFICES ASSUME TypeOK, TaskShape, NotYetSubscribed, Goal, [Next]_vars
             PROVE  Goal'
  OBVIOUS
<1>0. /\ \A s \in Subs, i \in Ids : handed[s][i] \in Nat
      /\ \A i \in Ids : matching[i] \subseteq Subs /\ finishing[i] \subseteq Subs
      /\ \A s \in Subs : requested[s] \subseteq Ids
  BY DEF TypeOK
<1>1. ASSUME UNCHANGED <<requested, handed, futureIds, wild, matching, delivery,
                         finishing, stream>>,
             NEW i \in Ids, \A s \in Subs : handed[s][i] = 0,
             \A j \in Ids : j # i => task'[j] = task[j]
      PROVE  Goal'
  <2>1. \A s \in Subs, j \in Ids : AwaitedOf(s, j)'
    BY <1>1 DEF Awaited, AwaitedOf
  <2> QED BY <1>1, <2>1
          DEF Awaited, AwaitedOf, YieldsSoFar, FinishedComplete, FilteredExactlyOnce
<1>2. ASSUME UNCHANGED <<requested, handed, futureIds, wild, matching, delivery, task>>,
             \A j \in Ids : finishing'[j] \subseteq finishing[j],
             \A s \in Subs : stream'[s] = "finished" =>
                \/ stream[s] = "finished"
                \/ \E j \in Ids : s \in finishing[j]
      PROVE  Goal'
  <2>1. Awaited' /\ YieldsSoFar' /\ FinishedComplete'
    BY <1>2 DEF Awaited, YieldsSoFar, FinishedComplete
  <2>2. FilteredExactlyOnce'
    BY <1>2 DEF FilteredExactlyOnce, FinishedComplete
  <2> QED BY <2>1, <2>2
<1>3. ASSUME NEW i \in Ids, NEW o \in Owners, NEW k \in Keys \cup {NoKey},
             NEW d \in BOOLEAN, Register(i, o, k, d)
      PROVE  Goal'
  <2>1. \A s \in Subs : handed[s][i] = 0
    BY <1>3 DEF Register, TaskShape
  <2> QED BY <1>1, <1>3, <2>1 DEF Register, subVars, TypeOK
<1>4. ASSUME NEW i \in Ids, TaskComplete(i) \/ TaskDiscard(i) PROVE Goal'
  <2>1. \A s \in Subs : handed[s][i] = 0
    BY <1>4 DEF TaskComplete, TaskDiscard, TaskShape
  <2>2. \A j \in Ids : j # i => task'[j] = task[j]
    BY <1>4 DEF TaskComplete, TaskDiscard, TypeOK
  <2> QED BY <1>1, <1>4, <2>1, <2>2 DEF TaskComplete, TaskDiscard, subVars
<1>5. ASSUME NEW i \in Ids, NotifySnapshot(i) PROVE Goal'
  <2>1. /\ task[i] = "notify" /\ task'[i] = "yielding"
        /\ matching'[i] = {s \in subscribers : Accepts(s, i)}
        /\ \A s \in Subs : delivery'[i][s] = "none"
        /\ \A j \in Ids : j # i => /\ task'[j] = task[j]
                                   /\ matching'[j] = matching[j]
                                   /\ delivery'[j] = delivery[j]
        /\ UNCHANGED <<requested, handed, futureIds, wild, finishing, stream>>
    BY <1>5 DEF NotifySnapshot, subVars, TypeOK
  <2>2. \A s \in Subs : ~ wild[s] /\ i \in futureIds[s] => handed[s][i] = 0
    BY <1>0, <2>1 DEF Awaited
  <2>3. \A s \in Subs, j \in Ids : AwaitedOf(s, j)'
    BY <2>1, <2>2 DEF Awaited, AwaitedOf
  <2>4. \A s \in matching'[i] : s \in Subs /\ (~ wild[s] => i \in futureIds[s])
    BY <2>1 DEF Accepts, TypeOK
  <2>5. YieldsSoFar'
    BY <2>1, <2>2, <2>4 DEF YieldsSoFar
  <2> QED BY <2>1, <2>3, <2>5
          DEF Awaited, AwaitedOf, FinishedComplete, FilteredExactlyOnce
<1>6. ASSUME NEW i \in Ids, NEW s \in Subs, NotifyYield(i, s) PROVE Goal'
  <2>1. PICK result \in {"enqueued", "dropped", "terminated"} :
           \A r \in Subs, j \in Ids :
              /\ delivery'[j][r] = IF j = i /\ r = s THEN result
                                   ELSE delivery[j][r]
              /\ handed'[r][j] = IF j = i /\ r = s /\ result = "enqueued"
                                 THEN handed[r][j] + 1 ELSE handed[r][j]
    BY <1>6, YieldHands
  <2>2. /\ task[i] = "yielding" /\ s \in matching[i] /\ delivery[i][s] = "none"
        /\ UNCHANGED <<requested, futureIds, wild, task, matching, finishing, stream>>
    BY <1>6 DEF NotifyYield, subVars
  <2>3. \A r \in Subs, j \in Ids : j # i \/ r # s =>
           delivery'[j][r] = delivery[j][r] /\ handed'[r][j] = handed[r][j]
    BY <2>1
  <2>4. /\ ~ wild[s] => handed[s][i] = 0
        /\ \/ delivery'[i][s] = "enqueued" /\ handed'[s][i] = handed[s][i] + 1
           \/ /\ delivery'[i][s] \in {"dropped", "terminated"}
              /\ handed'[s][i] = handed[s][i]
    BY <2>1, <2>2 DEF YieldsSoFar
  <2>5. \A r \in Subs, j \in Ids : AwaitedOf(r, j)'
    <3>1. ASSUME NEW r \in Subs, NEW j \in Ids, j # i \/ r # s
          PROVE  AwaitedOf(r, j)'
      BY <2>2, <2>3, <3>1 DEF Awaited, AwaitedOf
    <3>2. AwaitedOf(s, i)'
      BY <1>0, <2>2, <2>4 DEF Awaited, AwaitedOf
    <3> QED BY <3>1, <3>2
  <2>6. YieldsSoFar'
    <3>1. ASSUME NEW j \in Ids, NEW r \in matching[j]
          PROVE  /\ delivery'[j][r] = "enqueued" => handed'[r][j] > 0
                 /\ delivery'[j][r] = "none" /\ ~ wild[r] => handed'[r][j] = 0
      <4>1. r \in Subs
        BY <1>0
      <4>2. CASE j # i \/ r # s
        BY <2>3, <3>1, <4>1, <4>2 DEF YieldsSoFar
      <4>3. CASE j = i /\ r = s
        BY <1>0, <2>4, <4>3
      <4> QED BY <4>2, <4>3
    <3> QED BY <2>2, <3>1 DEF YieldsSoFar
  <2>7. \A r \in Subs, j \in Ids : ~ wild[r] =>
           /\ handed'[r][j] <= 1
           /\ handed[r][j] = 1 => handed'[r][j] = 1
    <3>1. ASSUME NEW r \in Subs, NEW j \in Ids, j # i \/ r # s, ~ wild[r]
          PROVE  handed'[r][j] <= 1 /\ handed'[r][j] = handed[r][j]
      BY <2>3, <3>1 DEF FilteredExactlyOnce
    <3>2. ~ wild[s] => handed'[s][i] <= 1 /\ handed[s][i] = 0
      BY <2>4
    <3> QED BY <3>1, <3>2
  <2>8. FilteredExactlyOnce'
    BY <1>0, <2>2, <2>7 DEF FilteredExactlyOnce
  <2>9. FinishedComplete'
    BY <1>0, <2>2, <2>7 DEF FinishedComplete
  <2> QED BY <2>5, <2>6, <2>8, <2>9 DEF Awaited, AwaitedOf
<1>7. ASSUME NEW i \in Ids, NotifyApply(i) PROVE Goal'
  <2>1. /\ task[i] = "yielding" /\ task'[i] = "finishing"
        /\ matching'[i] = {} /\ finishing'[i] = Satisfied(i)
        /\ \A s \in Subs : futureIds'[s] = IF s \in Live(i, "enqueued")
                                           THEN futureIds[s] \ {i} ELSE futureIds[s]
        /\ \A j \in Ids : j # i => /\ task'[j] = task[j]
                                   /\ matching'[j] = matching[j]
                                   /\ delivery'[j] = delivery[j]
                                   /\ finishing'[j] = finishing[j]
        /\ UNCHANGED <<requested, handed, wild, stream>>
    BY <1>7 DEF NotifyApply, subVars, TypeOK
  <2>2. \A s \in Live(i, "enqueued") : s \in Subs /\ handed[s][i] > 0
    BY <1>0 DEF Live, YieldsSoFar
  <2>3. \A s \in Subs, j \in Ids : AwaitedOf(s, j)'
    <3>1. ASSUME NEW s \in Subs, NEW j \in Ids, j # i PROVE AwaitedOf(s, j)'
      BY <2>1, <3>1, ZenonT(30) DEF Awaited, AwaitedOf
    <3>2. ASSUME NEW s \in Subs PROVE AwaitedOf(s, i)'
      <4>1. handed[s][i] = 0 => futureIds'[s] = futureIds[s]
        <5>1. handed[s][i] = 0 => s \notin Live(i, "enqueued")
          BY <2>2
        <5>2. s \notin Live(i, "enqueued") => futureIds'[s] = futureIds[s]
          BY <2>1
        <5> QED BY <5>1, <5>2
      <4>2. task'[i] \in {"finishing", "done"} /\ UNCHANGED <<requested, handed>>
        BY <2>1
      <4> QED BY <4>1, <4>2 DEF Awaited, AwaitedOf
    <3> QED BY <3>1, <3>2
  <2>4. YieldsSoFar'
    BY <2>1 DEF YieldsSoFar
  <2>5. ASSUME NEW s \in Satisfied(i)
        PROVE  s \in Subs /\ ~ wild[s] /\ \A j \in requested[s] : handed[s][j] = 1
    <3>1. /\ s \in Subs /\ ~ wild[s] /\ futureIds[s] \ {i} = {}
          /\ handed[s][i] > 0
      BY <2>2 DEF Satisfied
    <3>2. ASSUME NEW j \in requested[s] PROVE handed[s][j] = 1
      <4>1. j \in Ids /\ handed[s][j] \in Nat /\ handed[s][j] <= 1
        BY <1>0, <3>1 DEF FilteredExactlyOnce
      <4>2. handed[s][j] # 0
        <5>1. CASE j = i
          BY <3>1, <5>1
        <5>2. CASE j # i
          BY <3>1, <4>1, <5>2 DEF Awaited
        <5> QED BY <5>1, <5>2
      <4> QED BY <4>1, <4>2
    <3> QED BY <3>1, <3>2
  <2>6. FinishedComplete'
    BY <2>1, <2>5 DEF FinishedComplete
  <2>7. FilteredExactlyOnce'
    BY <2>1 DEF FilteredExactlyOnce
  <2> QED BY <2>3, <2>4, <2>6, <2>7 DEF Awaited, AwaitedOf
<1>8. ASSUME NEW i \in Ids, NEW s \in Subs, NotifyFinish(i, s) PROVE Goal'
  <2>1. \A j \in Ids : finishing'[j] \subseteq finishing[j]
    BY <1>8 DEF NotifyFinish, TypeOK
  <2>2. \A r \in Subs : stream'[r] = "finished" =>
           stream[r] = "finished" \/ r \in finishing[i]
    BY <1>8 DEF NotifyFinish, TypeOK
  <2> QED BY <1>2, <1>8, <2>1, <2>2 DEF NotifyFinish, subVars
<1>9. ASSUME NEW i \in Ids, NotifyDone(i) PROVE Goal'
  <2>1. /\ task[i] = "finishing" /\ task'[i] = "done"
        /\ \A j \in Ids : j # i => task'[j] = task[j]
        /\ UNCHANGED <<requested, handed, futureIds, wild, matching, delivery,
                       finishing, stream>>
    BY <1>9 DEF NotifyDone, subVars, TypeOK
  <2>2. \A s \in Subs, j \in Ids : AwaitedOf(s, j)'
    BY <2>1 DEF Awaited, AwaitedOf
  <2> QED BY <2>1, <2>2
          DEF Awaited, AwaitedOf, YieldsSoFar, FinishedComplete, FilteredExactlyOnce
<1>10. ASSUME NEW i \in Ids, NEW o \in Owners, Cancel(i, o) PROVE Goal'
  BY <1>2, <1>10 DEF Cancel, subVars, taskVars
<1>11. ASSUME NEW s \in Subs, NEW o \in Owners, NEW w \in BOOLEAN,
              NEW F \in SUBSET Ids, Subscribe(s, o, w, F)
       PROVE  Goal'
  <2> DEFINE got == Immediate(o, w, F)
  <2>1. /\ \A i \in Ids : s \notin matching[i] \cup finishing[i]
        /\ \A r \in Subs : r # s =>
              /\ wild'[r] = wild[r] /\ requested'[r] = requested[r]
              /\ futureIds'[r] = futureIds[r] /\ stream'[r] = stream[r]
              /\ \A i \in Ids : handed'[r][i] = handed[r][i]
        /\ wild'[s] = w /\ requested'[s] = F
        /\ \A i \in Ids : handed'[s][i] = IF i \in got THEN 1 ELSE 0
        /\ UNCHANGED <<task, matching, delivery, finishing>>
    BY <1>11, SubscribeFacts DEF taskVars
  <2>2. \/ stream'[s] = "finished" /\ F \subseteq got /\ futureIds'[s] = {}
        \/ stream'[s] = "open" /\ futureIds'[s] = F \ got
    BY <1>11, SubscribeFacts
  <2> HIDE DEF got
  <2>3. \A r \in Subs, j \in Ids : AwaitedOf(r, j)'
    <3>1. ASSUME NEW r \in Subs, NEW j \in Ids, r # s PROVE AwaitedOf(r, j)'
      BY <2>1, <3>1 DEF Awaited, AwaitedOf
    <3>2. ASSUME NEW j \in Ids PROVE AwaitedOf(s, j)'
      BY <2>1, <2>2, <3>2 DEF AwaitedOf
    <3> QED BY <3>1, <3>2
  <2>4. YieldsSoFar'
    BY <1>0, <2>1 DEF YieldsSoFar
  <2>5. FinishedComplete'
    BY <1>0, <2>1 DEF FinishedComplete
  <2>6. \A r \in Subs : r # s /\ ~ wild'[r] =>
           /\ \A i \in Ids : handed'[r][i] <= 1
           /\ stream'[r] = "finished" => \A i \in requested'[r] : handed'[r][i] = 1
    BY <1>0, <2>1 DEF FilteredExactlyOnce
  <2>7. /\ \A i \in Ids : handed'[s][i] <= 1
        /\ stream'[s] = "finished" => \A i \in requested'[s] : handed'[s][i] = 1
    BY <2>1, <2>2
  <2>8. FilteredExactlyOnce'
    BY <2>6, <2>7 DEF FilteredExactlyOnce
  <2> QED BY <2>3, <2>4, <2>5, <2>8 DEF Awaited, AwaitedOf
<1>12. ASSUME NEW s \in Subs, Consume(s) \/ OnTermination(s) \/ StreamCancelled(s)
       PROVE  Goal'
  <2>1. \A r \in Subs : stream'[r] = "finished" => stream[r] = "finished"
    BY <1>12 DEF Consume, OnTermination, StreamCancelled, TypeOK
  <2> QED BY <1>2, <1>12, <2>1 DEF Consume, OnTermination, StreamCancelled,
                                   subVars, taskVars
<1>13. CASE UNCHANGED vars
  BY <1>2, <1>13 DEF vars, subVars, taskVars
<1> HIDE DEF Goal
<1> QED
  BY <1>3, <1>4, <1>5, <1>6, <1>7, <1>8, <1>9, <1>10, <1>11, <1>12, <1>13, AskedAreIds
     DEF Next, TaskStep, RegisterRefused, CancelRefused

\* A completed future that a subscriber waits for has a notification to come.
\* The minimum sequence of a wildcard subscriber hides no result from it.
LEMMA WaiterStep ==
    /\ TypeOK /\ TaskShape /\ NotYetSubscribed /\ Awaited /\ YieldsSoFar
    /\ MinimumCovers /\ NoStrandedWaiter /\ [Next]_vars
    => MinimumCovers' /\ NoStrandedWaiter'
<1> DEFINE Goal == MinimumCovers /\ NoStrandedWaiter
<1> SUFFICES ASSUME TypeOK, TaskShape, NotYetSubscribed, Awaited, YieldsSoFar,
                    Goal, [Next]_vars
             PROVE  Goal'
  OBVIOUS
<1>0. /\ \A s \in Subs, i \in Ids : handed[s][i] \in Nat
      /\ \A i \in Ids : matching[i] \subseteq Subs /\ sequence[i] \in Nat
      /\ \A s \in Subs : minimumSequence[s] \in Nat
      /\ subscribers \subseteq Subs /\ nextSequence \in Nat
  BY DEF TypeOK
\* Steps that complete nothing, take no snapshot and add no subscriber.
<1>1. ASSUME UNCHANGED <<subOwner, wild, requested, minimumSequence, handed,
                         sequence, nextSequence>>,
             subscribers' \subseteq subscribers,
             \A j \in Ids : status'[j] = "completed" =>
                /\ status[j] = "completed" /\ owner'[j] = owner[j]
                /\ task'[j] = task[j] /\ matching'[j] = matching[j]
      PROVE  Goal'
  <2>1. MinimumCovers'
    BY <1>1 DEF MinimumCovers
  <2>2. NoStrandedWaiter'
    BY <1>1 DEF NoStrandedWaiter, Concerns
  <2> QED BY <2>1, <2>2
<1>2. ASSUME NEW i \in Ids, NEW o \in Owners, NEW k \in Keys \cup {NoKey},
             NEW d \in BOOLEAN, Register(i, o, k, d)
      PROVE  Goal'
  <2>1. /\ status'[i] = "pending"
        /\ \A j \in Ids : j # i => /\ status'[j] = status[j] /\ owner'[j] = owner[j]
                                   /\ task'[j] = task[j]
    BY <1>2 DEF Register, TypeOK
  <2> QED BY <1>1, <1>2, <2>1 DEF Register, subVars
<1>3. ASSUME NEW i \in Ids, TaskComplete(i) PROVE Goal'
  <2>1. CASE status[i] # "pending"
    <3>1. status[i] # "completed"
      BY <1>3 DEF TaskComplete, TaskShape
    <3>2. \A j \in Ids : status[j] = "completed" => task'[j] = task[j]
      BY <1>3, <2>1, <3>1 DEF TaskComplete, TypeOK
    <3> QED BY <1>1, <1>3, <2>1, <3>2 DEF TaskComplete, storeVars, subVars, newVars
  <2>2. CASE status[i] = "pending"
    <3>1. /\ Complete(i) /\ task' = [task EXCEPT ![i] = "notify"]
          /\ UNCHANGED <<subOwner, wild, requested, minimumSequence, handed,
                         subscribers, owner, matching>>
      BY <1>3, <2>2 DEF TaskComplete, subVars, newVars
    <3>2. /\ nextSequence' = nextSequence + 1 /\ sequence'[i] = nextSequence
          /\ task'[i] = "notify"
          /\ \A j \in Ids : j # i => sequence'[j] = sequence[j] /\ task'[j] = task[j]
          /\ \A j \in Ids : j # i /\ status'[j] = "completed" =>
                status[j] = "completed"
      BY <3>1 DEF Complete, TypeOK
    <3>3. MinimumCovers'
      BY <1>0, <3>1, <3>2 DEF MinimumCovers
    <3>4. NoStrandedWaiter'
      BY <3>1, <3>2 DEF NoStrandedWaiter, Concerns
    <3> QED BY <3>3, <3>4
  <2> QED BY <2>1, <2>2
<1>4. ASSUME NEW i \in Ids, TaskDiscard(i) PROVE Goal'
  <2>1. \A j \in Ids : status'[j] = "completed" => j # i /\ status[j] = "completed"
    BY <1>4 DEF TaskDiscard, RemovePending, storeVars, TaskShape, TypeOK
  <2>2. \A j \in Ids : j # i => task'[j] = task[j]
    BY <1>4 DEF TaskDiscard, TypeOK
  <2>3. UNCHANGED <<sequence, nextSequence>>
    BY <1>4 DEF TaskDiscard, RemovePending, storeVars
  <2> QED BY <1>1, <1>4, <2>1, <2>2, <2>3 DEF TaskDiscard, subVars, newVars
<1>5. ASSUME NEW i \in Ids, NotifySnapshot(i) PROVE Goal'
  <2>1. /\ task'[i] = "yielding"
        /\ matching'[i] = {s \in subscribers : Accepts(s, i)}
        /\ \A j \in Ids : j # i => /\ task'[j] = task[j]
                                   /\ matching'[j] = matching[j]
        /\ UNCHANGED <<subOwner, wild, requested, minimumSequence, handed,
                       sequence, nextSequence, subscribers, status, owner>>
    BY <1>5 DEF NotifySnapshot, storeVars, subVars, newVars, TypeOK
  <2>2. ASSUME NEW s \in subscribers, Concerns(i, s), status[i] = "completed",
               handed[s][i] = 0
        PROVE  Accepts(s, i)
    <3>1. CASE wild[s]
      BY <1>0, <2>2, <3>1 DEF MinimumCovers, Concerns, Accepts
    <3>2. CASE ~ wild[s]
      BY <1>0, <2>2, <3>2 DEF Awaited, Concerns, Accepts
    <3> QED BY <3>1, <3>2
  <2>3. NoStrandedWaiter'
    BY <2>1, <2>2 DEF NoStrandedWaiter, Concerns
  <2>4. MinimumCovers'
    BY <2>1 DEF MinimumCovers
  <2> QED BY <2>3, <2>4
<1>6. ASSUME NEW i \in Ids, NEW s \in Subs, NotifyYield(i, s) PROVE Goal'
  <2>1. \A r \in Subs, j \in Ids : handed[r][j] > 0 \/ handed'[r][j] = 0 =>
           (handed'[r][j] > 0 <=> handed[r][j] > 0)
    BY <1>0, <1>6, YieldHands
  <2>2. \A r \in Subs, j \in Ids : handed'[r][j] = 0 => handed[r][j] = 0
    BY <1>0, <1>6, YieldHands
  <2>3. UNCHANGED <<subOwner, wild, requested, minimumSequence, sequence,
                    nextSequence, subscribers, status, owner, task, matching>>
    BY <1>6 DEF NotifyYield, storeVars, subVars, newVars
  <2>4. MinimumCovers'
    BY <1>0, <2>1, <2>3 DEF MinimumCovers
  <2>5. NoStrandedWaiter'
    BY <1>0, <2>2, <2>3 DEF NoStrandedWaiter, Concerns
  <2> QED BY <2>4, <2>5
<1>7. ASSUME NEW i \in Ids, NotifyApply(i) PROVE Goal'
  <2>1. /\ task[i] = "yielding"
        /\ \A s \in matching[i] : delivery[i][s] \in {"enqueued", "dropped", "terminated"}
        /\ subscribers' = subscribers \ (Satisfied(i) \cup Dropped(i)
                                            \cup Live(i, "terminated"))
        /\ \A j \in Ids : j # i => /\ task'[j] = task[j]
                                   /\ matching'[j] = matching[j]
        /\ UNCHANGED <<subOwner, wild, requested, minimumSequence, handed,
                       sequence, nextSequence, status, owner>>
    BY <1>7 DEF NotifyApply, storeVars, subVars, newVars, TypeOK, Yields
  <2>2. MinimumCovers'
    BY <2>1 DEF MinimumCovers
  <2>3. ASSUME NEW s \in subscribers', Concerns(i, s), status[i] = "completed",
               handed[s][i] = 0
        PROVE  FALSE
    <3>1. s \in subscribers /\ s \in matching[i]
      BY <2>1, <2>3 DEF NoStrandedWaiter
    <3>2. delivery[i][s] # "enqueued"
      BY <1>0, <2>3, <3>1 DEF YieldsSoFar
    <3> QED BY <2>1, <3>1, <3>2 DEF Dropped, Live
  <2>4. NoStrandedWaiter'
    BY <2>1, <2>3 DEF NoStrandedWaiter, Concerns
  <2> QED BY <2>2, <2>4
<1>8. ASSUME NEW i \in Ids, NotifyDone(i) PROVE Goal'
  <2>1. /\ task[i] = "finishing"
        /\ \A j \in Ids : j # i => task'[j] = task[j]
        /\ UNCHANGED <<subOwner, wild, requested, minimumSequence, handed,
                       sequence, nextSequence, subscribers, status, owner, matching>>
    BY <1>8 DEF NotifyDone, storeVars, subVars, newVars, TypeOK
  <2>2. MinimumCovers'
    BY <2>1 DEF MinimumCovers
  <2>3. NoStrandedWaiter'
    BY <2>1 DEF NoStrandedWaiter, Concerns
  <2> QED BY <2>2, <2>3
<1>9. ASSUME NEW i \in Ids, NEW s \in Subs, NotifyFinish(i, s) PROVE Goal'
  BY <1>1, <1>9 DEF NotifyFinish, storeVars, subVars, newVars
<1>10. ASSUME NEW i \in Ids, NEW o \in Owners, Cancel(i, o) PROVE Goal'
  <2>1. \A j \in Ids : status'[j] = "completed" => status[j] = "completed"
    BY <1>10 DEF Cancel, TypeOK
  <2> QED BY <1>1, <1>10, <2>1 DEF Cancel, subVars, newVars, taskVars
<1>11. ASSUME NEW s \in Subs, NEW o \in Owners, NEW w \in BOOLEAN,
              NEW F \in SUBSET Ids, Subscribe(s, o, w, F)
       PROVE  Goal'
  <2>1. /\ \A r \in Subs : r # s =>
              /\ r \in subscribers' <=> r \in subscribers
              /\ subOwner'[r] = subOwner[r] /\ wild'[r] = wild[r]
              /\ requested'[r] = requested[r]
              /\ minimumSequence'[r] = minimumSequence[r]
              /\ \A i \in Ids : handed'[r][i] = handed[r][i]
        /\ UNCHANGED <<status, sequence, nextSequence, owner, task, matching>>
    BY <1>11, SubscribeFacts DEF storeVars, newVars, taskVars
  <2>2. /\ subOwner'[s] = o /\ wild'[s] = w /\ requested'[s] = F
        /\ \A i \in Ids : handed'[s][i] = IF i \in Immediate(o, w, F) THEN 1 ELSE 0
        /\ \/ minimumSequence'[s] = minimumSequence[s]
           \/ minimumSequence'[s] = IF w THEN nextSequence ELSE 0
    BY <1>11, SubscribeFacts
  <2>3. subscribers' \subseteq Subs
    BY <1>0, <1>11 DEF Subscribe
  <2>4. \A i \in Ids : /\ status[i] = "completed" /\ owner[i] = o
                       /\ (w \/ i \in F)
                       => handed'[s][i] = 1
    BY <2>2 DEF Immediate
  <2>5. MinimumCovers'
    <3>1. \A r \in Subs : minimumSequence'[r] <= nextSequence'
      BY <1>0, <2>1, <2>2 DEF MinimumCovers
    <3>2. ASSUME NEW r \in subscribers', NEW i \in Ids, wild'[r],
                 subOwner'[r] = owner'[i], status'[i] = "completed",
                 sequence'[i] < minimumSequence'[r]
          PROVE  handed'[r][i] > 0
      <4>1. CASE r = s
        BY <2>1, <2>2, <2>4, <3>2, <4>1
      <4>2. CASE r # s
        BY <2>1, <2>3, <3>2, <4>2 DEF MinimumCovers
      <4> QED BY <4>1, <4>2
    <3> QED BY <3>1, <3>2 DEF MinimumCovers
  <2>6. ASSUME NEW r \in subscribers', NEW i \in Ids, Concerns(i, r)',
               status'[i] = "completed", handed'[r][i] = 0
        PROVE  task'[i] = "notify" \/ (task'[i] = "yielding" /\ r \in matching'[i])
    <3>1. CASE r = s
      BY <2>1, <2>2, <2>4, <2>6, <3>1 DEF Concerns
    <3>2. CASE r # s
      BY <2>1, <2>3, <2>6, <3>2 DEF NoStrandedWaiter, Concerns
    <3> QED BY <3>1, <3>2
  <2> QED BY <2>5, <2>6 DEF NoStrandedWaiter
<1>12. ASSUME NEW s \in Subs, Consume(s) \/ OnTermination(s) \/ StreamCancelled(s)
       PROVE  Goal'
  BY <1>1, <1>12 DEF Consume, OnTermination, StreamCancelled, storeVars, subVars,
                     newVars, taskVars
<1>13. CASE UNCHANGED vars
  BY <1>1, <1>13 DEF vars, storeVars, subVars, newVars, taskVars
<1> HIDE DEF Goal
<1> QED
  BY <1>2, <1>3, <1>4, <1>5, <1>6, <1>7, <1>8, <1>9, <1>10, <1>11, <1>12, <1>13, AskedAreIds
     DEF Next, TaskStep, RegisterRefused, CancelRefused
-----------------------------------------------------------------------------
(***************************************************************************)
(* The invariant, and the theorems.                                        *)
(***************************************************************************)
LEMMA InitIInv == Init => IInv
<1> SUFFICES ASSUME Init PROVE IInv
  OBVIOUS
<1>1. TypeOK
  <2>1. PICK o \in Owners : /\ subOwner = [s \in Subs |-> o]
                            /\ owner = [i \in Ids |-> o]
    BY DEF Init
  <2>2. completedOrder \in Seq(Ids) /\ evictionOffset \in 0 .. Len(completedOrder)
    BY DEF Init
  <2>3. pendingCount \in 0 .. MaxPending /\ nextSubscriber \in 0 .. MaxSubscribers
        /\ buffered \in [Subs -> 0 .. BufferCapacity]
    BY FutureStoreAssumption DEF Init
  <2>4. wild \in [Subs -> BOOLEAN] /\ discardResult \in [Ids -> BOOLEAN]
    BY DEF Init
  <2>5. matching \in [Ids -> SUBSET Subs] /\ finishing \in [Ids -> SUBSET Subs]
        /\ failing \in [Ids -> SUBSET Subs] /\ futureIds \in [Subs -> SUBSET Ids]
        /\ requested \in [Subs -> SUBSET Ids]
    BY DEF Init
  <2>6. delivery \in [Ids -> [Subs -> Yields]] /\ handed \in [Subs -> [Ids -> Nat]]
    BY DEF Init, Yields
  <2>7. status \in [Ids -> {"absent", "pending", "completed"}]
        /\ stream \in [Subs -> {"none", "open", "cancelling",
                                "finished", "failed", "cancelled"}]
        /\ task \in [Ids -> {"none", "executing", "notify", "yielding",
                             "finishing", "done"}]
    BY DEF Init
  <2> QED BY <2>1, <2>2, <2>3, <2>4, <2>5, <2>6, <2>7 DEF Init, TypeOK
<1>2. PendingIds = {} /\ CompletedIds = {} /\ Active = {}
  BY DEF Init, PendingIds, CompletedIds, Active
<1>3. StoreBookkeeping
  <2>1. PendingCountExact
    BY <1>2, FS_EmptySet DEF Init, PendingCountExact
  <2>2. KeyIndexConsistent
    BY DEF Init, KeyIndexConsistent, KeyTaken
  <2>3. RetentionWindow
    BY <1>2, FS_EmptySet, FutureStoreAssumption DEF RetentionWindow
  <2> QED BY <2>1, <2>2, <2>3 DEF StoreBookkeeping
<1>4. WindowBound
  BY <1>2, FutureStoreAssumption DEF Init, WindowBound
<1>5. TaskShape
  BY DEF Init, TaskShape
<1>6. NotYetSubscribed /\ SnapshotOfOwner /\ HandedOnlyWhatIsDue
  BY DEF Init, NotYetSubscribed, SnapshotOfOwner, HandedOnlyWhatIsDue
<1>7. Awaited /\ YieldsSoFar /\ FinishedComplete /\ FilteredExactlyOnce
  BY DEF Init, Awaited, YieldsSoFar, FinishedComplete, FilteredExactlyOnce
<1>8. MinimumCovers /\ NoStrandedWaiter
  BY DEF Init, MinimumCovers, NoStrandedWaiter
<1> QED BY <1>1, <1>3, <1>4, <1>5, <1>6, <1>7, <1>8 DEF IInv, BookInv

LEMMA StepIInv == IInv /\ [Next]_vars => IInv'
<1> SUFFICES ASSUME IInv, [Next]_vars PROVE IInv'
  OBVIOUS
<1>1. /\ TypeOK /\ StoreTypeOK /\ PendingCountExact /\ KeyIndexConsistent
      /\ RetentionWindow /\ WindowBound /\ TaskShape /\ NotYetSubscribed
  BY DEF IInv, BookInv, StoreBookkeeping, TypeOK, StoreTypeOK
<1>2. BookInv'
  BY <1>1, TypeStep, CountStep, KeyStep, WindowStep DEF BookInv, StoreBookkeeping
<1>3. TaskShape' /\ NotYetSubscribed'
  BY <1>1, TaskShapeStep, NotYetSubscribedStep
<1>4. SnapshotOfOwner' /\ HandedOnlyWhatIsDue'
  BY <1>1, DueStep DEF IInv
<1>5. Awaited' /\ YieldsSoFar' /\ FinishedComplete' /\ FilteredExactlyOnce'
  BY <1>1, FilteredStep DEF IInv
<1>6. MinimumCovers' /\ NoStrandedWaiter'
  BY <1>1, WaiterStep DEF IInv
<1> QED BY <1>2, <1>3, <1>4, <1>5, <1>6 DEF IInv

\* The inductive invariant holds throughout.
THEOREM Invariance == Spec => []IInv
  BY InitIInv, StepIInv, PTL DEF Spec

\* The store's variables keep their types; in particular pendingCount never
\* underflows and never exceeds the limit that register checks.
THEOREM TypeCorrect == Spec => []TypeOK
<1>1. IInv => TypeOK
  BY DEF IInv, BookInv
<1> QED BY <1>1, Invariance, PTL

\* pendingCount is the number of pending entries, the idempotency index and its
\* reverse agree with the entries, and the completion queue with its offset
\* lists exactly the retained results: register, complete, removePending,
\* cancel, eviction and compaction agree on the state for all limits.
THEOREM Bookkeeping == Spec => []StoreBookkeeping
<1>1. IInv => StoreBookkeeping
  BY DEF IInv, BookInv
<1> QED BY <1>1, Invariance, PTL

\* Nobody is handed a result of another caller's future, or of a future whose
\* cancel had returned true (unless it discards its result), by subscribe or by
\* a notification.
THEOREM OnlyWhatIsDue == Spec => []HandedOnlyWhatIsDue
<1>1. IInv => HandedOnlyWhatIsDue
  BY DEF IInv
<1> QED BY <1>1, Invariance, PTL

\* A filtered subscription gets each result at most once and a stream that ends
\* normally got all of them, however many completions, subscriptions and
\* notifications overlap.
THEOREM ExactlyOnce == Spec => []FilteredExactlyOnce
<1>1. IInv => FilteredExactlyOnce
  BY DEF IInv
<1> QED BY <1>1, Invariance, PTL

\* Between the lock sections of complete, subscribe and notify no subscriber
\* falls through: who waits for a result the store holds is in a snapshot, or
\* the snapshot is yet to be taken.
THEOREM NobodyStranded == Spec => []NoStrandedWaiter
<1>1. IInv => NoStrandedWaiter
  BY DEF IInv
<1> QED BY <1>1, Invariance, PTL
-----------------------------------------------------------------------------
(***************************************************************************)
(* Where nothing is evicted, a wildcard stream repeats nothing either.     *)
(***************************************************************************)
\* Where a wildcard subscriber stands with each result: what it was handed at
\* once its minimum sequence keeps from being handed again, what a yield handed
\* it has left the notification behind.
WildcardOnce ==
    \A s \in Subs, i \in Ids : wild[s] =>
        /\ handed[s][i] <= 1
        /\ s \in matching[i] /\ delivery[i][s] = "none" => handed[s][i] = 0
        /\ handed[s][i] > 0 =>
              \/ status[i] = "completed" /\ sequence[i] < minimumSequence[s]
              \/ task[i] = "yielding" /\ s \in matching[i]
                    /\ delivery[i][s] = "enqueued"
              \/ task[i] \in {"finishing", "done"}

\* With room for every future, complete evicts nothing.
LEMMA NothingEvicted ==
    ASSUME Cardinality(Ids) <= MaxCompleted, StoreTypeOK, RetentionWindow,
           NEW i \in Ids, status[i] = "pending"
    PROVE  Evicted(Append(completedOrder, i)) = {}
<1> DEFINE f == [n \in Active |-> completedOrder[n]]
           order == Append(completedOrder, i)
<1>1. \A n \in Active : completedOrder[n] \in Ids /\ sequence[completedOrder[n]] \in Nat
  BY DEF RetentionWindow, CompletedIds, StoreTypeOK
<1>2. \A m, n \in Active : completedOrder[m] = completedOrder[n] => m = n
  <2> SUFFICES ASSUME NEW m \in Active, NEW n \in Active, m # n,
                      completedOrder[m] = completedOrder[n]
               PROVE  FALSE
    OBVIOUS
  <2>1. m < n \/ n < m
    BY DEF Active, StoreTypeOK
  <2> QED BY <1>1, <2>1 DEF RetentionWindow
<1>3. f \in Surjection(Active, CompletedIds) /\ f \in Injection(Active, CompletedIds)
  <2>1. CompletedIds = {completedOrder[n] : n \in Active}
    BY DEF RetentionWindow
  <2>2. f \in [Active -> CompletedIds]
    BY <2>1
  <2>3. \A j \in CompletedIds : \E n \in Active : f[n] = j
    BY <2>1
  <2>4. \A m, n \in Active : f[m] = f[n] => m = n
    BY <1>2
  <2> HIDE DEF f
  <2> QED BY <2>2, <2>3, <2>4, Fun_IsSurj, Fun_IsInj
<1>4. evictionOffset \in Nat /\ Len(completedOrder) \in Nat
        /\ evictionOffset <= Len(completedOrder)
  BY DEF StoreTypeOK
<1>5. /\ IsFiniteSet(Active)
      /\ Cardinality(Active) = Len(completedOrder) - evictionOffset
  <2>1. (IF evictionOffset + 1 > Len(completedOrder) THEN 0
         ELSE Len(completedOrder) - (evictionOffset + 1) + 1)
            = Len(completedOrder) - evictionOffset
    BY <1>4
  <2>2. evictionOffset + 1 \in Int /\ Len(completedOrder) \in Int
    BY <1>4
  <2> QED BY <2>1, <2>2, FS_Interval DEF Active
<1> HIDE DEF f
<1>6. IsFiniteSet(CompletedIds) /\ Cardinality(CompletedIds) = Cardinality(Active)
  BY <1>3, <1>5, FS_Surjection
<1>7. Cardinality(CompletedIds \cup {i}) = Cardinality(CompletedIds) + 1
  BY <1>6, FS_AddElement DEF CompletedIds
<1>8. CompletedIds \cup {i} \in SUBSET Ids
  BY DEF CompletedIds
<1>9. Cardinality(CompletedIds \cup {i}) <= Cardinality(Ids)
  BY <1>8, FS_Subset, FutureStoreAssumption
<1>10. Cardinality(Ids) \in Nat /\ Len(order) = Len(completedOrder) + 1
  BY FS_CardinalityType, FutureStoreAssumption DEF StoreTypeOK
<1>11. Len(completedOrder) - evictionOffset + 1 <= MaxCompleted
  BY <1>4, <1>5, <1>6, <1>7, <1>9, <1>10, FutureStoreAssumption
<1>12. Excess(order) = 0
  BY <1>4, <1>10, <1>11, FutureStoreAssumption DEF Excess
<1> QED BY <1>12 DEF Evicted

LEMMA WildcardStep ==
    ASSUME Cardinality(Ids) <= MaxCompleted
    PROVE  IInv /\ WildcardOnce /\ [Next]_vars => WildcardOnce'
<1> SUFFICES ASSUME IInv, WildcardOnce, [Next]_vars PROVE WildcardOnce'
  OBVIOUS
<1>a. /\ TypeOK /\ StoreTypeOK /\ RetentionWindow /\ WindowBound /\ TaskShape
      /\ NotYetSubscribed
  BY DEF IInv, BookInv, StoreBookkeeping, TypeOK, StoreTypeOK
<1>0. /\ \A s \in Subs, i \in Ids : handed[s][i] \in Nat
      /\ \A i \in Ids : matching[i] \subseteq Subs /\ sequence[i] \in Nat
      /\ \A s \in Subs : minimumSequence[s] \in Nat
      /\ nextSequence \in Nat
  BY <1>a DEF TypeOK
\* No step takes a completed entry away or gives it another sequence.
<1>b. \A i \in Ids : status[i] = "completed" =>
         status'[i] = "completed" /\ sequence'[i] = sequence[i]
  <2>1. CASE UNCHANGED storeVars
    BY <2>1 DEF storeVars
  <2>2. ASSUME NEW i \in Ids, NEW o \in Owners, NEW k \in Keys \cup {NoKey},
               NEW d \in BOOLEAN, Register(i, o, k, d),
               NEW j \in Ids, status[j] = "completed"
        PROVE  status'[j] = "completed" /\ sequence'[j] = sequence[j]
    <3>1. j # i
      BY <1>a, <2>2 DEF Register, TaskShape
    <3> QED BY <1>a, <2>2, <3>1 DEF Register, StoreTypeOK
  <2>3. ASSUME NEW i \in Ids, status[i] = "pending", Complete(i),
               NEW j \in Ids, status[j] = "completed"
        PROVE  status'[j] = "completed" /\ sequence'[j] = sequence[j]
    <3>1. Evicted(Append(completedOrder, i)) = {}
      BY <1>a, <2>3, NothingEvicted
    <3> QED BY <1>a, <2>3, <3>1 DEF Complete, StoreTypeOK
  <2>4. ASSUME NEW i \in Ids, Withdraw(i), NEW j \in Ids, status[j] = "completed"
        PROVE  status'[j] = "completed" /\ sequence'[j] = sequence[j]
    BY <1>a, <2>4 DEF Withdraw, StoreTypeOK
  <2> QED BY <2>1, <2>2, <2>3, <2>4, StoreSteps
<1>1. ASSUME UNCHANGED <<handed, wild, minimumSequence, matching, delivery>>,
             NEW i \in Ids,
             (\A s \in Subs : handed[s][i] = 0) \/ task[i] = "finishing",
             task[i] = "finishing" => task'[i] = "done",
             \A j \in Ids : j # i => task'[j] = task[j]
      PROVE  WildcardOnce'
  BY <1>b, <1>1 DEF WildcardOnce
<1>2. ASSUME UNCHANGED <<handed, wild, minimumSequence, matching, delivery, task>>
      PROVE  WildcardOnce'
  BY <1>b, <1>2 DEF WildcardOnce
<1>3. ASSUME NEW i \in Ids, NEW o \in Owners, NEW k \in Keys \cup {NoKey},
             NEW d \in BOOLEAN, Register(i, o, k, d)
      PROVE  WildcardOnce'
  <2>1. (\A s \in Subs : handed[s][i] = 0) /\ task[i] = "none"
    BY <1>a, <1>3 DEF Register, TaskShape
  <2> QED BY <1>a, <1>1, <1>3, <2>1 DEF Register, subVars, TypeOK
<1>4. ASSUME NEW i \in Ids, TaskComplete(i) \/ TaskDiscard(i) PROVE WildcardOnce'
  <2>1. (\A s \in Subs : handed[s][i] = 0) /\ task[i] = "executing"
    BY <1>a, <1>4 DEF TaskComplete, TaskDiscard, TaskShape
  <2>2. \A j \in Ids : j # i => task'[j] = task[j]
    BY <1>a, <1>4 DEF TaskComplete, TaskDiscard, TypeOK
  <2> QED BY <1>1, <1>4, <2>1, <2>2 DEF TaskComplete, TaskDiscard, subVars
<1>5. ASSUME NEW i \in Ids, NotifySnapshot(i) PROVE WildcardOnce'
  <2>1. /\ task[i] = "notify" /\ task'[i] = "yielding"
        /\ \A s \in matching'[i] : Accepts(s, i)
        /\ \A j \in Ids : j # i => /\ task'[j] = task[j]
                                   /\ matching'[j] = matching[j]
                                   /\ delivery'[j] = delivery[j]
        /\ UNCHANGED <<handed, wild, minimumSequence, status, sequence>>
    BY <1>a, <1>5 DEF NotifySnapshot, storeVars, subVars, TypeOK
  <2>2. ASSUME NEW s \in Subs, wild[s], handed[s][i] > 0
        PROVE  /\ status[i] = "completed" /\ sequence[i] < minimumSequence[s]
               /\ s \notin matching'[i]
    <3>1. status[i] = "completed" /\ sequence[i] < minimumSequence[s]
      BY <2>1, <2>2 DEF WildcardOnce
    <3>2. ~ Accepts(s, i)
      BY <1>0, <2>2, <3>1 DEF Accepts
    <3> QED BY <2>1, <3>1, <3>2
  <2> QED BY <1>0, <2>1, <2>2 DEF WildcardOnce
<1>6. ASSUME NEW i \in Ids, NEW s \in Subs, NotifyYield(i, s) PROVE WildcardOnce'
  <2>1. PICK result \in {"enqueued", "dropped", "terminated"} :
           \A r \in Subs, j \in Ids :
              /\ delivery'[j][r] = IF j = i /\ r = s THEN result
                                   ELSE delivery[j][r]
              /\ handed'[r][j] = IF j = i /\ r = s /\ result = "enqueued"
                                 THEN handed[r][j] + 1 ELSE handed[r][j]
    BY <1>a, <1>6, YieldHands
  <2>2. /\ task[i] = "yielding" /\ s \in matching[i] /\ delivery[i][s] = "none"
        /\ UNCHANGED <<wild, minimumSequence, task, matching, status, sequence>>
    BY <1>6 DEF NotifyYield, storeVars, subVars
  <2>3. \A r \in Subs, j \in Ids : j # i \/ r # s =>
           delivery'[j][r] = delivery[j][r] /\ handed'[r][j] = handed[r][j]
    BY <2>1
  <2>4. wild[s] => /\ handed[s][i] = 0
                   /\ \/ delivery'[i][s] = "enqueued" /\ handed'[s][i] = 1
                      \/ /\ delivery'[i][s] \in {"dropped", "terminated"}
                         /\ handed'[s][i] = 0
    BY <2>1, <2>2 DEF WildcardOnce
  <2> QED BY <2>2, <2>3, <2>4 DEF WildcardOnce
<1>7. ASSUME NEW i \in Ids, NotifyApply(i) PROVE WildcardOnce'
  <2>1. /\ task'[i] = "finishing" /\ matching'[i] = {}
        /\ \A j \in Ids : j # i => /\ task'[j] = task[j]
                                   /\ matching'[j] = matching[j]
                                   /\ delivery'[j] = delivery[j]
        /\ UNCHANGED <<handed, wild, minimumSequence, status, sequence>>
    BY <1>a, <1>7 DEF NotifyApply, storeVars, subVars, TypeOK
  <2> QED BY <2>1 DEF WildcardOnce
<1>8. ASSUME NEW i \in Ids, NEW s \in Subs, NotifyFinish(i, s) PROVE WildcardOnce'
  BY <1>2, <1>8 DEF NotifyFinish, subVars
<1>9. ASSUME NEW i \in Ids, NotifyDone(i) PROVE WildcardOnce'
  <2>1. task[i] = "finishing" /\ task'[i] = "done"
           /\ \A j \in Ids : j # i => task'[j] = task[j]
    BY <1>a, <1>9 DEF NotifyDone, TypeOK
  <2> QED BY <1>1, <1>9, <2>1 DEF NotifyDone, subVars
<1>10. ASSUME NEW i \in Ids, NEW o \in Owners, Cancel(i, o) PROVE WildcardOnce'
  BY <1>2, <1>10 DEF Cancel, subVars, taskVars
<1>11. ASSUME NEW s \in Subs, NEW o \in Owners, NEW w \in BOOLEAN,
              NEW F \in SUBSET Ids, Subscribe(s, o, w, F)
       PROVE  WildcardOnce'
  <2>1. /\ \A r \in Subs : r # s =>
              /\ wild'[r] = wild[r] /\ minimumSequence'[r] = minimumSequence[r]
              /\ \A i \in Ids : handed'[r][i] = handed[r][i]
        /\ UNCHANGED <<status, sequence, task, matching, delivery>>
    BY <1>a, <1>11, SubscribeFacts DEF storeVars, taskVars
  <2>2. /\ wild'[s] = w /\ \A i \in Ids : s \notin matching[i]
        /\ \A i \in Ids : handed'[s][i] = IF i \in Immediate(o, w, F) THEN 1 ELSE 0
        /\ w => minimumSequence'[s] = nextSequence
    BY <1>a, <1>11, SubscribeFacts
  <2>3. \A i \in Immediate(o, w, F) :
           status[i] = "completed" /\ sequence[i] < nextSequence
    BY <1>a DEF Immediate, WindowBound, CompletedIds
  <2>4. ASSUME NEW r \in Subs, NEW i \in Ids, r # s, wild'[r]
        PROVE  /\ handed'[r][i] <= 1
               /\ r \in matching'[i] /\ delivery'[i][r] = "none" => handed'[r][i] = 0
               /\ handed'[r][i] > 0 =>
                     \/ status'[i] = "completed" /\ sequence'[i] < minimumSequence'[r]
                     \/ task'[i] = "yielding" /\ r \in matching'[i]
                           /\ delivery'[i][r] = "enqueued"
                     \/ task'[i] \in {"finishing", "done"}
    BY <2>1, <2>4 DEF WildcardOnce
  <2>5. ASSUME NEW i \in Ids, wild'[s]
        PROVE  /\ handed'[s][i] <= 1 /\ s \notin matching'[i]
               /\ handed'[s][i] > 0 =>
                     status'[i] = "completed" /\ sequence'[i] < minimumSequence'[s]
    <3>1. CASE i \in Immediate(o, w, F)
      <4>1. handed'[s][i] = 1 /\ minimumSequence'[s] = nextSequence
        BY <2>2, <2>5, <3>1
      <4> QED BY <2>1, <2>2, <2>3, <3>1, <4>1
    <3>2. CASE i \notin Immediate(o, w, F)
      <4>1. handed'[s][i] = 0
        BY <2>2, <3>2
      <4> QED BY <2>1, <2>2, <4>1
    <3> QED BY <3>1, <3>2
  <2> QED BY <2>4, <2>5 DEF WildcardOnce
<1>12. ASSUME NEW s \in Subs, Consume(s) \/ OnTermination(s) \/ StreamCancelled(s)
       PROVE  WildcardOnce'
  BY <1>2, <1>12 DEF Consume, OnTermination, StreamCancelled, subVars, taskVars
<1>13. CASE UNCHANGED vars
  BY <1>2, <1>13 DEF vars, subVars, taskVars
<1> QED
  BY <1>3, <1>4, <1>5, <1>6, <1>7, <1>8, <1>9, <1>10, <1>11, <1>12, <1>13, AskedAreIds
     DEF Next, TaskStep, RegisterRefused, CancelRefused

\* A stream for all of the caller's futures repeats no result as long as the
\* store has room for every future, so that complete evicts nothing.  Without
\* that condition the code does repeat one: a result evicted before its
\* notification has no sequence for the subscriber's minimum to refuse.
THEOREM NoRepeatWithoutEviction ==
    ASSUME Cardinality(Ids) <= MaxCompleted
    PROVE  Spec => []WildcardNoRepeat
<1>1. Init => WildcardOnce
  BY DEF Init, WildcardOnce
<1>2. IInv /\ WildcardOnce /\ [Next]_vars => WildcardOnce'
  BY WildcardStep
<1>3. WildcardOnce => WildcardNoRepeat
  BY DEF WildcardOnce, WildcardNoRepeat
<1> QED BY <1>1, <1>2, <1>3, Invariance, PTL DEF Spec
=============================================================================
