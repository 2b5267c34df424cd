----------------------------- MODULE FutureStore -----------------------------
(***************************************************************************)
(* The in-memory FutureStore of the Swift RPC server                       *)
(* (plugins/swift/Sources/SwiftBebop/RPC/Server/FutureStore.swift).        *)
(*                                                                         *)
(* Every `_state.withLock` section of the code is one atomic step; between *)
(* two of them any other task may run.  A registered future owns a         *)
(* background Task, which runs the handler, then completes (or, for a      *)
(* fire-and-forget future, removes) its entry, then notifies: it takes a   *)
(* snapshot of the matching subscribers under the lock, yields the result  *)
(* to each stream without the lock, takes the lock again to apply what the *)
(* yields returned, and finishes streams after releasing it.               *)
(*                                                                         *)
(* A result is identified with its future's id: payloads play no part.     *)
(* AsyncThrowingStream with .bufferingOldest(capacity) is external: it is  *)
(* the number of buffered elements and the terminal state of the stream.   *)
(***************************************************************************)
EXTENDS Integers, Sequences, FiniteSets

CONSTANTS
    Ids,             \* the UUIDs BebopUUID.random() may return
    Asked,           \* the ids among them that clients ask a subscription for
    Owners,          \* caller identities
    Keys,            \* client-chosen idempotency keys
    NoKey,           \* "no idempotency key"
    NoId,            \* "no future"
    MaxPending,      \* maxPendingFutures (UInt.max: a bound never reached)
    MaxCompleted,    \* maxCompletedFutures
    BufferCapacity,  \* subscriberBufferCapacity
    MaxSubscribers   \* bound on the subscriptions of one behaviour

ASSUME FutureStoreAssumption ==
    /\ IsFiniteSet(Ids)
    /\ Asked \subseteq Ids
    /\ NoKey \notin Keys
    /\ NoId \notin Ids
    /\ MaxPending \in Nat
    /\ MaxCompleted \in Nat
    /\ BufferCapacity \in Nat \ {0}   \* the precondition of init
    /\ MaxSubscribers \in Nat

Subs == 0 .. MaxSubscribers - 1

VARIABLES
    \* struct State, guarded by the mutex
    status,            \* futures: "absent", "pending" or "completed"
    sequence,          \* the sequence a completed entry carries
    keyOf,             \* reverseIdempotency
    keyIndex,          \* idempotencyIndex
    completedOrder,
    evictionOffset,    \* completedEvictionOffset
    nextSequence,      \* nextCompletionSequence
    pendingCount,
    subscribers,       \* the keys of the dictionary `subscribers`
    nextSubscriber,    \* numbers the subscribe calls; nextSubscriberId skips
                       \* the calls that register nobody
    futureIds,         \* Subscriber.futureIds of a filtered subscriber
    \* what a Subscriber never changes
    subOwner, wild, minimumSequence, requested,
    \* the stream of each subscriber
    stream, buffered,
    \* the background task of each future
    owner, discardResult, task, matching, delivery, finishing, failing,
    \* history, for the properties only
    issued,            \* ids register has returned
    cancelled,         \* ids whose cancel returned true
    handed             \* how often a result was handed to a subscriber

storeVars == <<status, sequence, keyOf, keyIndex, completedOrder,
               evictionOffset, nextSequence, pendingCount>>
subVars   == <<subOwner, wild, minimumSequence, requested, nextSubscriber>>
taskVars  == <<task, matching, delivery, finishing, failing>>
newVars   == <<owner, discardResult, issued>>
vars == <<storeVars, subscribers, futureIds, subVars, stream, buffered,
          newVars, taskVars, cancelled, handed>>

Yields == {"none", "enqueued", "dropped", "terminated"}

\* A stream that .yield reports as terminated.
Terminal(s) == stream[s] \in {"finished", "failed", "cancelled"}

TypeOK ==
    /\ status \in [Ids -> {"absent", "pending", "completed"}]
    /\ sequence \in [Ids -> Nat]
    /\ keyOf \in [Ids -> Keys \cup {NoKey}]
    /\ keyIndex \in [Keys -> Ids \cup {NoId}]
    /\ completedOrder \in Seq(Ids)
    /\ evictionOffset \in 0 .. Len(completedOrder)
    /\ nextSequence \in Nat
    /\ pendingCount \in 0 .. MaxPending
    /\ subscribers \in SUBSET Subs
    /\ nextSubscriber \in 0 .. MaxSubscribers
    /\ futureIds \in [Subs -> SUBSET Ids]
    /\ subOwner \in [Subs -> Owners]
    /\ wild \in [Subs -> BOOLEAN]
    /\ minimumSequence \in [Subs -> Nat]
    /\ requested \in [Subs -> SUBSET Ids]
    /\ stream \in [Subs -> {"none", "open", "cancelling",
                            "finished", "failed", "cancelled"}]
    /\ buffered \in [Subs -> 0 .. BufferCapacity]
    /\ owner \in [Ids -> Owners]
    /\ discardResult \in [Ids -> BOOLEAN]
    /\ task \in [Ids -> {"none", "executing", "notify", "yielding",
                         "finishing", "done"}]
    /\ matching \in [Ids -> SUBSET Subs]
    /\ delivery \in [Ids -> [Subs -> Yields]]
    /\ finishing \in [Ids -> SUBSET Subs]
    /\ failing \in [Ids -> SUBSET Subs]
    /\ issued \in SUBSET Ids
    /\ cancelled \in SUBSET Ids
    /\ handed \in [Subs -> [Ids -> Nat]]

Init ==
    /\ status = [i \in Ids |-> "absent"]
    /\ sequence = [i \in Ids |-> 0]
    /\ keyOf = [i \in Ids |-> NoKey]
    /\ keyIndex = [k \in Keys |-> NoId]
    /\ completedOrder = <<>>
    /\ evictionOffset = 0
    /\ nextSequence = 0
    /\ pendingCount = 0
    /\ subscribers = {}
    /\ nextSubscriber = 0
    /\ futureIds = [s \in Subs |-> {}]
    /\ \E o \in Owners : /\ subOwner = [s \in Subs |-> o]
                         /\ owner = [i \in Ids |-> o]
    /\ wild = [s \in Subs |-> FALSE]
    /\ minimumSequence = [s \in Subs |-> 0]
    /\ requested = [s \in Subs |-> {}]
    /\ stream = [s \in Subs |-> "none"]
    /\ buffered = [s \in Subs |-> 0]
    /\ discardResult = [i \in Ids |-> FALSE]
    /\ task = [i \in Ids |-> "none"]
    /\ matching = [i \in Ids |-> {}]
    /\ delivery = [i \in Ids |-> [s \in Subs |-> "none"]]
    /\ finishing = [i \in Ids |-> {}]
    /\ failing = [i \in Ids |-> {}]
    /\ issued = {}
    /\ cancelled = {}
    /\ handed = [s \in Subs |-> [i \in Ids |-> 0]]
-----------------------------------------------------------------------------
(***************************************************************************)
(* Helpers of the lock sections.                                           *)
(***************************************************************************)
AtPendingLimit == pendingCount >= MaxPending

\* Remove the entries S and release their idempotency keys, as cancel,
\* removePending and evict do.
ReleaseKeys_Index(S) ==
    /\ keyOf' = [i \in Ids |-> IF i \in S THEN NoKey ELSE keyOf[i]]
    /\ UNCHANGED keyIndex
ReleaseKeys(S) ==
    /\ keyOf' = [i \in Ids |-> IF i \in S THEN NoKey ELSE keyOf[i]]
    /\ keyIndex' = [k \in Keys |->
                      IF \E i \in S : keyOf[i] = k THEN NoId ELSE keyIndex[k]]

\* How many of the active entries of the completion queue evict removes.
Excess(order) ==
    LET active == Len(order) - evictionOffset
    IN  IF active > MaxCompleted THEN active - MaxCompleted ELSE 0

Evicted(order) == {order[evictionOffset + n] : n \in 1 .. Excess(order)}

\* The queue and the offset after evict: the consumed prefix is dropped
\* once it is at least half of the queue.
Compacted(order, offset) ==
    IF offset > 0 /\ offset >= Len(order) \div 2
    THEN [order |-> SubSeq(order, offset + 1, Len(order)), offset |-> 0]
    ELSE [order |-> order, offset |-> offset]

\* Subscriber.accepts; an entry that is not completed has no sequence.
Accepts_AnyOwner(s, i) ==
    IF wild[s]
    THEN status[i] = "completed" => sequence[i] >= minimumSequence[s]
    ELSE i \in futureIds[s]
Accepts_Late(s, i) ==
    /\ subOwner[s] = owner[i]
    /\ IF wild[s]
       THEN status[i] = "completed" => sequence[i] > minimumSequence[s]
       ELSE i \in futureIds[s]
Accepts(s, i) ==
    /\ subOwner[s] = owner[i]
    /\ IF wild[s]
       THEN status[i] = "completed" => sequence[i] >= minimumSequence[s]
       ELSE i \in futureIds[s]
-----------------------------------------------------------------------------
(***************************************************************************)
(* register: o is the caller, k its key or NoKey, d discardResult.         *)
(***************************************************************************)
KeyTaken(k) == k # NoKey /\ keyIndex[k] # NoId

\* The key leads to another caller's future: register throws permissionDenied.
KeyDenied(o, k) == KeyTaken(k) /\ owner[keyIndex[k]] # o

Register(i, o, k, d) ==
    /\ i \in Ids \ issued                \* a random UUID is a fresh one
    /\ ~ KeyTaken(k)
    /\ ~ AtPendingLimit
    /\ keyIndex' = IF k = NoKey THEN keyIndex ELSE [keyIndex EXCEPT ![k] = i]
    /\ keyOf' = [keyOf EXCEPT ![i] = k]
    /\ status' = [status EXCEPT ![i] = "pending"]
    /\ pendingCount' = pendingCount + 1
    /\ owner' = [owner EXCEPT ![i] = o]
    /\ discardResult' = [discardResult EXCEPT ![i] = d]
    /\ task' = [task EXCEPT ![i] = "executing"]
    /\ issued' = issued \cup {i}
    /\ UNCHANGED <<sequence, completedOrder, evictionOffset, nextSequence,
                   subscribers, futureIds, subVars, stream, buffered,
                   matching, delivery, finishing, failing, cancelled, handed>>

\* The early returns: permissionDenied, the existing handle, or
\* resourceExhausted.  None of them changes the store.
RegisterRefused(o, k) ==
    /\ KeyDenied(o, k) \/ KeyTaken(k) \/ AtPendingLimit
    /\ UNCHANGED vars

(***************************************************************************)
(* The background task after execute(id) returned: complete, or            *)
(* removePending for a fire-and-forget future.                             *)
(***************************************************************************)
Complete(i) ==
    LET order == Append(completedOrder, i)
        gone  == Evicted(order)
        queue == Compacted(order, evictionOffset + Excess(order))
    IN  /\ pendingCount' = pendingCount - 1
        /\ sequence' = [sequence EXCEPT ![i] = nextSequence]
        /\ nextSequence' = nextSequence + 1
        /\ status' = [j \in Ids |-> IF j \in gone THEN "absent"
                                    ELSE IF j = i THEN "completed"
                                    ELSE status[j]]
        /\ ReleaseKeys(gone)
        /\ completedOrder' = queue.order
        /\ evictionOffset' = queue.offset

\* complete returns the owner for an entry that is still pending, else nil
\* and the task ends without a notification.
TaskComplete(i) ==
    /\ task[i] = "executing" /\ ~ discardResult[i]
    /\ \/ /\ status[i] = "pending"
          /\ Complete(i)
          /\ task' = [task EXCEPT ![i] = "notify"]
       \/ /\ status[i] # "pending"
          /\ task' = [task EXCEPT ![i] = "done"]
          /\ UNCHANGED storeVars
    /\ UNCHANGED <<subscribers, futureIds, subVars, stream, buffered, newVars,
                   matching, delivery, finishing, failing, cancelled, handed>>

\* removePending does nothing when the entry is gone; notify runs anyway.
RemovePending(i) ==
    IF status[i] = "pending"
    THEN /\ pendingCount' = pendingCount - 1
         /\ status' = [status EXCEPT ![i] = "absent"]
         /\ ReleaseKeys({i})
         /\ UNCHANGED <<sequence, completedOrder, evictionOffset, nextSequence>>
    ELSE UNCHANGED storeVars

TaskDiscard(i) ==
    /\ task[i] = "executing" /\ discardResult[i]
    /\ RemovePending(i)
    /\ task' = [task EXCEPT ![i] = "notify"]
    /\ UNCHANGED <<subscribers, futureIds, subVars, stream, buffered, newVars,
                   matching, delivery, finishing, failing, cancelled, handed>>

(***************************************************************************)
(* notify.                                                                 *)
(***************************************************************************)
NotifySnapshot(i) ==
    /\ task[i] = "notify"
    /\ matching' = [matching EXCEPT ![i] = {s \in subscribers : Accepts(s, i)}]
    /\ delivery' = [delivery EXCEPT ![i] = [s \in Subs |-> "none"]]
    /\ task' = [task EXCEPT ![i] = "yielding"]
    /\ UNCHANGED <<storeVars, subscribers, futureIds, subVars, stream, buffered,
                   newVars, finishing, failing, cancelled, handed>>

\* AsyncThrowingStream.Continuation.yield with .bufferingOldest.
Yield(s, i, result) ==
    CASE Terminal(s) ->
            result = "terminated" /\ UNCHANGED <<buffered, handed>>
      [] ~ Terminal(s) /\ buffered[s] = BufferCapacity ->
            result = "dropped" /\ UNCHANGED <<buffered, handed>>
      [] OTHER ->
            /\ result = "enqueued"
            /\ buffered' = [buffered EXCEPT ![s] = @ + 1]
            /\ handed' = [handed EXCEPT ![s][i] = @ + 1]

NotifyYield(i, s) ==
    /\ task[i] = "yielding"
    /\ s \in matching[i] /\ delivery[i][s] = "none"
    /\ \E result \in Yields \ {"none"} :
          /\ Yield(s, i, result)
          /\ delivery' = [delivery EXCEPT ![i][s] = result]
    /\ UNCHANGED <<storeVars, subscribers, futureIds, subVars, stream, newVars,
                   task, matching, finishing, failing, cancelled>>

\* The subscribers of the snapshot that are still registered, by what the
\* yield to them returned.
Live(i, result) == {s \in matching[i] \cap subscribers : delivery[i][s] = result}

\* Those whose last awaited result this was.
Satisfied_AnyResult(i) ==
    {s \in Live(i, "enqueued") : ~ wild[s]}
Satisfied(i) ==
    {s \in Live(i, "enqueued") : ~ wild[s] /\ futureIds[s] \ {i} = {}}

Dropped(i) == Live(i, "dropped")

NotifyApply(i) ==
    /\ task[i] = "yielding"
    /\ \A s \in matching[i] : delivery[i][s] # "none"
    /\ futureIds' = [s \in Subs |-> IF s \in Live(i, "enqueued")
                                    THEN futureIds[s] \ {i} ELSE futureIds[s]]
    /\ subscribers' = subscribers \ (Satisfied(i) \cup Dropped(i)
                                        \cup Live(i, "terminated"))
    /\ finishing' = [finishing EXCEPT ![i] = Satisfied(i)]
    /\ failing' = [failing EXCEPT ![i] = Dropped(i)]
    /\ matching' = [matching EXCEPT ![i] = {}]
    /\ delivery' = [delivery EXCEPT ![i] = [s \in Subs |-> "none"]]
    /\ task' = [task EXCEPT ![i] = "finishing"]
    /\ UNCHANGED <<storeVars, subVars, stream, buffered, newVars,
                   cancelled, handed>>

\* continuation.finish: the first termination of a stream wins, and the
\* onTermination handler removes a subscriber that is still registered.
NotifyFinish(i, s) ==
    /\ task[i] = "finishing"
    /\ s \in finishing[i] \cup failing[i]
    /\ stream' = [stream EXCEPT ![s] =
                    IF Terminal(s) THEN @
                    ELSE IF s \in finishing[i] THEN "finished" ELSE "failed"]
    /\ subscribers' = subscribers \ {s}
    /\ finishing' = [finishing EXCEPT ![i] = @ \ {s}]
    /\ failing' = [failing EXCEPT ![i] = @ \ {s}]
    /\ UNCHANGED <<storeVars, futureIds, subVars, buffered, newVars, task,
                   matching, delivery, cancelled, handed>>

NotifyDone(i) ==
    /\ task[i] = "finishing"
    /\ finishing[i] \cup failing[i] = {}
    /\ task' = [task EXCEPT ![i] = "done"]
    /\ UNCHANGED <<storeVars, subscribers, futureIds, subVars, stream, buffered,
                   newVars, matching, delivery, finishing, failing, cancelled,
                   handed>>

(***************************************************************************)
(* cancel: only the owner of a pending future; the running task goes on.   *)
(***************************************************************************)
Cancel(i, o) ==
    /\ status[i] = "pending" /\ owner[i] = o
    /\ status' = [status EXCEPT ![i] = "absent"]
    /\ pendingCount' = pendingCount - 1
    /\ ReleaseKeys({i})
    /\ cancelled' = cancelled \cup {i}
    /\ UNCHANGED <<sequence, completedOrder, evictionOffset, nextSequence,
                   subscribers, futureIds, subVars, stream, buffered, newVars,
                   taskVars, handed>>

\* The guard of cancel fails: it returns false and changes nothing.
CancelRefused(i, o) ==
    /\ status[i] # "pending" \/ owner[i] # o
    /\ UNCHANGED vars

(***************************************************************************)
(* subscribe: w for futureIds = nil, else the filter F (duplicates in the  *)
(* array collapse).  The onTermination handler is installed before the     *)
(* caller gets the stream, so nothing can tell the two apart.              *)
(***************************************************************************)
Immediate(o, w, F) ==
    {i \in Ids : status[i] = "completed" /\ owner[i] = o /\ (w \/ i \in F)}

Remaining(o, w, F) == F \ Immediate(o, w, F)

Subscribe(s, o, w, F) ==
    /\ s = nextSubscriber /\ s \in Subs
    /\ w => F = {}
    /\ subOwner' = [subOwner EXCEPT ![s] = o]
    /\ requested' = [requested EXCEPT ![s] = F]
    /\ wild' = [wild EXCEPT ![s] = w]
    /\ handed' = [handed EXCEPT ![s] =
                    [i \in Ids |-> IF i \in Immediate(o, w, F) THEN 1 ELSE 0]]
    /\ nextSubscriber' = nextSubscriber + 1
    /\ IF ~ w /\ Remaining(o, w, F) = {}
       THEN /\ stream' = [stream EXCEPT ![s] = "finished"]
            /\ UNCHANGED <<subscribers, futureIds, minimumSequence>>
       ELSE /\ stream' = [stream EXCEPT ![s] = "open"]
            /\ subscribers' = subscribers \cup {s}
            /\ futureIds' = [futureIds EXCEPT ![s] = Remaining(o, w, F)]
            /\ minimumSequence' = [minimumSequence EXCEPT ![s] =
                                     IF w THEN nextSequence ELSE 0]
    /\ UNCHANGED <<storeVars, buffered, newVars, taskVars, cancelled>>

(***************************************************************************)
(* The consumer of a stream: it reads, or it stops iterating, in which     *)
(* case onTermination runs before the stream becomes terminal.             *)
(***************************************************************************)
Consume(s) ==
    /\ buffered[s] > 0
    /\ buffered' = [buffered EXCEPT ![s] = @ - 1]
    /\ UNCHANGED <<storeVars, subscribers, futureIds, subVars, stream, newVars,
                   taskVars, cancelled, handed>>

OnTermination(s) ==
    /\ stream[s] = "open"
    /\ stream' = [stream EXCEPT ![s] = "cancelling"]
    /\ subscribers' = subscribers \ {s}
    /\ UNCHANGED <<storeVars, futureIds, subVars, buffered, newVars, taskVars,
                   cancelled, handed>>

StreamCancelled(s) ==
    /\ stream[s] = "cancelling"
    /\ stream' = [stream EXCEPT ![s] = "cancelled"]
    /\ UNCHANGED <<storeVars, subscribers, futureIds, subVars, buffered, newVars,
                   taskVars, cancelled, handed>>
-----------------------------------------------------------------------------
TaskStep(i) ==
    \/ TaskComplete(i) \/ TaskDiscard(i)
    \/ NotifySnapshot(i)
    \/ \E s \in Subs : NotifyYield(i, s)
    \/ NotifyApply(i)
    \/ \E s \in Subs : NotifyFinish(i, s)
    \/ NotifyDone(i)

Next ==
    \/ \E i \in Ids, o \in Owners, k \in Keys \cup {NoKey}, d \in BOOLEAN :
          Register(i, o, k, d)
    \/ \E o \in Owners, k \in Keys \cup {NoKey} : RegisterRefused(o, k)
    \/ \E i \in Ids : TaskStep(i)
    \/ \E i \in Ids, o \in Owners : Cancel(i, o) \/ CancelRefused(i, o)
    \/ \E s \in Subs, o \in Owners, w \in BOOLEAN, F \in SUBSET Asked :
          Subscribe(s, o, w, F)
    \/ \E s \in Subs : Consume(s) \/ OnTermination(s) \/ StreamCancelled(s)

Spec == Init /\ [][Next]_vars

(***************************************************************************)
(* Properties.                                                             *)
(***************************************************************************)
PendingIds   == {i \in Ids : status[i] = "pending"}
CompletedIds == {i \in Ids : status[i] = "completed"}
Active       == evictionOffset + 1 .. Len(completedOrder)

\* The future is one that the subscriber asked for and may see.
Concerns(i, s) == subOwner[s] = owner[i] /\ (wild[s] \/ i \in requested[s])

\* pendingCount, which complete, removePending and cancel each decrement on
\* their own guard, is exactly the number of pending entries: it never
\* underflows (a trap in Swift) and the limit counts nothing twice.
PendingCountExact == pendingCount = Cardinality(PendingIds)

\* idempotencyIndex and reverseIdempotency are inverse to each other, and an
\* indexed future is in the store: a retry never gets the handle of a future
\* that was cancelled, discarded or evicted.
KeyIndexConsistent ==
    /\ \A k \in Keys : KeyTaken(k) => /\ keyOf[keyIndex[k]] = k
                                      /\ status[keyIndex[k]] # "absent"
    /\ \A i \in Ids : keyOf[i] # NoKey => keyIndex[keyOf[i]] = i

\* The unconsumed part of completedOrder lists exactly the completed entries,
\* each once, oldest first, and at most maxCompletedFutures of them, through
\* every eviction and compaction.
RetentionWindow ==
    /\ CompletedIds = {completedOrder[n] : n \in Active}
    /\ \A m, n \in Active :
          m < n => sequence[completedOrder[m]] < sequence[completedOrder[n]]
    /\ Cardinality(CompletedIds) <= MaxCompleted

\* The three together: what complete, removePending, cancel, eviction and
\* compaction each keep up on their own agrees after any sequence of them.
StoreBookkeeping == PendingCountExact /\ KeyIndexConsistent /\ RetentionWindow

\* Whatever a subscriber is handed, from the snapshot of subscribe or from
\* notify, is the result of a future of its own caller, and of one whose cancel
\* had not returned true.  Fire-and-forget futures are the exception to the
\* second part: their task notifies whether or not the entry was still there.
HandedOnlyWhatIsDue ==
    \A s \in Subs, i \in Ids : handed[s][i] > 0 =>
        /\ subOwner[s] = owner[i]
        /\ i \in cancelled => discardResult[i]

\* A filtered subscriber is handed each result at most once, even when it
\* subscribes between the completion of a future and its notification, and a
\* filtered stream that ends normally has delivered every requested result,
\* however completions and notifications of several futures interleave.
FilteredExactlyOnce ==
    \A s \in Subs : ~ wild[s] =>
        /\ \A i \in Ids : handed[s][i] <= 1
        /\ stream[s] = "finished" => \A i \in requested[s] : handed[s][i] = 1

\* A subscriber that waits for a result the store already holds is never left
\* behind: the notification of that future has yet to take its snapshot, or
\* has this subscriber in it.
NoStrandedWaiter ==
    \A s \in subscribers, i \in Ids :
        Concerns(i, s) /\ status[i] = "completed" /\ handed[s][i] = 0
        => \/ task[i] = "notify"
           \/ task[i] = "yielding" /\ s \in matching[i]

\* A stream for all of the caller's futures repeats no result.  The code
\* keeps this only while no entry is evicted before its notification.
WildcardNoRepeat ==
    \A s \in Subs, i \in Ids : wild[s] => handed[s][i] <= 1
=============================================================================
