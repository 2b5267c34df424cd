--------------------------- MODULE TsFutureStorage ---------------------------
(***************************************************************************)
(* The server-side future storage of the TypeScript runtime,               *)
(* InMemoryFutureStorage (plugins/typescript/packages/runtime/src/rpc/     *)
(* future-storage.ts), with the handlers of the router that use it:        *)
(* handleDispatch, handleResolve and handleCancel (router.ts).             *)
(*                                                                         *)
(* JavaScript runs one job at a time: register, cancel, subscribe and      *)
(* complete, the loop over the subscribers included, are one step each.    *)
(* The resolve handler is an async generator that first yields the results *)
(* of its snapshot and then reads a ReadableStream; jobs of other calls    *)
(* run whenever it is suspended, and its client may go away.               *)
(*                                                                         *)
(* A result is identified with its future.                                 *)
(***************************************************************************)
EXTENDS Integers, Sequences, FiniteSets

CONSTANTS
    Ids,             \* the ids crypto.randomUUID() may return
    Owners,          \* caller identities
    Keys, NoKey,     \* idempotency keys
    NoId,
    Subs,            \* calls of the resolve method
    MaxPending, MaxCompleted,
    BufferCapacity   \* subscriberBufferCapacity

ConstantsOK ==
    /\ IsFiniteSet(Ids) /\ NoId \notin Ids /\ NoKey \notin Keys
    /\ MaxPending \in Nat /\ MaxCompleted \in Nat
    /\ BufferCapacity \in Nat \ {0}   \* checked by the constructor

VARIABLES
    \* the storage
    state,           \* entries: "absent", "pending" or "completed"
    owner, keyOf, discardResult,
    idempotency,     \* per key, the id it leads to
    completedOrder,
    pendingCount,
    subscribers,
    running,         \* futures whose execute has not settled
    \* per resolve call
    gen,             \* where the generator is
    subOwner,
    wild,            \* no ids were given
    target,          \* the ids that were given
    remaining,       \* ids of the Subscriber
    immediate,       \* results of the snapshot that are still to be yielded
    queue,           \* the ReadableStream
    stream,          \* "readable", "closing", "errored" or "cancelled"
    gone,            \* the client went away: its context is cancelled
    \* history, for the properties only
    issued,          \* ids that register has returned
    handed,          \* how often a result was yielded to a client
    owed             \* results that completed while a call was subscribed
                     \* and concerned it

entryVars == <<state, owner, keyOf, discardResult, idempotency, completedOrder,
               pendingCount, running>>
callVars  == <<subOwner, wild, target>>
vars == <<entryVars, subscribers, gen, callVars, remaining, immediate, queue,
          stream, gone, issued, handed, owed>>

TypeOK ==
    /\ state \in [Ids -> {"absent", "pending", "completed"}]
    /\ owner \in [Ids -> Owners]
    /\ keyOf \in [Ids -> Keys \cup {NoKey}]
    /\ discardResult \in [Ids -> BOOLEAN]
    /\ idempotency \in [Keys -> Ids \cup {NoId}]
    /\ completedOrder \in Seq(Ids)
    /\ pendingCount \in 0 .. MaxPending
    /\ subscribers \in SUBSET Subs
    /\ running \in SUBSET Ids
    /\ gen \in [Subs -> {"new", "immediate", "reading", "done", "failed", "left"}]
    /\ subOwner \in [Subs -> Owners]
    /\ wild \in [Subs -> BOOLEAN]
    /\ target \in [Subs -> SUBSET Ids]
    /\ remaining \in [Subs -> SUBSET Ids]
    /\ immediate \in [Subs -> SUBSET Ids]
    /\ queue \in [Subs -> Seq(Ids)]
    /\ stream \in [Subs -> {"readable", "closing", "errored", "cancelled"}]
    /\ gone \in SUBSET Subs
    /\ issued \in SUBSET Ids
    /\ handed \in [Subs -> [Ids -> Nat]]
    /\ owed \in [Subs -> SUBSET Ids]

Init ==
    /\ state = [i \in Ids |-> "absent"]
    /\ \E o \in Owners : owner = [i \in Ids |-> o]   \* set by register
    /\ keyOf = [i \in Ids |-> NoKey]
    /\ discardResult = [i \in Ids |-> FALSE]
    /\ idempotency = [k \in Keys |-> NoId]
    /\ completedOrder = <<>> /\ pendingCount = 0
    /\ subscribers = {} /\ running = {}
    /\ gen = [s \in Subs |-> "new"]
    /\ subOwner \in [Subs -> Owners]
    /\ wild = [s \in Subs |-> FALSE]
    /\ target = [s \in Subs |-> {}]
    /\ remaining = [s \in Subs |-> {}]
    /\ immediate = [s \in Subs |-> {}]
    /\ queue = [s \in Subs |-> <<>>]
    /\ stream = [s \in Subs |-> "readable"]
    /\ gone = {} /\ issued = {}
    /\ handed = [s \in Subs |-> [i \in Ids |-> 0]]
    /\ owed = [s \in Subs |-> {}]

Elems(q) == {q[n] : n \in 1 .. Len(q)}
-----------------------------------------------------------------------------
(***************************************************************************)
(* register by caller o, with key k or NoKey.  A key that is taken, or too *)
(* many pending futures, end it without effect.                            *)
(***************************************************************************)
Register(i, o, k, d) ==
    /\ i \notin issued
    /\ k # NoKey => idempotency[k] = NoId
    /\ pendingCount < MaxPending
    /\ issued' = issued \cup {i}
    /\ state' = [state EXCEPT ![i] = "pending"]
    /\ owner' = [owner EXCEPT ![i] = o]
    /\ keyOf' = [keyOf EXCEPT ![i] = k]
    /\ idempotency' = [x \in Keys |-> IF x = k THEN i ELSE idempotency[x]]
    /\ discardResult' = [discardResult EXCEPT ![i] = d]
    /\ pendingCount' = pendingCount + 1
    /\ running' = running \cup {i}
    /\ UNCHANGED <<completedOrder, subscribers, gen, callVars, remaining, immediate,
                   queue, stream, gone, handed, owed>>

\* The entries of S and their keys are deleted.
Drop(S) ==
    /\ keyOf' = [i \in Ids |-> IF i \in S THEN NoKey ELSE keyOf[i]]
    /\ idempotency' = [k \in Keys |-> IF \E i \in S : keyOf[i] = k THEN NoId
                                      ELSE idempotency[k]]

\* cancel by the owner of a pending future; for others it throws, and for a
\* completed one it does nothing.
Cancel_KeepsCount(i) ==
    /\ state[i] = "pending"
    /\ state' = [state EXCEPT ![i] = "absent"]
    /\ Drop({i})
    /\ UNCHANGED <<pendingCount, owner, discardResult, completedOrder, running,
                   subscribers, gen, callVars, remaining, immediate, queue,
                   stream, gone, issued, handed, owed>>
Cancel(i) ==
    /\ state[i] = "pending"
    /\ state' = [state EXCEPT ![i] = "absent"]
    /\ pendingCount' = pendingCount - 1
    /\ Drop({i})
    /\ UNCHANGED <<owner, discardResult, completedOrder, running, subscribers,
                   gen, callVars, remaining, immediate, queue, stream, gone,
                   issued, handed, owed>>
-----------------------------------------------------------------------------
(***************************************************************************)
(* complete.                                                               *)
(***************************************************************************)
\* The subscribers the result of i is for.
Wants(s, i) == subOwner[s] = owner[i] /\ (wild[s] \/ i \in remaining[s])

Full(s) == Len(queue[s]) >= BufferCapacity

\* The loop over the subscribers: a full one is failed and dropped, the
\* others get the result, and one that waits for no more ids is closed.
Notify(i) ==
    LET matching == {s \in subscribers : Wants(s, i)}
        given    == {s \in matching : ~ Full(s)}
        failed   == matching \ given
        last     == {s \in given : ~ wild[s] /\ remaining[s] = {i}}
    IN  /\ queue' = [s \in Subs |-> IF s \in failed THEN <<>>
                                    ELSE IF s \in given THEN Append(queue[s], i)
                                    ELSE queue[s]]
        /\ stream' = [s \in Subs |-> IF s \in failed THEN "errored"
                                     ELSE IF s \in last THEN "closing"
                                     ELSE stream[s]]
        /\ remaining' = [s \in Subs |-> IF s \in given THEN remaining[s] \ {i}
                                        ELSE remaining[s]]
        /\ subscribers' = subscribers \ (failed \cup last)
        /\ owed' = [s \in Subs |-> IF s \in matching THEN owed[s] \cup {i}
                                     ELSE owed[s]]

\* The loop at its end takes what exceeds the limit from the queue.
Excess(order) == IF Len(order) > MaxCompleted THEN Len(order) - MaxCompleted ELSE 0

\* A discarded result is given to the subscribers and not kept.
CompleteDiscard(i) ==
    /\ state' = [state EXCEPT ![i] = "absent"]
    /\ Drop({i})
    /\ UNCHANGED completedOrder

CompleteKeep(i) ==
    LET order   == Append(completedOrder, i)
        evicted == Elems(SubSeq(order, 1, Excess(order)))
    IN  /\ completedOrder' = SubSeq(order, Excess(order) + 1, Len(order))
        /\ state' = [j \in Ids |-> IF j \in evicted THEN "absent"
                                   ELSE IF j = i THEN "completed" ELSE state[j]]
        /\ Drop(evicted)

\* The execution of i settles; nothing happens if it was cancelled.
Complete(i) ==
    /\ i \in running
    /\ running' = running \ {i}
    /\ \/ /\ state[i] # "pending"
          /\ UNCHANGED <<state, keyOf, idempotency, completedOrder, pendingCount,
                         subscribers, remaining, queue, stream, owed>>
       \/ /\ state[i] = "pending"
          /\ pendingCount' = pendingCount - 1
          /\ Notify(i)
          /\ IF discardResult[i] THEN CompleteDiscard(i) ELSE CompleteKeep(i)
    /\ UNCHANGED <<owner, discardResult, gen, callVars, immediate, gone, issued, handed>>
-----------------------------------------------------------------------------
(***************************************************************************)
(* handleResolve: the first turn of the generator subscribes, for the ids  *)
(* T or, with w, for all futures (an empty list means the same).           *)
(***************************************************************************)
Snapshot(s, w, T) ==
    {i \in Ids : /\ state[i] = "completed" /\ owner[i] = subOwner[s]
                 /\ w \/ i \in T}

Rest(s, w, T) == T \ Snapshot(s, w, T)

Subscribe(s, w, T) ==
    /\ gen[s] = "new" /\ s \notin gone
    /\ IF w THEN T = {} ELSE T # {}
    /\ gen' = [gen EXCEPT ![s] = "immediate"]
    /\ wild' = [wild EXCEPT ![s] = w]
    /\ target' = [target EXCEPT ![s] = T]
    /\ immediate' = [immediate EXCEPT ![s] = Snapshot(s, w, T)]
    /\ remaining' = [remaining EXCEPT ![s] = Rest(s, w, T)]
    /\ IF ~ w /\ Rest(s, w, T) = {}
       THEN stream' = [stream EXCEPT ![s] = "closing"] /\ UNCHANGED subscribers
       ELSE subscribers' = subscribers \cup {s} /\ UNCHANGED stream
    /\ owed' = [owed EXCEPT ![s] = Snapshot(s, w, T)]
    /\ UNCHANGED <<entryVars, subOwner, queue, gone, issued, handed>>

\* stream.cancel: the queue is dropped and the subscriber deleted.
CancelStream(s) ==
    /\ stream' = [stream EXCEPT ![s] = "cancelled"]
    /\ queue' = [queue EXCEPT ![s] = <<>>]
    /\ subscribers' = subscribers \ {s}

HandOver(s, i) == handed' = [handed EXCEPT ![s][i] = @ + 1]

Resolved(s) == {i \in Ids : handed[s][i] > 0}

\* isSubset(target, resolved), which ends a filtered call.
AllResolved_Swapped(s, R) == ~ wild[s] /\ R \subseteq target[s]
AllResolved(s, R) == ~ wild[s] /\ target[s] \subseteq R

YieldImmediate(s) ==
    /\ gen[s] = "immediate"
    /\ \E i \in immediate[s] :
          /\ immediate' = [immediate EXCEPT ![s] = @ \ {i}]
          /\ HandOver(s, i)
    /\ UNCHANGED <<entryVars, subscribers, gen, callVars, remaining, queue, stream,
                   gone, issued, owed>>

\* After the snapshot: everything is resolved, or the stream is read.
BeginReading(s) ==
    /\ gen[s] = "immediate" /\ immediate[s] = {}
    /\ IF AllResolved(s, Resolved(s))
       THEN gen' = [gen EXCEPT ![s] = "done"] /\ CancelStream(s)
       ELSE /\ gen' = [gen EXCEPT ![s] = "reading"]
            /\ UNCHANGED <<stream, queue, subscribers>>
    /\ UNCHANGED <<entryVars, callVars, remaining, immediate, gone, issued, handed,
                   owed>>

\* One turn of the reading loop, with its finally when it leaves.
Read_NoError(s) ==
    /\ gen[s] = "reading"
    /\ \/ /\ queue[s] # <<>> /\ s \notin gone
          /\ HandOver(s, Head(queue[s]))
          /\ IF AllResolved(s, Resolved(s) \cup {Head(queue[s])})
             THEN gen' = [gen EXCEPT ![s] = "done"] /\ CancelStream(s)
             ELSE /\ queue' = [queue EXCEPT ![s] = Tail(@)]
                  /\ UNCHANGED <<gen, stream, subscribers>>
       \/ /\ s \in gone /\ gen' = [gen EXCEPT ![s] = "failed"]
          /\ CancelStream(s)
          /\ UNCHANGED handed
    /\ UNCHANGED <<entryVars, callVars, remaining, immediate, gone, issued, owed>>
Read(s) ==
    /\ gen[s] = "reading"
    /\ \/ /\ queue[s] # <<>> /\ s \notin gone
          /\ HandOver(s, Head(queue[s]))
          /\ IF AllResolved(s, Resolved(s) \cup {Head(queue[s])})
             THEN gen' = [gen EXCEPT ![s] = "done"] /\ CancelStream(s)
             ELSE /\ queue' = [queue EXCEPT ![s] = Tail(@)]
                  /\ UNCHANGED <<gen, stream, subscribers>>
       \/ /\ queue[s] # <<>> \/ stream[s] # "readable"
          /\ \/ s \in gone /\ gen' = [gen EXCEPT ![s] = "failed"]
             \/ /\ s \notin gone /\ queue[s] = <<>>
                /\ gen' = [gen EXCEPT ![s] = IF stream[s] = "errored" THEN "failed"
                                             ELSE "done"]
          /\ CancelStream(s)
          /\ UNCHANGED handed
    /\ UNCHANGED <<entryVars, callVars, remaining, immediate, gone, issued, owed>>

\* The client goes away.  The abort listener exists only while the generator
\* reads; the transport may also return the generator where it yields.
Abort(s) ==
    /\ gen[s] \in {"immediate", "reading"} /\ s \notin gone
    /\ gone' = gone \cup {s}
    /\ IF gen[s] = "reading" THEN CancelStream(s)
                             ELSE UNCHANGED <<stream, queue, subscribers>>
    /\ UNCHANGED <<entryVars, gen, callVars, remaining, immediate, issued, handed,
                   owed>>

ReturnGenerator(s) ==
    /\ s \in gone /\ gen[s] = "immediate" /\ Resolved(s) # {}
    /\ gen' = [gen EXCEPT ![s] = "left"]
    /\ UNCHANGED <<entryVars, subscribers, callVars, remaining, immediate, queue,
                   stream, gone, issued, handed, owed>>
-----------------------------------------------------------------------------
GeneratorStep(s) == YieldImmediate(s) \/ BeginReading(s) \/ Read(s)

Next ==
    \/ \E i \in Ids : \/ \E o \in Owners, k \in Keys \cup {NoKey}, d \in BOOLEAN :
                            Register(i, o, k, d)
                      \/ Cancel(i) \/ Complete(i)
    \/ \E s \in Subs : \/ \E w \in BOOLEAN, T \in SUBSET Ids : Subscribe(s, w, T)
                       \/ GeneratorStep(s) \/ Abort(s) \/ ReturnGenerator(s)

Spec == Init /\ [][Next]_vars

-----------------------------------------------------------------------------
\* The counter that enforces maxPendingFutures is the number of pending
\* entries, through completion, discard and cancel.
PendingCountExact == pendingCount = Cardinality({i \in Ids : state[i] = "pending"})

\* A key leads to the entry that was registered with it, for exactly as long
\* as that entry exists: a retry finds it, and a cancelled, discarded or
\* evicted future releases its key.
KeysFollowEntries ==
    \A k \in Keys, i \in Ids :
        idempotency[k] = i <=> keyOf[i] = k /\ state[i] # "absent"

\* The completed entries are those in the queue, at most maxCompleted.
RetentionWindow ==
    /\ Elems(completedOrder) = {i \in Ids : state[i] = "completed"}
    /\ Len(completedOrder) = Cardinality(Elems(completedOrder))
    /\ Len(completedOrder) <= MaxCompleted

\* Results that are owed to a resolve call wait in its snapshot or its queue,
\* or were yielded, and that only once: no order of subscribe, complete and
\* eviction loses or repeats one while the stream has not failed.
NothingLostOrRepeated ==
    \A s \in Subs, i \in Ids :
        LET inSnapshot == IF i \in immediate[s] THEN 1 ELSE 0
            inQueue    == Cardinality({n \in 1 .. Len(queue[s]) : queue[s][n] = i})
            copies     == handed[s][i] + inSnapshot + inQueue
        IN  /\ copies <= 1
            /\ /\ i \in owed[s] /\ stream[s] \notin {"errored", "cancelled"}
               => copies = 1

\* A resolve call is only given results of its caller's futures.
OwnerIsolation ==
    \A s \in Subs, i \in Ids : handed[s][i] > 0 => owner[i] = subOwner[s]

\* A filtered call that ends normally has yielded every id it asked for.
DoneMeansAllResolved ==
    \A s \in Subs : gen[s] = "done" => ~ wild[s] /\ target[s] \subseteq Resolved(s)

\* A result that is owed to a client that stays is yielded to it, or the call
\* fails: a full buffer is never a silent loss.
OwedIsYielded ==
    \A s \in Subs, i \in Ids :
        i \in owed[s] ~> handed[s][i] > 0 \/ gen[s] = "failed" \/ s \in gone
=============================================================================
