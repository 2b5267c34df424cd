--------------------------- MODULE FutureResolver ---------------------------
(***************************************************************************)
(* The client side of Swift futures                                        *)
(* (plugins/swift/Sources/SwiftBebop/RPC/Client/FutureResolver.swift).     *)
(*                                                                         *)
(* Callers of `await` park a continuation in `pending`; one background     *)
(* task consumes the resolve stream, resumes the waiters of each result    *)
(* and, when the stream ends, fails whoever is left.  A continuation must  *)
(* be resumed exactly once: a second resume traps, none hangs the caller.  *)
(* Every `_state.withLock` section is one step.  The code removes an entry *)
(* under the lock and resumes it after releasing it: `held` is the set of  *)
(* continuations somebody has removed and is about to resume.              *)
(*                                                                         *)
(* A waiter is one call of `await`, so it stands for its entryId too.      *)
(***************************************************************************)
EXTENDS Integers, Sequences, FiniteSets

CONSTANTS
    Ids,           \* futures
    Waiters,       \* calls of await
    MaxCompleted   \* maxCompletedResults

ASSUME FutureResolverAssumption == MaxCompleted \in Nat /\ IsFiniteSet(Ids)

VARIABLES
    \* struct ResolverState
    pending,         \* the waiters whose entry is in the dictionary
    completed,       \* the ids whose outcome is cached
    completedOrder,
    evictionOffset,  \* completedEvictionOffset
    streamTask,      \* TRUE: not nil
    \* the calls
    wid,             \* the id a waiter asks for
    pc,              \* where its call is
    isCancelled,     \* the waiters whose calling task is cancelled
    onCancel,        \* those whose cancellation handler has yet to run
    held,            \* per outcome, continuations about to be resumed
    resumes,         \* how often a continuation was resumed
    \* the stream task and the server behind it
    stream,          \* "none", "consuming" or "ended"
    available,       \* results the server retains
    sent             \* results sent on the present stream

cacheVars  == <<completed, completedOrder, evictionOffset>>
callVars   == <<wid, pc, isCancelled, onCancel>>
streamVars == <<streamTask, stream, available, sent>>
vars == <<pending, cacheVars, callVars, held, resumes, streamVars>>

Outcomes == {"result", "cancelled", "failed"}

TypeOK ==
    /\ pending \in SUBSET Waiters
    /\ completed \in SUBSET Ids
    /\ completedOrder \in Seq(Ids)
    /\ evictionOffset \in 0 .. Len(completedOrder)
    /\ streamTask \in BOOLEAN
    /\ wid \in [Waiters -> Ids]
    /\ pc \in [Waiters -> {"idle", "entered", "registered", "waiting", "done"}]
    /\ isCancelled \in SUBSET Waiters
    /\ onCancel \in SUBSET Waiters
    /\ held \in [Outcomes -> SUBSET Waiters]
    /\ resumes \in [Waiters -> Nat]
    /\ stream \in {"none", "consuming", "ended"}
    /\ available \in SUBSET Ids
    /\ sent \in SUBSET Ids

Init ==
    /\ pending = {}
    /\ completed = {} /\ completedOrder = <<>> /\ evictionOffset = 0
    /\ streamTask = FALSE
    /\ wid \in [Waiters -> Ids]
    /\ pc = [w \in Waiters |-> "idle"]
    /\ isCancelled = {}
    /\ onCancel = {}
    /\ held = [o \in Outcomes |-> {}]
    /\ resumes = [w \in Waiters |-> 0]
    /\ stream = "none"
    /\ available = {} /\ sent = {}

\* The waiters in the entry list of one future.
Entries(i) == {w \in pending : wid[w] = i}
-----------------------------------------------------------------------------
(***************************************************************************)
(* await.                                                                  *)
(***************************************************************************)
\* A cached outcome is returned at once; otherwise the call takes an entry
\* id and enters withTaskCancellationHandler.
Await(w) ==
    /\ pc[w] = "idle"
    /\ pc' = [pc EXCEPT ![w] = IF wid[w] \in completed THEN "done"
                                                        ELSE "entered"]
    /\ UNCHANGED <<pending, cacheVars, wid, isCancelled, onCancel, held,
                   resumes, streamVars>>

\* The locked section around the continuation: the cache is read again and
\* the cancellation flag is read before the entry is parked.
Register_NoRecheck(w) ==
    /\ pc[w] = "entered"
    /\ IF w \in isCancelled
       THEN /\ resumes' = [resumes EXCEPT ![w] = @ + 1]
            /\ pc' = [pc EXCEPT ![w] = "done"]
            /\ UNCHANGED pending
       ELSE /\ pending' = pending \cup {w}
            /\ pc' = [pc EXCEPT ![w] = "registered"]
            /\ UNCHANGED resumes
    /\ UNCHANGED <<cacheVars, wid, isCancelled, onCancel, held, streamVars>>
Register_IgnoresCancel(w) ==
    /\ pc[w] = "entered"
    /\ IF wid[w] \in completed
       THEN /\ resumes' = [resumes EXCEPT ![w] = @ + 1]
            /\ pc' = [pc EXCEPT ![w] = "done"]
            /\ UNCHANGED pending
       ELSE /\ pending' = pending \cup {w}
            /\ pc' = [pc EXCEPT ![w] = "registered"]
            /\ UNCHANGED resumes
    /\ UNCHANGED <<cacheVars, wid, isCancelled, onCancel, held, streamVars>>
Register(w) ==
    /\ pc[w] = "entered"
    /\ IF wid[w] \in completed \/ w \in isCancelled
       THEN /\ resumes' = [resumes EXCEPT ![w] = @ + 1]
            /\ pc' = [pc EXCEPT ![w] = "done"]
            /\ UNCHANGED pending
       ELSE /\ pending' = pending \cup {w}
            /\ pc' = [pc EXCEPT ![w] = "registered"]
            /\ UNCHANGED resumes
    /\ UNCHANGED <<cacheVars, wid, isCancelled, onCancel, held, streamVars>>

\* ensureResolveStream: a locked section of its own, after Register's.  The
\* caller may have been resumed in between.
EnsureResolveStream(w) ==
    /\ pc[w] = "registered"
    /\ pc' = [pc EXCEPT ![w] = "waiting"]
    /\ IF streamTask
       THEN UNCHANGED streamVars
       ELSE /\ streamTask' = TRUE
            /\ stream' = "consuming"
            /\ sent' = {}
            /\ UNCHANGED available
    /\ UNCHANGED <<pending, cacheVars, wid, isCancelled, onCancel, held, resumes>>

\* The calling task is cancelled while the call is under way; the runtime
\* sets the flag and then runs the handler.
CancelTask(w) ==
    /\ pc[w] \in {"entered", "registered", "waiting"}
    /\ resumes[w] = 0
    /\ w \notin isCancelled
    /\ isCancelled' = isCancelled \cup {w}
    /\ onCancel' = onCancel \cup {w}
    /\ UNCHANGED <<pending, cacheVars, wid, pc, held, resumes, streamVars>>

\* onCancel: takes the entry out if it is still there.
OnCancel_LeavesEntry(w) ==
    /\ w \in onCancel
    /\ onCancel' = onCancel \ {w}
    /\ held' = [held EXCEPT !["cancelled"] = @ \cup ({w} \cap pending)]
    /\ UNCHANGED <<pending, cacheVars, wid, pc, isCancelled, resumes, streamVars>>
OnCancel(w) ==
    /\ w \in onCancel
    /\ onCancel' = onCancel \ {w}
    /\ held' = [held EXCEPT !["cancelled"] = @ \cup ({w} \cap pending)]
    /\ pending' = pending \ {w}
    /\ UNCHANGED <<cacheVars, wid, pc, isCancelled, resumes, streamVars>>

\* continuation.resume by whoever removed the entry.
Resume(w, o) ==
    /\ w \in held[o]
    /\ held' = [held EXCEPT ![o] = @ \ {w}]
    /\ resumes' = [resumes EXCEPT ![w] = @ + 1]
    /\ UNCHANGED <<pending, cacheVars, callVars, streamVars>>

\* The suspended call returns once it has been resumed and its closure ended.
Return(w) ==
    /\ pc[w] = "waiting" /\ resumes[w] > 0
    /\ pc' = [pc EXCEPT ![w] = "done"]
    /\ UNCHANGED <<pending, cacheVars, wid, isCancelled, onCancel, held,
                   resumes, streamVars>>
-----------------------------------------------------------------------------
(***************************************************************************)
(* cancel: after the server accepted the request, all waiters of the       *)
(* future fail.  A request that throws changes nothing.                    *)
(***************************************************************************)
Cancel(i) ==
    /\ Entries(i) # {}
    /\ held' = [held EXCEPT !["cancelled"] = @ \cup Entries(i)]
    /\ pending' = pending \ Entries(i)
    /\ UNCHANGED <<cacheVars, callVars, resumes, streamVars>>

(***************************************************************************)
(* The stream task.                                                        *)
(***************************************************************************)
Excess(order) ==
    LET active == Len(order) - evictionOffset
    IN  IF active > MaxCompleted THEN active - MaxCompleted ELSE 0

Evicted(order) == {order[evictionOffset + n] : n \in 1 .. Excess(order)}

Compacted(order, offset) ==
    IF offset > 0 /\ offset >= Len(order) \div 2
    THEN [order |-> SubSeq(order, offset + 1, Len(order)), offset |-> 0]
    ELSE [order |-> order, offset |-> offset]

\* resolve(result): caches the outcome, evicts, and takes the waiters out.  A
\* result that is cached already is ignored.  The task resumes the waiters of
\* one result before it reads the next.
Resolve(i) ==
    LET order == Append(completedOrder, i)
        queue == Compacted(order, evictionOffset + Excess(order))
    IN  /\ stream = "consuming" /\ held["result"] = {}
        /\ i \in available \ sent
        /\ sent' = sent \cup {i}
        /\ IF i \in completed
           THEN UNCHANGED <<pending, cacheVars, held>>
           ELSE /\ completed' = (completed \cup {i}) \ Evicted(order)
                /\ completedOrder' = queue.order
                /\ evictionOffset' = queue.offset
                /\ held' = [held EXCEPT !["result"] = Entries(i)]
                /\ pending' = pending \ Entries(i)
        /\ UNCHANGED <<callVars, resumes, streamTask, stream, available>>

\* consumeResolveStream returns or throws: the server closed the stream, the
\* connection failed, or an element did not decode.
StreamEnds ==
    /\ stream = "consuming" /\ held["result"] = {}
    /\ stream' = "ended"
    /\ UNCHANGED <<pending, cacheVars, callVars, held, resumes, streamTask,
                   available, sent>>

\* The last locked section of the task: it clears streamTask and takes every
\* waiter out in one step.
StreamCleanup_KeepsWaiters ==
    /\ stream = "ended"
    /\ stream' = "none"
    /\ streamTask' = FALSE
    /\ UNCHANGED <<pending, held, cacheVars, callVars, resumes, available, sent>>
StreamCleanup ==
    /\ stream = "ended"
    /\ stream' = "none"
    /\ streamTask' = FALSE
    /\ held' = [held EXCEPT !["failed"] = @ \cup pending]
    /\ pending' = {}
    /\ UNCHANGED <<cacheVars, callVars, resumes, available, sent>>

\* A future completes on the server, which keeps its result and sends it on
\* the open stream, or in the first part of the next one.
ServerCompletes(i) ==
    /\ i \notin available
    /\ available' = available \cup {i}
    /\ UNCHANGED <<pending, cacheVars, callVars, held, resumes, streamTask,
                   stream, sent>>
-----------------------------------------------------------------------------
CallStep(w) ==
    \/ Await(w) \/ Register(w) \/ EnsureResolveStream(w)
    \/ OnCancel(w) \/ \E o \in Outcomes : Resume(w, o)
    \/ Return(w)

Next ==
    \/ \E w \in Waiters : CallStep(w) \/ CancelTask(w)
    \/ \E i \in Ids : Cancel(i) \/ Resolve(i) \/ ServerCompletes(i)
    \/ StreamEnds \/ StreamCleanup

Spec == Init /\ [][Next]_vars

-----------------------------------------------------------------------------
(***************************************************************************)
(* Properties.                                                             *)
(***************************************************************************)
\* The outcomes with which somebody is about to resume w.
Holders(w) == {o \in Outcomes : w \in held[o]}

Parked(w)  == w \in pending /\ Holders(w) = {}
Taken(w)   == w \notin pending /\ \E o \in Outcomes : Holders(w) = {o}
Released(w) == w \notin pending /\ Holders(w) = {}

\* A parked continuation has exactly one owner until it is resumed, and it is
\* resumed once: a result, a cancellation of the caller, a cancel of the
\* future and the end of the stream may all race for it.
ResumedExactlyOnce ==
    \A w \in Waiters :
        pc[w] \in {"registered", "waiting"} =>
            \/ resumes[w] = 0 /\ (Parked(w) \/ Taken(w))
            \/ resumes[w] = 1 /\ Released(w)

\* Somebody waits only while a stream task exists that will resume or fail
\* them, or while the waiter that parked itself is about to start one: the
\* end of a stream never leaves a waiter behind.
WaitersAreServed ==
    pending # {} => streamTask \/ \E w \in Waiters : pc[w] = "registered"

\* Nobody waits for a result that is already in the cache, though the lock is
\* released between the first look at the cache and the registration.
NobodyWaitsForCached == \A w \in pending : wid[w] \notin completed

\* A cancelled caller is never left waiting: its entry is gone, or the handler
\* that removes it has yet to run, on whichever side of the registration the
\* cancellation came.
CancellationNotLost == pending \cap isCancelled \subseteq onCancel
=============================================================================
