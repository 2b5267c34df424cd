-------------------------- MODULE TsFutureResolver --------------------------
(***************************************************************************)
(* The client-side future resolver of the TypeScript runtime: the class    *)
(* FutureResolver of plugins/typescript/packages/runtime/src/rpc/future.ts.*)
(*                                                                         *)
(* Calls of resolve wait for promises kept in a Map from future id to a    *)
(* Set; one wildcard resolve stream settles them.  JavaScript runs one job *)
(* at a time, so every stretch between two awaits is one step, and jobs of *)
(* the application may run between any two of them.  Two gaps matter: the  *)
(* stream task has handled its failure before its finally handler resets   *)
(* resolveTask, and a promise is settled before the call that awaits it    *)
(* removes its abort handler.                                              *)
(*                                                                         *)
(* A Set of waiting calls is named by the call that created it, so that an *)
(* abort handler that still holds an old Set can be told apart.            *)
(***************************************************************************)
EXTENDS Integers, Sequences, FiniteSets

CONSTANTS
    Ids,                  \* future ids
    Waiters,              \* calls of resolve
    Signals,              \* the calls that were given an abort signal
    MaxCompletedResults,  \* maxCompletedResults
    NoSet

ASSUME TsFutureResolverAssumption ==
    /\ Signals \subseteq Waiters
    /\ MaxCompletedResults \in Nat
    /\ NoSet \notin Waiters

VARIABLES
    pending,         \* per id, the Set of the calls that wait for it
    setOf,           \* per call, the Set it was put into
    members,         \* calls that are still in their Set
    completed,       \* ids with a cached outcome
    completedOrder,  \* their FIFO queue
    stream,          \* "none": resolveTask is undefined; "opening", "open";
                     \* "handled": failure handled, finally not yet run
    aborting,        \* resolveContext was cancelled by close
    closed,
    \* the calls
    callPc,          \* "idle", "waiting", "settled" or "done"
    wid,             \* the id a call asked for
    settlement,      \* how its promise was settled
    aborted,         \* calls whose signal has fired
    \* the server
    finished,        \* ids whose result the server has
    sent             \* ids sent on the present stream

callVars   == <<callPc, wid, settlement, aborted>>
cacheVars  == <<completed, completedOrder>>
serverVars == <<finished, sent>>
clientVars == <<pending, setOf, members, cacheVars, stream, aborting, closed,
          callVars, serverVars>>

Settlements == {"none", "value", "error", "cancelled", "aborted", "closed"}

ClientTypeOK ==
    /\ pending \in [Ids -> Waiters \cup {NoSet}]
    /\ setOf \in [Waiters -> Waiters \cup {NoSet}]
    /\ members \in SUBSET Waiters
    /\ completed \in SUBSET Ids
    /\ completedOrder \in Seq(Ids)
    /\ stream \in {"none", "opening", "open", "handled"}
    /\ aborting \in BOOLEAN /\ closed \in BOOLEAN
    /\ callPc \in [Waiters -> {"idle", "waiting", "settled", "done"}]
    /\ wid \in [Waiters -> Ids]
    /\ settlement \in [Waiters -> Settlements]
    /\ aborted \in SUBSET Waiters
    /\ finished \in SUBSET Ids
    /\ sent \in SUBSET Ids

ClientInit ==
    /\ pending = [i \in Ids |-> NoSet]
    /\ setOf = [w \in Waiters |-> NoSet]
    /\ members = {}
    /\ completed = {} /\ completedOrder = <<>>
    /\ stream = "none" /\ aborting = FALSE /\ closed = FALSE
    /\ callPc = [w \in Waiters |-> "idle"]
    /\ wid \in [Waiters -> Ids]
    /\ settlement = [w \in Waiters |-> "none"]
    /\ aborted = {}
    /\ finished = {} /\ sent = {}

\* The calls in the Set that pending has for i.
Entries(i) == {w \in members : setOf[w] = pending[i]}

\* The promises of the calls in W are settled; settling again is no-op.
Settle(W, o) ==
    LET now == {w \in W : callPc[w] = "waiting"}
    IN  /\ callPc' = [w \in Waiters |-> IF w \in now THEN "settled" ELSE callPc[w]]
        /\ settlement' = [w \in Waiters |-> IF w \in now THEN o ELSE settlement[w]]
-----------------------------------------------------------------------------
(***************************************************************************)
(* resolve.                                                                *)
(***************************************************************************)
\* It returns without waiting: closed, aborted before, or cached.
ResolveNow(w) ==
    /\ callPc[w] = "idle"
    /\ \E o \in Settlements :
          /\ \/ o = "closed" /\ closed
             \/ o = "aborted" /\ ~ closed /\ w \in aborted
             \/ o = "value" /\ ~ closed /\ w \notin aborted /\ wid[w] \in completed
          /\ settlement' = [settlement EXCEPT ![w] = o]
    /\ callPc' = [callPc EXCEPT ![w] = "done"]
    /\ UNCHANGED <<pending, setOf, members, cacheVars, stream, aborting, closed,
                   wid, aborted, serverVars>>

\* Its promise goes into the Set of its id, and ensureStream starts a stream
\* task unless there is one.
Resolve(w) ==
    /\ callPc[w] = "idle" /\ ~ closed /\ w \notin aborted
    /\ wid[w] \notin completed
    /\ LET set == IF pending[wid[w]] = NoSet THEN w ELSE pending[wid[w]]
       IN  /\ pending' = [pending EXCEPT ![wid[w]] = set]
           /\ setOf' = [setOf EXCEPT ![w] = set]
    /\ members' = members \cup {w}
    /\ callPc' = [callPc EXCEPT ![w] = "waiting"]
    /\ IF stream = "none"
       THEN stream' = "opening" /\ sent' = {}
       ELSE UNCHANGED <<stream, sent>>
    /\ UNCHANGED <<cacheVars, aborting, closed, wid, settlement, aborted, finished>>

\* The continuation of the await: the abort handler is removed.
Return(w) ==
    /\ callPc[w] = "settled"
    /\ callPc' = [callPc EXCEPT ![w] = "done"]
    /\ UNCHANGED <<pending, setOf, members, cacheVars, stream, aborting, closed,
                   wid, settlement, aborted, serverVars>>

\* A signal fires.  While its handler is installed it takes the call out of
\* its Set, and an empty Set out of the Map (whatever the Map has there).
AbortHandler(w) ==
    /\ members' = members \ {w}
    /\ pending' = IF \E v \in members \ {w} : setOf[v] = setOf[w] THEN pending
                  ELSE [pending EXCEPT ![wid[w]] = NoSet]
    /\ Settle({w}, "aborted")

Abort(w) ==
    /\ w \in Signals \ aborted
    /\ aborted' = aborted \cup {w}
    /\ IF callPc[w] \in {"waiting", "settled"}
       THEN AbortHandler(w)
       ELSE UNCHANGED <<members, pending, callPc, settlement>>
    /\ UNCHANGED <<setOf, cacheVars, stream, aborting, closed, wid, serverVars>>
-----------------------------------------------------------------------------
\* cancel, once the server has answered the cancel request.
Cancel_KeepsEntries(i) ==
    /\ Entries(i) # {}
    /\ Settle(Entries(i), "cancelled")
    /\ UNCHANGED <<pending, setOf, members, cacheVars, stream, aborting, closed,
                   wid, aborted, serverVars>>
Cancel(i) ==
    /\ Entries(i) # {}
    /\ Settle(Entries(i), "cancelled")
    /\ pending' = [pending EXCEPT ![i] = NoSet]
    /\ UNCHANGED <<setOf, members, cacheVars, stream, aborting, closed, wid,
                   aborted, serverVars>>

CloseResolver ==
    /\ ~ closed
    /\ closed' = TRUE
    /\ aborting' = (stream \in {"opening", "open"})
    /\ UNCHANGED <<pending, setOf, members, cacheVars, stream, callVars, serverVars>>
-----------------------------------------------------------------------------
(***************************************************************************)
(* consumeResolveStream and complete.                                      *)
(***************************************************************************)
StreamOpens ==
    /\ stream = "opening"
    /\ stream' = "open"
    /\ UNCHANGED <<pending, setOf, members, cacheVars, aborting, closed, callVars,
                   serverVars>>

\* How many entries the loop of complete takes from the front of the queue.
Excess(order) ==
    IF Len(order) > MaxCompletedResults THEN Len(order) - MaxCompletedResults ELSE 0

Elems(s) == {s[n] : n \in 1 .. Len(s)}

\* The calls that wait for i are given its outcome.
Deliver(i) ==
    /\ Settle(Entries(i), "value")
    /\ pending' = [pending EXCEPT ![i] = NoSet]

\* One result of the stream.  A result that is cached already is ignored.
Complete(i) ==
    /\ stream = "open" /\ i \in finished \ sent
    /\ sent' = sent \cup {i}
    /\ IF i \in completed
       THEN UNCHANGED <<cacheVars, pending, callPc, settlement>>
       ELSE /\ LET order == Append(completedOrder, i)
               IN  /\ completedOrder' = SubSeq(order, Excess(order) + 1, Len(order))
                   /\ completed' = (completed \cup {i})
                                      \ Elems(SubSeq(order, 1, Excess(order)))
            /\ Deliver(i)
    /\ UNCHANGED <<setOf, members, stream, aborting, closed, wid, aborted, finished>>

\* The stream ends, fails or is aborted: every promise in the Map is rejected
\* and the Map cleared.
StreamFails ==
    /\ stream \in {"opening", "open"}
    /\ stream' = "handled"
    /\ aborting' = FALSE
    /\ Settle(UNION {Entries(i) : i \in Ids}, "error")
    /\ pending' = [i \in Ids |-> NoSet]
    /\ UNCHANGED <<setOf, members, cacheVars, closed, wid, aborted, serverVars>>

\* The finally handler of ensureStream.
StreamFinally ==
    /\ stream = "handled"
    /\ stream' = "none"
    /\ UNCHANGED <<pending, setOf, members, cacheVars, aborting, closed, callVars,
                   serverVars>>

\* The server finishes a future.
ServerFinishes(i) ==
    /\ i \notin finished
    /\ finished' = finished \cup {i}
    /\ UNCHANGED <<pending, setOf, members, cacheVars, stream, aborting, closed,
                   callVars, sent>>
-----------------------------------------------------------------------------
ClientNext ==
    \/ \E w \in Waiters : ResolveNow(w) \/ Resolve(w) \/ Return(w) \/ Abort(w)
    \/ \E i \in Ids : Cancel(i) \/ Complete(i) \/ ServerFinishes(i)
    \/ CloseResolver \/ StreamOpens \/ StreamFails \/ StreamFinally

ClientSpec == ClientInit /\ [][ClientNext]_clientVars

\* Queued jobs run, an open stream delivers what the server has, and a stream
\* ends once its context is cancelled.
FairSpec ==
    /\ ClientSpec
    /\ \A w \in Waiters : WF_clientVars(Return(w))
    /\ \A i \in Ids : WF_clientVars(Complete(i))
    /\ WF_clientVars(StreamOpens) /\ WF_clientVars(StreamFinally)
    /\ WF_clientVars(aborting /\ StreamFails)
-----------------------------------------------------------------------------
\* A call in the Map has not been settled, and waits for a result that is not
\* in the cache: cancel, abort, failure and eviction leave no stale entry that
\* a later result would be spent on, or that nothing would settle again.  The
\* cache and its queue hold the same ids, no more than the limit.
EntriesAreWaiting ==
    /\ \A i \in Ids : \A w \in Entries(i) :
          callPc[w] = "waiting" /\ wid[w] = i /\ i \notin completed
    /\ Elems(completedOrder) = completed
    /\ Len(completedOrder) = Cardinality(completed)
    /\ Len(completedOrder) <= MaxCompletedResults

\* RPC.md 14.7: "If the future is still running, the result arrives when it
\* finishes": a call that waits for a result the server has returns, unless
\* the resolver is closed.
ResultArrives ==
    \A w \in Waiters :
        callPc[w] = "waiting" /\ wid[w] \in finished ~> callPc[w] = "done" \/ closed
=============================================================================
