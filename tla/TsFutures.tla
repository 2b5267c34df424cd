------------------------------ MODULE TsFutures ------------------------------
(***************************************************************************)
(* Both ends of TypeScript futures over the same ids: TsFutureResolver at  *)
(* a client, TsFutureStorage at a server.  A behaviour is of one end; the  *)
(* other end is what each module assumes of it.                            *)
(***************************************************************************)
EXTENDS TsFutureResolver

CONSTANTS Owners, Keys, NoKey, NoId, Subs, MaxPending, MaxCompleted, BufferCapacity

VARIABLES
    end,     \* "client" or "server"
    \* TsFutureStorage
    state, owner, keyOf, discardResult, idempotency, retainedOrder, pendingCount,
    subscribers, executing, gen, subOwner, wild, target, remaining, immediate,
    queue, reader, gone, issued, handed, owed

storageVars == <<state, owner, keyOf, discardResult, idempotency, retainedOrder,
                 pendingCount, subscribers, executing, gen, subOwner, wild, target,
                 remaining, immediate, queue, reader, gone, issued, handed, owed>>
futuresVars == <<clientVars, end, storageVars>>

Storage == INSTANCE TsFutureStorage
             WITH completedOrder <- retainedOrder, stream <- reader, running <- executing

ASSUME TsFuturesAssumption == Storage!ConstantsOK

FuturesInit == ClientInit /\ Storage!Init /\ end \in {"client", "server"}

ClientStep == end = "client" /\ ClientNext /\ UNCHANGED <<end, storageVars>>
ServerStep == end = "server" /\ Storage!Next /\ UNCHANGED <<end, clientVars>>

AtServer(A) == end = "server" /\ A /\ UNCHANGED <<end, clientVars>>

FuturesNext == ClientStep \/ ServerStep

\* Queued jobs run, executions settle, and a client that is there reads.
FuturesFairness ==
    /\ \A i \in Ids : WF_futuresVars(AtServer(Storage!Complete(i)))
    /\ \A s \in Subs : WF_futuresVars(AtServer(Storage!GeneratorStep(s)))

FuturesSpec == FuturesInit /\ [][FuturesNext]_futuresVars /\ FuturesFairness
-----------------------------------------------------------------------------
\* The bookkeeping of the storage is exact through completion, discard, cancel
\* and eviction: pendingCount is the number of pending entries, a key leads to
\* its entry for exactly as long as that entry exists, and the completed
\* entries are those in the queue, at most maxCompleted.
StorageBookkeeping ==
    /\ Storage!PendingCountExact
    /\ Storage!KeysFollowEntries
    /\ Storage!RetentionWindow

\* A result owed to a resolve call waits in its snapshot or its queue, or was
\* yielded, and that only once: no order of subscribe, complete and eviction
\* loses or repeats one while the stream has not failed.  A call is only given
\* results of its caller's futures, and one with ids that ends normally has
\* yielded every one of them.
ResolveDelivers ==
    Storage!NothingLostOrRepeated /\ Storage!OwnerIsolation /\ Storage!DoneMeansAllResolved

\* A result that is owed to a client that stays is yielded to it, or the call
\* fails: a full buffer is never a silent loss.
OwedIsYielded == Storage!OwedIsYielded
=============================================================================
