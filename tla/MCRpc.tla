-------------------------------- MODULE MCRpc --------------------------------
(***************************************************************************)
(* The RPC runtimes for TLC: a behaviour is of one Swift call with streams *)
(* (DuplexCall), of one batch at either router (BatchRouters) or of one    *)
(* end of TypeScript futures (TsFutures).  They share no state, and the    *)
(* others do not move.  No symmetry: the run checks liveness.              *)
(*                                                                         *)
(* Only the calls in DuplexCalls happen on the request stream of a duplex  *)
(* call, where they interleave with those on the response stream.  What    *)
(* the end of the futures that does not move starts with is fixed.         *)
(***************************************************************************)
EXTENDS DuplexCall, MCBatchRouters, TsFutures

CONSTANTS DuplexCalls, AnId, AnOwner

VARIABLE part    \* "streams", "batches" or "futures"
mcVars == <<allVars, routersVars, futuresVars, part>>

\* Both routers look at the size of a batch first: of those that are too large
\* one stands for all with the same first call.
FewOversized == Len(calls) > MaxBatchSize => \A n \in Indices : calls[n] = calls[1]

\* The routers after an empty batch.
NoBatch ==
    /\ calls = <<>> /\ batchPc = "answered" /\ router = "swift"
    /\ layer = 0 /\ running = {} /\ outcome = <<>> /\ layerResult = <<>>
    /\ isPast = FALSE /\ executed = {} /\ Ts!Init

FirstFutures ==
    /\ FuturesInit
    /\ \A i \in Ids : owner[i] = AnOwner
    /\ end = "client" => \A s \in Subs : subOwner[s] = AnOwner
    /\ end = "server" => \A w \in Waiters : wid[w] = AnId

NoFutures == FirstFutures /\ end = "client" /\ \A w \in Waiters : wid[w] = AnId

MCInit ==
    /\ CallInit
    /\ \/ part = "streams" /\ NoBatch /\ NoFutures
       \/ part = "batches" /\ method = "resolve" /\ RoutersInit /\ FewOversized /\ NoFutures
       \/ part = "futures" /\ method = "resolve" /\ NoBatch /\ FirstFutures

InBounds ==
    method = "duplex" =>
        \A c \in Calls \ DuplexCalls : pc'[c] = "idle" /\ c \notin isCancelled'

Streams(A) == part = "streams" /\ A /\ UNCHANGED <<routersVars, futuresVars, part>>
Batches(A) == part = "batches" /\ A /\ UNCHANGED <<allVars, futuresVars, part>>
Futures(A) == part = "futures" /\ A /\ UNCHANGED <<allVars, routersVars, part>>

MCNext ==
    \/ Streams(CallNext /\ InBounds)
    \/ Batches(SwiftStep \/ TsStep)
    \/ Futures(FuturesNext)

\* What runs without being asked goes on until nothing of it can.  This is less than the
\* fairness of CallSpec, RoutersSpec and FuturesSpec, which is of each task by itself.
Runs ==
    \/ Streams(\/ WorkerRuns \/ FinisherRuns \/ OnCancel
               \/ \E c \in Calls : RunCancel(c) /\ UNCHANGED <<method, mapVars>>)
    \/ Batches(RouterRuns \/ TsStep)
    \/ Futures(\/ \E i \in Ids : AtServer(Storage!Complete(i))
               \/ \E s \in Subs : AtServer(Storage!GeneratorStep(s)))

MCFairness == WF_mcVars(Runs)

MCSpec == MCInit /\ [][MCNext]_mcVars /\ MCFairness
=============================================================================
