----------------------------- MODULE BatchLayers -----------------------------
(***************************************************************************)
(* The batch handler of the Swift router                                   *)
(* (plugins/swift/Sources/SwiftBebop/RPC/Router/BebopRouter+Batch.swift).  *)
(* It validates a batch while it sorts the calls into layers by the depth  *)
(* of their input_from chain, then runs layer after layer, the calls of a  *)
(* layer concurrently, each against a snapshot of the earlier outcomes.    *)
(*                                                                         *)
(* Call n of the batch is calls[n].  Payloads and metadata are left out,   *)
(* but a success without payload ("empty", a stream of no elements) is     *)
(* told apart, because a dependent call cannot use it.                     *)
(***************************************************************************)
EXTENDS Integers, Sequences, FiniteSets

CONSTANTS
    MaxCalls,      \* bound on the length of the batches considered
    MaxBatchSize,  \* config.maxBatchSize
    CallIds        \* the Int32 values considered for call_id and input_from

ASSUME BatchLayersAssumption ==
    /\ MaxCalls \in Nat /\ MaxBatchSize \in Nat
    /\ CallIds \subseteq Int

VARIABLES
    calls,         \* the decoded batch
    batchPc,       \* "received", "running", "rejected" or "answered"
    layer,         \* depth of the layer that is to run, or runs
    running,       \* the calls of that layer whose task has not ended
    outcome,       \* per call, "none" until it is merged or skipped
    layerResult,   \* outcomes of the present layer, merged at its end
    isPast,        \* the deadline of the context has passed
    executed       \* calls whose method was invoked

batchVars == <<calls, batchPc, layer, running, outcome, layerResult, isPast, executed>>

Outcomes == {"none", "success", "empty", "error", "dependency", "deadline"}
Indices  == 1 .. Len(calls)

Call == [callId : CallIds, inputFrom : CallIds]

BatchTypeOK ==
    /\ calls \in Seq(Call)
    /\ batchPc \in {"received", "running", "rejected", "answered"}
    /\ layer \in Nat
    /\ running \in SUBSET Indices
    /\ outcome \in [Indices -> Outcomes]
    /\ layerResult \in [Indices -> Outcomes]
    /\ isPast \in BOOLEAN
    /\ executed \in SUBSET Indices

BatchInit ==
    /\ \E n \in 0 .. MaxCalls : calls \in [1 .. n -> Call]
    /\ batchPc = "received" /\ layer = 0 /\ running = {}
    /\ outcome = [n \in Indices |-> "none"]
    /\ layerResult = [n \in Indices |-> "none"]
    /\ isPast = FALSE /\ executed = {}
-----------------------------------------------------------------------------
(***************************************************************************)
(* buildExecutionLayers.                                                   *)
(***************************************************************************)
HasDependency(n) == calls[n].inputFrom >= 0

\* The call an earlier entry of callDepth belongs to.
Refers(n, m) == m < n /\ calls[m].callId = calls[n].inputFrom

\* The guards of the loop for call n.
CallValid_AnyPosition(n) ==
    /\ calls[n].callId >= 0
    /\ \A m \in 1 .. n - 1 : calls[m].callId # calls[n].callId
    /\ HasDependency(n) => \E m \in Indices : calls[m].callId = calls[n].inputFrom
CallValid(n) ==
    /\ calls[n].callId >= 0
    /\ \A m \in 1 .. n - 1 : calls[m].callId # calls[n].callId
    /\ HasDependency(n) =>
          /\ calls[n].inputFrom < calls[n].callId
          /\ \E m \in Indices : Refers(n, m)

Dependency(n) == CHOOSE m \in Indices : Refers(n, m)

\* callDepth, and the calls of one layer.
Depth ==
    LET depth[n \in Indices] ==
          IF HasDependency(n) THEN depth[Dependency(n)] + 1 ELSE 0
    IN  depth

Layer(d) == {n \in Indices : Depth[n] = d}
-----------------------------------------------------------------------------
\* The guards before anything runs.  An empty batch has no layers and is
\* answered at once; one that is too large or invalid is rejected whole.
Accept ==
    /\ batchPc = "received"
    /\ Len(calls) <= MaxBatchSize
    /\ \A n \in Indices : CallValid(n)
    /\ batchPc' = "running"
    /\ UNCHANGED <<calls, layer, running, outcome, layerResult, isPast, executed>>

Reject ==
    /\ batchPc = "received"
    /\ Len(calls) > MaxBatchSize \/ \E n \in Indices : ~ CallValid(n)
    /\ batchPc' = "rejected"
    /\ UNCHANGED <<calls, layer, running, outcome, layerResult, isPast, executed>>

\* The head of the loop over the layers.  No call is running and none of the
\* layer has run: `layerResult` is "none" for it.
AtLayer == /\ batchPc = "running" /\ running = {}
           /\ Layer(layer) # {}
           /\ \A n \in Layer(layer) : layerResult[n] = "none"

\* A layer whose turn comes after the deadline is not run at all.
SkipLayer_AllCalls ==
    /\ AtLayer /\ isPast
    /\ outcome' = [n \in Indices |-> "deadline"]
    /\ layer' = layer + 1
    /\ UNCHANGED <<calls, batchPc, running, layerResult, isPast, executed>>
SkipLayer ==
    /\ AtLayer /\ isPast
    /\ outcome' = [n \in Indices |-> IF n \in Layer(layer) /\ outcome[n] = "none"
                                     THEN "deadline" ELSE outcome[n]]
    /\ layer' = layer + 1
    /\ UNCHANGED <<calls, batchPc, running, layerResult, isPast, executed>>

StartLayer ==
    /\ AtLayer /\ ~ isPast
    /\ running' = Layer(layer)
    /\ UNCHANGED <<calls, batchPc, layer, outcome, layerResult, isPast, executed>>

\* executeBatchCall: a dependency that did not succeed with a payload fails
\* the call; otherwise the method is looked up, intercepted and invoked, and
\* ends in one of these ways.
Invokes_EmptyToo(n) ==
    HasDependency(n) => outcome[Dependency(n)] \in {"success", "empty"}
Invokes(n) == HasDependency(n) => outcome[Dependency(n)] = "success"

EndCall_NoResult(n) ==
    /\ n \in running
    /\ Invokes(n)
    /\ running' = running \ {n}
    /\ \E o \in {"success", "empty", "error"} :
          layerResult' = [layerResult EXCEPT ![n] = o]
    /\ executed' = executed \cup {n}
    /\ UNCHANGED <<calls, batchPc, layer, outcome, isPast>>
EndCall(n) ==
    /\ n \in running
    /\ running' = running \ {n}
    /\ \E o \in Outcomes :
          /\ IF Invokes(n) THEN o \in {"success", "empty", "error"}
                           ELSE o = "dependency"
          /\ layerResult' = [layerResult EXCEPT ![n] = o]
    /\ executed' = IF Invokes(n) THEN executed \cup {n} ELSE executed
    /\ UNCHANGED <<calls, batchPc, layer, outcome, isPast>>

\* The task group is empty: its results are merged into the outcomes.
MergeLayer ==
    /\ batchPc = "running" /\ running = {} /\ Layer(layer) # {}
    /\ \A n \in Layer(layer) : layerResult[n] # "none"
    /\ outcome' = [n \in Indices |-> IF n \in Layer(layer) THEN layerResult[n]
                                                           ELSE outcome[n]]
    /\ layer' = layer + 1
    /\ UNCHANGED <<calls, batchPc, running, layerResult, isPast, executed>>

\* After the last layer one result per call is put together.
Answer ==
    /\ batchPc = "running" /\ Layer(layer) = {}
    /\ batchPc' = "answered"
    /\ UNCHANGED <<calls, layer, running, outcome, layerResult, isPast, executed>>

DeadlinePasses ==
    /\ ~ isPast
    /\ isPast' = TRUE
    /\ UNCHANGED <<calls, batchPc, layer, running, outcome, layerResult, executed>>

BatchNext ==
    \/ Accept \/ Reject
    \/ SkipLayer \/ StartLayer \/ MergeLayer \/ Answer
    \/ \E n \in Indices : EndCall(n)
    \/ DeadlinePasses

BatchSpec == BatchInit /\ [][BatchNext]_batchVars

-----------------------------------------------------------------------------
\* Every call of an answered batch has an outcome (the router's internal
\* error for a missing one is unreachable).  A failure is handed down the
\* whole chain, so no call runs below one that failed, was skipped or was
\* empty, and a call fails for its dependency only if that one did.
FailurePropagates ==
    batchPc = "answered" =>
        \A n \in Indices :
            /\ outcome[n] # "none"
            /\ HasDependency(n) =>
                  IF outcome[Dependency(n)] = "success"
                  THEN outcome[n] # "dependency"
                  ELSE n \notin executed /\ outcome[n] \in {"dependency", "deadline"}

\* Completed calls keep their results: an outcome never changes again, also
\* when the deadline passes later.
OutcomesAreFinal ==
    [][\A n \in Indices : outcome[n] # "none" => outcome'[n] = outcome[n]]_batchVars
=============================================================================
