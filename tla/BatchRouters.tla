---------------------------- MODULE BatchRouters ----------------------------
(***************************************************************************)
(* The same batch in the two routers: BatchLayers is the Swift one,        *)
(* BatchGraph the TypeScript one.  A client cannot tell which it talks to. *)
(***************************************************************************)
EXTENDS BatchLayers

VARIABLES
    router,    \* "swift" or "typescript": who got the request
    \* BatchGraph
    tsPc, order, path, id, tsOutcome, tsExecuted

tsVars == <<tsPc, order, path, id, tsOutcome, tsExecuted>>
routersVars == <<batchVars, router, tsVars>>

Ts == INSTANCE BatchGraph
        WITH pc <- tsPc, outcome <- tsOutcome, executed <- tsExecuted

ASSUME BatchRoutersAssumption == Ts!ConstantsOK

RoutersInit == BatchInit /\ Ts!Init /\ router \in {"swift", "typescript"}

SwiftStep == router = "swift" /\ BatchNext /\ UNCHANGED <<router, tsVars>>
TsStep ==
    /\ router = "typescript" /\ Ts!Next
    /\ UNCHANGED <<router, batchPc, layer, running, outcome, layerResult, isPast, executed>>

\* Handlers return, and each router goes on; the deadline need not pass.
RouterRuns ==
    /\ router = "swift"
    /\ \/ Accept \/ Reject \/ SkipLayer \/ StartLayer \/ MergeLayer \/ Answer
       \/ \E n \in Indices : EndCall(n)
    /\ UNCHANGED <<router, tsVars>>

RoutersSpec ==
    /\ RoutersInit /\ [][SwiftStep \/ TsStep]_routersVars
    /\ WF_routersVars(RouterRuns) /\ WF_routersVars(TsStep)
-----------------------------------------------------------------------------
\* The TypeScript execution order lists every call once and every dependency
\* before its dependents ("dependency was not scheduled" is unreachable), and
\* a method runs exactly when the dependency gave it a payload.
TsDependenciesFirst == Ts!OrderIsTopological /\ Ts!DependencyDecides

\* orderBatchDependencies lets through exactly the batches that can be run: a
\* repeated call_id, an unknown dependency and a cycle are rejected, no cycle
\* is lost by stopping at visited calls, and converging chains are not taken
\* for one.  RPC.md 13.2 demands more than that: see TsRejectsAsDocumented.
TsRunsWhatCanRun == Ts!RejectsExactly

\* What RPC.md 13.2 demands of a server before it executes anything: "Reject
\* the entire batch [...] if any `call_id` is negative, if there are duplicate
\* `call_id` values, or if `input_from` references a `call_id` that doesn't
\* appear earlier in the list."  handleBatch has no such checks of the sign
\* and the position.
NoNegativeId   == \A n \in Indices : calls[n].callId >= 0
NoDuplicateId  == \A n, m \in Indices : calls[n].callId = calls[m].callId => n = m
OnlyEarlierIds == \A n \in Indices : HasDependency(n) => \E m \in Indices : Refers(n, m)
TsRejectsAsDocumented ==
    tsPc \in {"started", "answered"} => NoNegativeId /\ NoDuplicateId /\ OnlyEarlierIds

\* Whatever batch the Swift router runs, the TypeScript router runs too: the
\* one-pass checks of buildExecutionLayers let no cycle and no unknown
\* dependency through.
SwiftBatchesArePortable == batchPc \in {"running", "answered"} => Ts!Valid

\* Every batch is answered or rejected: no layer and no promise waits for
\* ever for another.
BatchEnds == <>(batchPc \in {"answered", "rejected"} \/ tsPc \in {"answered", "rejected"})
=============================================================================
