----------------------------- MODULE BatchGraph -----------------------------
(***************************************************************************)
(* The batch handler of the TypeScript router: handleBatch and             *)
(* orderBatchDependencies of                                               *)
(* plugins/typescript/packages/runtime/src/rpc/router.ts.                  *)
(*                                                                         *)
(* Calls are kept in a Map by call_id.  The ordering follows the chain of  *)
(* input_from from each call to the first call that is already ordered,    *)
(* and appends the chain backwards.  Every call is then started in that    *)
(* order and waits for the promise of its own dependency only.             *)
(*                                                                         *)
(* The walk is modelled one call at a time: `path` is the local variable   *)
(* of the code, and its pathIndexes is the set of path's elements.         *)
(***************************************************************************)
EXTENDS Integers, Sequences, FiniteSets

CONSTANTS
    MaxCalls,      \* bound on the length of the batches considered
    MaxBatchSize,  \* config.maxBatchSize
    CallIds        \* the Int32 values considered for call_id and input_from

ConstantsOK ==
    /\ MaxCalls \in Nat /\ MaxBatchSize \in Nat
    /\ CallIds \subseteq Int /\ 0 \in CallIds

VARIABLES
    calls,      \* request.calls
    pc,         \* where the handler is
    order,      \* the call ids in execution order; its elements are `visited`
    path, id,   \* the chain being walked, and the call id it has reached
    outcome,    \* per call id, how its promise resolved
    executed    \* call ids whose method was invoked

vars == <<calls, pc, order, path, id, outcome, executed>>

Outcomes == {"none", "success", "empty", "error", "dependency"}
Call     == [callId : CallIds, inputFrom : CallIds]
Indices  == 1 .. Len(calls)
Elems(s) == {s[n] : n \in 1 .. Len(s)}
Known    == {calls[n].callId : n \in Indices}

\* calls.get(c).inputFrom
InputFrom(c) == calls[CHOOSE n \in Indices : calls[n].callId = c].inputFrom

TypeOK ==
    /\ calls \in Seq(Call)
    /\ pc \in {"received", "ordering", "walking", "unwinding", "started",
               "rejected", "answered"}
    /\ order \in Seq(CallIds) /\ path \in Seq(CallIds) /\ id \in CallIds
    /\ outcome \in [CallIds -> Outcomes]
    /\ executed \in SUBSET CallIds

Init ==
    /\ \E n \in 0 .. MaxCalls : calls \in [1 .. n -> Call]
    /\ pc = "received"
    /\ order = <<>> /\ path = <<>> /\ id = 0
    /\ outcome = [c \in CallIds |-> "none"]
    /\ executed = {}
-----------------------------------------------------------------------------
\* The size limit and the uniqueness of the call ids.
WellFormed ==
    /\ Len(calls) <= MaxBatchSize
    /\ Cardinality(Known) = Len(calls)

Receive ==
    /\ pc = "received"
    /\ pc' = IF WellFormed THEN "ordering" ELSE "rejected"
    /\ UNCHANGED <<calls, order, path, id, outcome, executed>>

\* The next start of the outer loop: the first call not visited yet.
PickStart ==
    /\ pc = "ordering"
    /\ \E n \in Indices :
          /\ calls[n].callId \notin Elems(order)
          /\ \A m \in 1 .. n - 1 : calls[m].callId \in Elems(order)
          /\ id' = calls[n].callId
    /\ path' = <<>>
    /\ pc' = "walking"
    /\ UNCHANGED <<calls, order, outcome, executed>>

\* One turn of the inner loop on a call that is neither visited nor on the
\* path: it is pushed, and the walk goes on to its dependency, if it has one.
Push ==
    /\ pc = "walking"
    /\ id \notin Elems(order) /\ id \notin Elems(path)
    /\ path' = Append(path, id)
    /\ \/ /\ InputFrom(id) < 0
          /\ pc' = "unwinding"
          /\ UNCHANGED id
       \/ /\ InputFrom(id) >= 0 /\ InputFrom(id) \in Known
          /\ id' = InputFrom(id)
          /\ UNCHANGED pc
       \/ /\ InputFrom(id) >= 0 /\ InputFrom(id) \notin Known
          /\ pc' = "rejected"
          /\ UNCHANGED id
    /\ UNCHANGED <<calls, order, outcome, executed>>

\* The walk came back to its own path.
Cycle_Converging ==
    /\ pc = "walking"
    /\ id \in Elems(order) \cup Elems(path)
    /\ pc' = "rejected"
    /\ UNCHANGED <<calls, order, path, id, outcome, executed>>
Cycle ==
    /\ pc = "walking"
    /\ id \notin Elems(order) /\ id \in Elems(path)
    /\ pc' = "rejected"
    /\ UNCHANGED <<calls, order, path, id, outcome, executed>>

Reversed(s) == [n \in 1 .. Len(s) |-> s[Len(s) + 1 - n]]

\* The inner loop has ended: the path is appended backwards.
Unwind_Forwards ==
    /\ pc = "unwinding" \/ (pc = "walking" /\ id \in Elems(order))
    /\ order' = order \o path
    /\ pc' = "ordering"
    /\ UNCHANGED <<calls, path, id, outcome, executed>>
Unwind ==
    /\ pc = "unwinding" \/ (pc = "walking" /\ id \in Elems(order))
    /\ order' = order \o Reversed(path)
    /\ pc' = "ordering"
    /\ UNCHANGED <<calls, path, id, outcome, executed>>

\* All calls are ordered: their async functions start, one after the other,
\* without an await in between.
Start ==
    /\ pc = "ordering" /\ Known \subseteq Elems(order)
    /\ pc' = "started"
    /\ UNCHANGED <<calls, order, path, id, outcome, executed>>
-----------------------------------------------------------------------------
\* The async function of one call: it awaits its dependency, fails if that
\* had no payload to give, and otherwise invokes the method.
Invokes(c) == InputFrom(c) >= 0 => outcome[InputFrom(c)] = "success"

Resolve(c) ==
    /\ pc = "started" /\ c \in Known /\ outcome[c] = "none"
    /\ InputFrom(c) >= 0 => outcome[InputFrom(c)] # "none"
    /\ \E o \in Outcomes :
          /\ IF Invokes(c) THEN o \in {"success", "empty", "error"}
                           ELSE o = "dependency"
          /\ outcome' = [outcome EXCEPT ![c] = o]
    /\ executed' = IF Invokes(c) THEN executed \cup {c} ELSE executed
    /\ UNCHANGED <<calls, pc, order, path, id>>

\* Promise.all over the calls of the request.
Answer ==
    /\ pc = "started"
    /\ \A c \in Known : outcome[c] # "none"
    /\ pc' = "answered"
    /\ UNCHANGED <<calls, order, path, id, outcome, executed>>

Next ==
    \/ Receive \/ PickStart \/ Push \/ Cycle \/ Unwind \/ Start \/ Answer
    \/ \E c \in CallIds : Resolve(c)

Spec == Init /\ [][Next]_vars

-----------------------------------------------------------------------------
\* The execution order lists every call once and every dependency before its
\* dependents, so the promise of a dependency exists when a call asks for it
\* ("dependency was not scheduled" is unreachable).
OrderIsTopological ==
    pc = "started" =>
        /\ Elems(order) = Known /\ Len(order) = Len(calls)
        /\ \A n \in 1 .. Len(order) :
              InputFrom(order[n]) >= 0 =>
                  \E m \in 1 .. n - 1 : order[m] = InputFrom(order[n])

\* Calls that only depend on each other in a circle.
Closed(S) == \A c \in S : InputFrom(c) >= 0 /\ InputFrom(c) \in S
HasCycle  == \E S \in SUBSET Known : S # {} /\ Closed(S)

\* The batches this router runs.
Valid ==
    /\ WellFormed
    /\ \A c \in Known : InputFrom(c) >= 0 => InputFrom(c) \in Known
    /\ ~ HasCycle

\* The walk rejects exactly the batches with a repeated call_id, an unknown
\* dependency or a cycle: it loses none of them by stopping at visited calls,
\* and takes no converging chains for a cycle.
RejectsExactly ==
    /\ pc = "rejected" => ~ Valid
    /\ pc = "started" => Valid

\* A method runs only on the payload of a dependency that succeeded, and a
\* call fails for its dependency only if that one gave no payload.
DependencyDecides ==
    \A c \in Known : InputFrom(c) >= 0 /\ outcome[c] # "none" =>
        (c \in executed <=> outcome[InputFrom(c)] = "success")
=============================================================================
