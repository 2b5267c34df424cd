----------------------------- MODULE PullingMap -----------------------------
(***************************************************************************)
(* BebopStreams.map of the Swift runtime                                   *)
(* (plugins/swift/Sources/SwiftBebop/RPC/BebopStreams.swift): a stream     *)
(* that applies a transform to a source on demand.  A worker task waits in *)
(* the actor PullingMapState until a consumer is parked there, pulls one   *)
(* element from the source and yields it to that consumer.                 *)
(*                                                                         *)
(* The actor runs one method at a time up to its next suspension, so each  *)
(* such stretch is one step.  Cancelling a consumer cancels the worker and *)
(* spawns tasks that call finish; dropping the stream does the same.       *)
(*                                                                         *)
(* The elements are numbered: leading ones first, then the source's.       *)
(***************************************************************************)
EXTENDS Integers, FiniteSets

CONSTANTS
    Leading,     \* number of leading elements
    Elements,    \* number of all elements the source can supply
    Consumers,   \* calls of next
    NoCall

ConstantsOK ==
    /\ Elements \in Nat /\ Leading \in 0 .. Elements
    /\ NoCall \notin Consumers

VARIABLES
    \* PullingMapState
    status,        \* "open" or "finished"
    final,         \* what a later next returns: "end", "error", "cancelled"
    demand,        \* TRUE: the worker's continuation is parked; a worker that
                   \* is "demanding" without it has been resumed
    consumer,      \* the parked call of next, or NoCall
    termination,   \* "armed", "taken" by a finish, or "ran"
    \* the worker task
    worker,        \* where it is
    cancelled,     \* worker.cancel() was called
    pulled,        \* elements taken from `leading` and the source
    \* the calls of next and the tasks that cancellation spawns
    pc,            \* "idle", "parked" or "done"
    got,           \* the element a call returned; 0 for none
    ended,         \* how a call ended, "none" while it has not
    isCancelled,   \* calls whose task is cancelled
    finishers      \* number of spawned tasks that have yet to call finish

callVars == <<pc, got, ended, isCancelled>>
vars == <<status, final, demand, consumer, termination, worker, cancelled,
          pulled, callVars, finishers>>

TypeOK ==
    /\ status \in {"open", "finished"}
    /\ final \in {"none", "end", "error", "cancelled"}
    /\ demand \in BOOLEAN
    /\ consumer \in Consumers \cup {NoCall}
    /\ termination \in {"armed", "taken", "ran"}
    /\ worker \in {"opening", "asking", "demanding", "pulling", "yielding",
                   "finishing", "failing", "done"}
    /\ cancelled \in BOOLEAN
    /\ pulled \in 0 .. Elements
    /\ pc \in [Consumers -> {"idle", "parked", "done"}]
    /\ got \in [Consumers -> 0 .. Elements]
    /\ ended \in [Consumers -> {"none", "value", "end", "error", "cancelled",
                                "refused"}]
    /\ isCancelled \in SUBSET Consumers
    /\ finishers \in Nat

Init ==
    /\ status = "open" /\ final = "none"
    /\ demand = FALSE /\ consumer = NoCall
    /\ termination = "armed"
    /\ worker = "opening" /\ cancelled = FALSE /\ pulled = 0
    /\ pc = [c \in Consumers |-> "idle"]
    /\ got = [c \in Consumers |-> 0]
    /\ ended = [c \in Consumers |-> "none"]
    /\ isCancelled = {}
    /\ finishers = 0

EndCall(c, how) ==
    /\ pc' = [pc EXCEPT ![c] = "done"]
    /\ ended' = [ended EXCEPT ![c] = how]
-----------------------------------------------------------------------------
(***************************************************************************)
(* next: checkCancellation, then the guards of the actor method.           *)
(***************************************************************************)
CallCancelled(c) ==
    /\ pc[c] = "idle" /\ c \in isCancelled
    /\ EndCall(c, "cancelled")
    /\ UNCHANGED <<status, final, demand, consumer, termination, worker,
                   cancelled, pulled, got, isCancelled, finishers>>

CallFinished(c) ==
    /\ pc[c] = "idle" /\ c \notin isCancelled
    /\ status = "finished"
    /\ EndCall(c, final)
    /\ UNCHANGED <<status, final, demand, consumer, termination, worker,
                   cancelled, pulled, got, isCancelled, finishers>>

CallRefused(c) ==
    /\ pc[c] = "idle" /\ c \notin isCancelled
    /\ status = "open" /\ consumer # NoCall
    /\ EndCall(c, "refused")
    /\ UNCHANGED <<status, final, demand, consumer, termination, worker,
                   cancelled, pulled, got, isCancelled, finishers>>

\* The call parks its continuation and wakes the worker if it is waiting.
CallParks_NoWake(c) ==
    /\ pc[c] = "idle" /\ c \notin isCancelled
    /\ status = "open" /\ consumer = NoCall
    /\ consumer' = c
    /\ pc' = [pc EXCEPT ![c] = "parked"]
    /\ UNCHANGED <<status, final, demand, worker, termination, cancelled, pulled,
                   got, ended, isCancelled, finishers>>
CallParks(c) ==
    /\ pc[c] = "idle" /\ c \notin isCancelled
    /\ status = "open" /\ consumer = NoCall
    /\ consumer' = c
    /\ pc' = [pc EXCEPT ![c] = "parked"]
    /\ demand' = FALSE
    /\ UNCHANGED <<status, final, termination, worker, cancelled, pulled, got,
                   ended, isCancelled, finishers>>

\* The task of a call is cancelled.  While the call is parked both handlers
\* run: next's spawns a task that calls finish, the stream's cancels the
\* worker and spawns another.
CancelCall(c) ==
    /\ pc[c] # "done" /\ c \notin isCancelled
    /\ isCancelled' = isCancelled \cup {c}
    /\ IF pc[c] = "parked"
       THEN cancelled' = TRUE /\ finishers' = finishers + 2
       ELSE UNCHANGED <<cancelled, finishers>>
    /\ UNCHANGED <<status, final, demand, consumer, termination, worker, pulled,
                   pc, got, ended>>

\* The last reference to the stream goes away: PullingMapLifetime.deinit.  No
\* call is under way, and none will follow.
DropStream ==
    /\ consumer = NoCall /\ ~ cancelled
    /\ pc' = [c \in Consumers |-> "done"]
    /\ cancelled' = TRUE
    /\ finishers' = finishers + 1
    /\ UNCHANGED <<status, final, demand, consumer, termination, worker, pulled,
                   got, ended, isCancelled>>
-----------------------------------------------------------------------------
(***************************************************************************)
(* finish: the first call wins.  It wakes the worker, resumes the parked   *)
(* consumer with the result (later calls then see the plain end), and      *)
(* takes the termination closure, which runs after the actor is left.      *)
(***************************************************************************)
FinishWith(how) ==
    /\ status' = "finished"
    /\ demand' = FALSE
    /\ IF consumer = NoCall
       THEN final' = how /\ UNCHANGED <<consumer, pc, ended>>
       ELSE final' = "end" /\ consumer' = NoCall /\ EndCall(consumer, how)
    /\ termination' = "taken"

RunFinisher ==
    /\ finishers > 0
    /\ finishers' = finishers - 1
    /\ IF status = "open"
       THEN FinishWith("cancelled")
       ELSE UNCHANGED <<status, final, demand, consumer, termination, pc, ended>>
    /\ UNCHANGED <<worker, cancelled, pulled, got, isCancelled>>

RunTermination ==
    /\ termination = "taken"
    /\ termination' = "ran"
    /\ UNCHANGED <<status, final, demand, consumer, worker, cancelled, pulled,
                   callVars, finishers>>
-----------------------------------------------------------------------------
(***************************************************************************)
(* The worker task.                                                        *)
(***************************************************************************)
\* source() returns an iterator, or throws.
WorkerOpens ==
    /\ worker = "opening"
    /\ worker' \in {"asking", "failing"}
    /\ UNCHANGED <<status, final, demand, consumer, termination, cancelled,
                   pulled, callVars, finishers>>

\* waitForDemand up to its suspension.
WorkerAsks ==
    /\ worker = "asking"
    /\ worker' = IF status = "finished" THEN "done"
                 ELSE IF consumer # NoCall THEN "pulling" ELSE "demanding"
    /\ demand' = (status = "open" /\ consumer = NoCall)
    /\ UNCHANGED <<status, final, consumer, termination, cancelled, pulled,
                   callVars, finishers>>

\* waitForDemand after its continuation was resumed.
WorkerWakes ==
    /\ worker = "demanding" /\ ~ demand
    /\ worker' = IF status = "open" THEN "pulling" ELSE "done"
    /\ UNCHANGED <<status, final, demand, consumer, termination, cancelled,
                   pulled, callVars, finishers>>

\* checkCancellation, then the next input and its transform.  An element that
\* is not a leading one may be missing (the source ended), and every step may
\* throw; iterator.next throws or ends at the latest when the worker is
\* cancelled.
WorkerPulls ==
    /\ worker = "pulling"
    /\ \/ /\ ~ cancelled \/ pulled >= Leading
          /\ pulled < Elements
          /\ pulled' = pulled + 1
          /\ worker' = "yielding"
       \/ /\ pulled >= Leading
          /\ worker' = "finishing"
          /\ UNCHANGED pulled
       \/ /\ worker' = "failing"
          /\ UNCHANGED pulled
    /\ UNCHANGED <<status, final, demand, consumer, termination, cancelled,
                   callVars, finishers>>

\* yield: nothing happens on a finished stream or without a consumer.
WorkerYields ==
    /\ worker = "yielding"
    /\ worker' = "asking"
    /\ IF status = "open" /\ consumer # NoCall
       THEN /\ consumer' = NoCall
            /\ got' = [got EXCEPT ![consumer] = pulled]
            /\ EndCall(consumer, "value")
       ELSE UNCHANGED <<consumer, got, pc, ended>>
    /\ UNCHANGED <<status, final, demand, termination, cancelled, pulled,
                   isCancelled, finishers>>

\* The worker ends the stream itself, normally or with the error it met.
WorkerFinishes ==
    /\ worker \in {"finishing", "failing"}
    /\ worker' = "done"
    /\ IF status = "open"
       THEN FinishWith(IF worker = "finishing" THEN "end" ELSE "error")
       ELSE UNCHANGED <<status, final, demand, consumer, termination, pc, ended>>
    /\ UNCHANGED <<cancelled, pulled, got, isCancelled, finishers>>
-----------------------------------------------------------------------------
WorkerStep ==
    \/ WorkerOpens \/ WorkerAsks \/ WorkerWakes \/ WorkerPulls
    \/ WorkerYields \/ WorkerFinishes

\* Everything but the termination closure, which belongs to the user of map.
StreamStep ==
    \/ \E c \in Consumers :
          \/ CallCancelled(c) \/ CallFinished(c) \/ CallRefused(c)
          \/ CallParks(c) \/ CancelCall(c)
    \/ DropStream
    \/ RunFinisher
    \/ WorkerStep

Next == StreamStep \/ RunTermination

Spec == Init /\ [][Next]_vars
-----------------------------------------------------------------------------
\* The worker's continuation is parked only on an open stream that nobody
\* reads: the wake-up of a consumer or of finish is never missed.
DemandNotMissed ==
    demand => worker = "demanding" /\ status = "open" /\ consumer = NoCall

\* While the stream is open, a worker that was told of demand finds the
\* consumer still parked when it yields: no element of an open stream is
\* dropped.
NoElementDropped ==
    /\ status = "open"
    /\ worker \in {"pulling", "yielding"} \/ (worker = "demanding" /\ ~ demand)
    => consumer # NoCall

\* The elements pulled so far went to distinct calls, with at most the one in
\* the worker's hands missing: nothing is read ahead of demand.
PulledOnDemand ==
    LET taken == {c \in Consumers : ended[c] = "value"}
        holds == IF worker = "yielding" THEN 1 ELSE 0
    IN  /\ status = "open" => {got[c] : c \in taken} = 1 .. pulled - holds
        /\ pulled - 1 <= Cardinality(taken)
        /\ \A c, d \in taken : got[c] = got[d] => c = d
=============================================================================
