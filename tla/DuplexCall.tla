----------------------------- MODULE DuplexCall -----------------------------
(***************************************************************************)
(* The streams of one call on the Swift server.  The dispatch code that    *)
(* GenerateService.swift writes for a duplex method joins two actors: the  *)
(* requests go through an RpcInboundStream, the responses through          *)
(* BebopStreams.map, whose source is the handler and whose onCancel closes *)
(* the request stream.  A client-stream method has the requests only.  The *)
(* future service's resolve method has the map only, with leading elements *)
(* and without onCancel.                                                   *)
(*                                                                         *)
(* The handler between the two streams is user code: it receives, stops    *)
(* and responds as it likes.                                               *)
(***************************************************************************)
EXTENDS RpcInbound

CONSTANTS
    Elements,    \* number of responses a handler can supply
    Consumers    \* calls of next on the response stream

VARIABLES
    method,      \* "clientStream", "duplex" or "resolve"
    \* PullingMap
    mapStatus, final, demand, consumer, termination, worker, cancelled,
    pulled, mapPc, mapGot, ended, mapIsCancelled, finishers

mapVars == <<mapStatus, final, demand, consumer, termination, worker, cancelled,
             pulled, mapPc, mapGot, ended, mapIsCancelled, finishers>>
allVars == <<vars, method, mapVars>>

Map(Leading) == INSTANCE PullingMap
                  WITH status <- mapStatus, pc <- mapPc, got <- mapGot,
                       isCancelled <- mapIsCancelled

ASSUME DuplexCallAssumption == Map(0)!ConstantsOK /\ Map(1)!ConstantsOK

CallInit == Init /\ Map(0)!Init /\ method \in {"clientStream", "duplex", "resolve"}
-----------------------------------------------------------------------------
Requests ==
    method \in {"clientStream", "duplex"} /\ Next /\ UNCHANGED <<method, mapVars>>

Responses ==
    /\ \/ method = "duplex" /\ Map(0)!StreamStep
       \/ method = "resolve" /\ Map(1)!StreamStep
    /\ UNCHANGED <<vars, method>>

\* onCancel: { await inbound.finish() }, run by the finish that ended the map.
OnCancel_Empty ==
    Map(0)!RunTermination /\ UNCHANGED <<vars, method>>
OnCancel ==
    /\ Map(0)!RunTermination
    /\ IF method = "duplex" /\ status = "open"
       THEN Close("closed")
       ELSE UNCHANGED <<status, receiver, sender, pc, result>>
    /\ UNCHANGED <<got, isCancelled, cancelTasks, method>>

CallNext == Requests \/ Responses \/ OnCancel

\* The fair part of the worker: a source need not answer, except that it ends
\* or throws when the worker that waits for it is cancelled.
WorkerRuns ==
    /\ worker = "pulling" => cancelled
    /\ \/ method = "duplex" /\ Map(0)!WorkerStep
       \/ method = "resolve" /\ Map(1)!WorkerStep
    /\ UNCHANGED <<vars, method>>

FinisherRuns == Map(0)!RunFinisher /\ UNCHANGED <<vars, method>>

\* Runnable tasks run, those spawned by a cancellation included; nobody has to
\* send, receive, respond, cancel or finish.
Fairness ==
    /\ WF_allVars(WorkerRuns) /\ WF_allVars(FinisherRuns) /\ WF_allVars(OnCancel)
    /\ \A c \in Calls : WF_allVars(RunCancel(c) /\ UNCHANGED <<method, mapVars>>)

CallSpec == CallInit /\ [][CallNext]_allVars /\ Fairness
-----------------------------------------------------------------------------
\* The worker's continuation in waitForDemand is parked only on an open
\* stream that nobody reads, and one that was resumed finds its consumer
\* still parked when it yields: no wake-up of next or finish is missed, and
\* no element of an open stream is dropped.  The elements the map pulled from
\* the source went to distinct calls of next, in order, with at most the one
\* in the worker's hands missing: nothing is read ahead of demand or handed
\* out twice.
DemandAnswered ==
    Map(0)!DemandNotMissed /\ Map(0)!NoElementDropped /\ Map(0)!PulledOnDemand

\* Once the responses are over (the handler's stream ended or failed, the
\* reader was cancelled or the stream was dropped), the worker ends, no reader
\* stays parked, and the requests are closed: neither a sender nor the handler
\* stays parked in them.
EndOfResponsesReleasesAll ==
    mapStatus = "finished" \/ cancelled ~>
        /\ worker = "done" /\ consumer = NoCall
        /\ method = "duplex" =>
              status # "open" /\ \A c \in Calls : pc[c] # "parked"
=============================================================================
