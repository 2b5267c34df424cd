----------------------------- MODULE RpcInbound -----------------------------
(***************************************************************************)
(* The inbound request stream of a Swift RPC call: the actor               *)
(* RpcInboundState of                                                      *)
(* plugins/swift/Sources/SwiftBebop/RPC/BebopStreams.swift.                *)
(*                                                                         *)
(* The transport sends elements, the handler receives them, and neither is *)
(* buffered: a send returns when a receiver has taken its element.  The    *)
(* actor runs one method at a time up to its next suspension, and the      *)
(* suspended part of send and next is a parked continuation, so each call  *)
(* of a method is one step.  A cancelled call does not leave by itself:    *)
(* its handler spawns a task that closes the whole stream later.           *)
(***************************************************************************)
EXTENDS Integers, FiniteSets

CONSTANTS
    Sends,      \* calls of send; a call stands for its element as well
    Receives,   \* calls of next
    NoCall

ASSUME RpcInboundAssumption ==
    /\ Sends \cap Receives = {}
    /\ NoCall \notin Sends \cup Receives

Calls == Sends \cup Receives

VARIABLES
    status,       \* "open", "closed" (no error) or "failed"
    receiver,     \* the parked call of next, or NoCall
    sender,       \* the parked call of send, or NoCall
    pc,           \* "idle", "parked" or "done"
    result,       \* how a call ended
    got,          \* the element a call of next returned, or NoCall
    isCancelled,  \* calls whose task is cancelled
    cancelTasks   \* calls whose handler spawned a task that has not run

vars == <<status, receiver, sender, pc, result, got, isCancelled, cancelTasks>>

\* "rejected": a second concurrent sender or receiver; "failed": an error.
Results == {"none", "value", "end", "rejected", "failed"}

TypeOK ==
    /\ status \in {"open", "closed", "failed"}
    /\ receiver \in Receives \cup {NoCall}
    /\ sender \in Sends \cup {NoCall}
    /\ pc \in [Calls -> {"idle", "parked", "done"}]
    /\ result \in [Calls -> Results]
    /\ got \in [Receives -> Sends \cup {NoCall}]
    /\ isCancelled \in SUBSET Calls
    /\ cancelTasks \in SUBSET Calls

Init ==
    /\ status = "open"
    /\ receiver = NoCall /\ sender = NoCall
    /\ pc = [c \in Calls |-> "idle"]
    /\ result = [c \in Calls |-> "none"]
    /\ got = [r \in Receives |-> NoCall]
    /\ isCancelled = {} /\ cancelTasks = {}

\* The continuations of the calls in `ends` are resumed with those results.
Resume(ends) ==
    /\ pc' = [c \in Calls |-> IF c \in DOMAIN ends THEN "done" ELSE pc[c]]
    /\ result' = [c \in Calls |-> IF c \in DOMAIN ends THEN ends[c] ELSE result[c]]

EndsAs(c, r) == [x \in {c} |-> r]
-----------------------------------------------------------------------------
\* Task.checkCancellation throws before the stream is touched.
CheckCancellation(c) ==
    /\ pc[c] = "idle" /\ c \in isCancelled
    /\ Resume(EndsAs(c, "failed"))
    /\ UNCHANGED <<status, receiver, sender, got, isCancelled, cancelTasks>>

Enters(c) == pc[c] = "idle" /\ c \notin isCancelled

\* send and next on a stream that has finished.
SendClosed(s) ==
    /\ Enters(s) /\ status # "open"
    /\ Resume(EndsAs(s, "failed"))
    /\ UNCHANGED <<status, receiver, sender, got, isCancelled, cancelTasks>>

NextClosed(r) ==
    /\ Enters(r) /\ status # "open"
    /\ Resume(EndsAs(r, IF status = "failed" THEN "failed" ELSE "end"))
    /\ UNCHANGED <<status, receiver, sender, got, isCancelled, cancelTasks>>

\* send: hand the element to the parked receiver, else park, else refuse.
SendDirect(s) ==
    /\ Enters(s) /\ status = "open" /\ receiver # NoCall
    /\ got' = [got EXCEPT ![receiver] = s]
    /\ Resume([x \in {s, receiver} |-> "value"])
    /\ receiver' = NoCall
    /\ UNCHANGED <<status, sender, isCancelled, cancelTasks>>

SendParks(s) ==
    /\ Enters(s) /\ status = "open" /\ receiver = NoCall /\ sender = NoCall
    /\ sender' = s
    /\ pc' = [pc EXCEPT ![s] = "parked"]
    /\ UNCHANGED <<status, receiver, result, got, isCancelled, cancelTasks>>

SendRefused(s) ==
    /\ Enters(s) /\ status = "open" /\ receiver = NoCall /\ sender # NoCall
    /\ Resume(EndsAs(s, "rejected"))
    /\ UNCHANGED <<status, receiver, sender, got, isCancelled, cancelTasks>>

\* next: take the element of the parked sender, else park, else refuse.
NextDirect_KeepsSender(r) ==
    /\ Enters(r) /\ status = "open" /\ sender # NoCall
    /\ got' = [got EXCEPT ![r] = sender]
    /\ Resume([x \in {r, sender} |-> "value"])
    /\ UNCHANGED <<status, receiver, sender, isCancelled, cancelTasks>>
NextDirect(r) ==
    /\ Enters(r) /\ status = "open" /\ sender # NoCall
    /\ got' = [got EXCEPT ![r] = sender]
    /\ Resume([x \in {r, sender} |-> "value"])
    /\ sender' = NoCall
    /\ UNCHANGED <<status, receiver, isCancelled, cancelTasks>>

NextParks(r) ==
    /\ Enters(r) /\ status = "open" /\ sender = NoCall /\ receiver = NoCall
    /\ receiver' = r
    /\ pc' = [pc EXCEPT ![r] = "parked"]
    /\ UNCHANGED <<status, sender, result, got, isCancelled, cancelTasks>>

NextRefused(r) ==
    /\ Enters(r) /\ status = "open" /\ sender = NoCall /\ receiver # NoCall
    /\ Resume(EndsAs(r, "rejected"))
    /\ UNCHANGED <<status, receiver, sender, got, isCancelled, cancelTasks>>
-----------------------------------------------------------------------------
(***************************************************************************)
(* finish: the first call decides how the stream ends; whoever is parked   *)
(* is resumed.  A parked sender always fails: its element was not taken.   *)
(***************************************************************************)
Close_ForgetsSender(how) ==
    /\ status' = how
    /\ receiver' = NoCall
    /\ UNCHANGED sender
    /\ Resume([c \in {receiver} \ {NoCall} |->
                 IF how = "failed" THEN "failed" ELSE "end"])
Close(how) ==
    /\ status' = how
    /\ receiver' = NoCall /\ sender' = NoCall
    /\ Resume([c \in {receiver, sender} \ {NoCall} |->
                 IF c \in Sends \/ how = "failed" THEN "failed" ELSE "end"])

\* finish, called by the transport, without or with an error.
Finish(how) ==
    /\ status = "open"
    /\ Close(how)
    /\ UNCHANGED <<got, isCancelled, cancelTasks>>

\* A task is cancelled: before its call, or while the call is parked, when
\* the handler spawns a task that will call cancel.
CancelCall_NoTask(c) ==
    /\ pc[c] # "done" /\ c \notin isCancelled
    /\ isCancelled' = isCancelled \cup {c}
    /\ UNCHANGED <<status, receiver, sender, pc, result, got, cancelTasks>>
CancelCall(c) ==
    /\ pc[c] # "done" /\ c \notin isCancelled
    /\ isCancelled' = isCancelled \cup {c}
    /\ cancelTasks' = IF pc[c] = "parked" THEN cancelTasks \cup {c} ELSE cancelTasks
    /\ UNCHANGED <<status, receiver, sender, pc, result, got>>

\* The spawned task: cancel() is finish(throwing: CancellationError()).
RunCancel(c) ==
    /\ c \in cancelTasks
    /\ cancelTasks' = cancelTasks \ {c}
    /\ IF status = "open" THEN Close("failed")
       ELSE UNCHANGED <<status, receiver, sender, pc, result>>
    /\ UNCHANGED <<got, isCancelled>>
-----------------------------------------------------------------------------
SendStep(s) ==
    SendClosed(s) \/ SendDirect(s) \/ SendParks(s) \/ SendRefused(s)
NextStep(r) ==
    NextClosed(r) \/ NextDirect(r) \/ NextParks(r) \/ NextRefused(r)

Next ==
    \/ \E s \in Sends : SendStep(s)
    \/ \E r \in Receives : NextStep(r)
    \/ \E how \in {"closed", "failed"} : Finish(how)
    \/ \E c \in Calls : CheckCancellation(c) \/ CancelCall(c) \/ RunCancel(c)

Spec == Init /\ [][Next]_vars

-----------------------------------------------------------------------------
\* A continuation is parked exactly while its call is in the sender or the
\* receiver slot: it is never dropped without a resume, nor resumed twice.
ParkedIffInSlot ==
    \A c \in Calls : pc[c] = "parked" <=> c \in {receiver, sender}

\* Sender and receiver never wait for each other, and a finished stream has
\* nobody waiting in it.
NobodyWaitsInVain ==
    /\ receiver = NoCall \/ sender = NoCall
    /\ status # "open" => receiver = NoCall /\ sender = NoCall

\* A send succeeds exactly when one call of next returned its element: no
\* element is lost or handed out twice by an interleaving of sends, receives,
\* cancellations and finish.
Rendezvous ==
    \A s \in Sends :
        /\ result[s] = "value" <=> \E r \in Receives : got[r] = s
        /\ \A q, r \in Receives : got[q] = s /\ got[r] = s => q = r

\* A cancelled call that is parked has a task on its way that releases it.
CancelOnItsWay ==
    \A c \in Calls : pc[c] = "parked" /\ c \in isCancelled => c \in cancelTasks
=============================================================================
