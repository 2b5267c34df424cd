-------------------------- MODULE DuplexCallProofs --------------------------
(***************************************************************************)
(* Safety of a call's streams for any number of requests, responses and    *)
(* readers.  The request stream inside a duplex call implements the        *)
(* RpcInbound specification, so that all that was proved of the actor      *)
(* alone holds in the call; and the response map pulls on demand: it       *)
(* misses no wake-up, drops nothing and repeats nothing.                   *)
(***************************************************************************)
EXTENDS DuplexCall, FiniteSetTheorems, FunctionTheorems, TLAPS

(***************************************************************************)
(* The request stream: the actor alone, for any number of sends and        *)
(* receives.  No parked continuation is dropped, nobody waits in vain, and *)
(* every element accepted from a sender was returned to one receiver.      *)
(***************************************************************************)
\* A call that has not returned has no result yet, and a receive has an
\* element exactly when it returned a value.
NotDoneNoResult ==
    /\ \A c \in Calls : pc[c] # "done" => result[c] = "none"
    /\ \A r \in Receives : pc[r] # "done" => got[r] = NoCall

IInv ==
    /\ TypeOK
    /\ NotDoneNoResult
    /\ ParkedIffInSlot
    /\ NobodyWaitsInVain
    /\ Rendezvous
    /\ CancelOnItsWay

USE RpcInboundAssumption
-----------------------------------------------------------------------------
LEMMA InitIInv == Init => IInv
  BY DEF Init, IInv, TypeOK, NotDoneNoResult, ParkedIffInSlot,
         NobodyWaitsInVain, Rendezvous, CancelOnItsWay, Calls, Results

\* Resuming calls one by one or in pairs: who is done afterwards, and how.
LEMMA ResumeOne ==
    ASSUME TypeOK, NEW c \in Calls, NEW o \in Results, Resume(EndsAs(c, o))
    PROVE  /\ pc' = [pc EXCEPT ![c] = "done"]
           /\ result' = [result EXCEPT ![c] = o]
  BY DEF Resume, EndsAs, TypeOK

LEMMA ResumeTwo ==
    ASSUME TypeOK, NEW c \in Calls, NEW d \in Calls,
           Resume([x \in {c, d} |-> "value"])
    PROVE  /\ pc' = [pc EXCEPT ![c] = "done", ![d] = "done"]
           /\ result' = [result EXCEPT ![c] = "value", ![d] = "value"]
  BY DEF Resume, TypeOK

\* A call that returns without having been in a slot, and without a value.
LEMMA EndIdle ==
    ASSUME IInv, NEW c \in Calls, pc[c] = "idle",
           NEW o \in {"failed", "end", "rejected"}, Resume(EndsAs(c, o)),
           UNCHANGED <<status, receiver, sender, got, isCancelled, cancelTasks>>
    PROVE  IInv'
<1> USE DEF IInv
<1>1. /\ pc' = [pc EXCEPT ![c] = "done"]
      /\ result' = [result EXCEPT ![c] = o]
  BY ResumeOne DEF Results
<1>2. TypeOK'
  BY <1>1 DEF TypeOK, Results
<1>3. NotDoneNoResult'
  BY <1>1 DEF TypeOK, NotDoneNoResult, Calls
<1>4. ParkedIffInSlot'
  BY <1>1 DEF TypeOK, ParkedIffInSlot
<1>5. NobodyWaitsInVain'
  BY DEF NobodyWaitsInVain
<1>6. Rendezvous'
  BY <1>1 DEF TypeOK, Rendezvous, NotDoneNoResult, Calls
<1>7. CancelOnItsWay'
  BY <1>1 DEF TypeOK, CancelOnItsWay
<1> QED BY <1>2, <1>3, <1>4, <1>5, <1>6, <1>7

\* An element passes from a send to a receive, one of which was parked.
LEMMA Handover ==
    ASSUME IInv, NEW s \in Sends, NEW r \in Receives, status = "open",
           \/ /\ pc[s] = "idle" /\ r = receiver
              /\ receiver' = NoCall /\ UNCHANGED sender
           \/ /\ pc[r] = "idle" /\ s = sender
              /\ sender' = NoCall /\ UNCHANGED receiver,
           Resume([x \in {s, r} |-> "value"]),
           got' = [got EXCEPT ![r] = s],
           UNCHANGED <<status, isCancelled, cancelTasks>>
    PROVE  IInv'
<1> USE DEF IInv
<1>0. s \in Calls /\ r \in Calls /\ s # r /\ s # NoCall /\ r # NoCall
  BY DEF Calls
<1>1. /\ pc' = [pc EXCEPT ![s] = "done", ![r] = "done"]
      /\ result' = [result EXCEPT ![s] = "value", ![r] = "value"]
  BY <1>0, ResumeTwo
<1>2. pc[s] # "done" /\ pc[r] # "done"
  BY <1>0 DEF ParkedIffInSlot
<1>3. TypeOK'
  BY <1>0, <1>1 DEF TypeOK, Results
<1>4. NotDoneNoResult'
  BY <1>0, <1>1 DEF TypeOK, NotDoneNoResult, Calls
<1>5. ParkedIffInSlot'
  BY <1>0, <1>1 DEF TypeOK, ParkedIffInSlot, NobodyWaitsInVain
<1>6. NobodyWaitsInVain'
  BY DEF NobodyWaitsInVain
<1>7. Rendezvous'
  <2>1. result[s] = "none" /\ got[r] = NoCall
    BY <1>0, <1>2 DEF NotDoneNoResult
  <2>2. \A q \in Receives : got[q] # s
    BY <2>1 DEF Rendezvous
  <2>3. \A q \in Receives : got'[q] = IF q = r THEN s ELSE got[q]
    BY DEF TypeOK
  <2>4. \A t \in Sends : result'[t] = IF t = s THEN "value" ELSE result[t]
    BY <1>0, <1>1 DEF TypeOK, Calls
  <2> QED BY <1>0, <2>1, <2>2, <2>3, <2>4 DEF Rendezvous
<1>8. CancelOnItsWay'
  BY <1>0, <1>1 DEF TypeOK, CancelOnItsWay
<1> QED BY <1>3, <1>4, <1>5, <1>6, <1>7, <1>8

\* A call parks in the slot of its kind.
LEMMA Park ==
    ASSUME IInv, NEW c \in Calls, pc[c] = "idle", c \notin isCancelled,
           status = "open", receiver = NoCall, sender = NoCall,
           \/ c \in Sends /\ sender' = c /\ UNCHANGED receiver
           \/ c \in Receives /\ receiver' = c /\ UNCHANGED sender,
           pc' = [pc EXCEPT ![c] = "parked"],
           UNCHANGED <<status, result, got, isCancelled, cancelTasks>>
    PROVE  IInv'
<1> USE DEF IInv
<1>1. TypeOK'
  BY DEF TypeOK
<1>2. NotDoneNoResult'
  BY DEF TypeOK, NotDoneNoResult, Calls
<1>3. ParkedIffInSlot'
  BY DEF TypeOK, ParkedIffInSlot, Calls
<1>4. NobodyWaitsInVain'
  BY DEF NobodyWaitsInVain
<1>5. Rendezvous'
  BY DEF Rendezvous
<1>6. CancelOnItsWay'
  BY DEF TypeOK, CancelOnItsWay
<1> QED BY <1>1, <1>2, <1>3, <1>4, <1>5, <1>6

\* finish empties both slots and resumes whoever was parked.
LEMMA CloseStep ==
    ASSUME IInv, NEW how \in {"closed", "failed"}, Close(how),
           cancelTasks' \in SUBSET cancelTasks,
           UNCHANGED <<got, isCancelled>>
    PROVE  IInv'
<1> USE DEF IInv
<1> DEFINE woken == {receiver, sender} \ {NoCall}
           end(c) == IF c \in Sends \/ how = "failed" THEN "failed" ELSE "end"
<1>1. \A c \in Calls : pc[c] = "parked" <=> c \in woken
  BY DEF ParkedIffInSlot, Calls
<1>2. /\ pc' = [c \in Calls |-> IF c \in woken THEN "done" ELSE pc[c]]
      /\ result' = [c \in Calls |-> IF c \in woken THEN end(c) ELSE result[c]]
  BY DEF Close, Resume
<1>3. status' = how /\ receiver' = NoCall /\ sender' = NoCall
  BY DEF Close
<1> HIDE DEF woken
<1>4. TypeOK'
  BY <1>2, <1>3 DEF TypeOK, Results
<1>5. NotDoneNoResult'
  BY <1>1, <1>2 DEF TypeOK, NotDoneNoResult, Calls
<1>6. ParkedIffInSlot'
  BY <1>1, <1>2, <1>3 DEF TypeOK, ParkedIffInSlot, Calls
<1>7. NobodyWaitsInVain'
  BY <1>3 DEF NobodyWaitsInVain
<1>8. Rendezvous'
  <2>1. \A s \in Sends : result'[s] = "value" <=> result[s] = "value"
    BY <1>1, <1>2 DEF TypeOK, NotDoneNoResult, Calls
  <2> QED BY <2>1 DEF Rendezvous
<1>9. CancelOnItsWay'
  BY <1>1, <1>2 DEF TypeOK, CancelOnItsWay
<1> QED BY <1>4, <1>5, <1>6, <1>7, <1>8, <1>9
-----------------------------------------------------------------------------
LEMMA NextIInv == IInv /\ [Next]_vars => IInv'
<1> SUFFICES ASSUME IInv, [Next]_vars PROVE IInv'
  OBVIOUS
<1>1. ASSUME NEW c \in Calls, CheckCancellation(c) PROVE IInv'
  BY <1>1, EndIdle DEF CheckCancellation
<1>2. ASSUME NEW s \in Sends, SendStep(s) PROVE IInv'
  <2>0. s \in Calls
    BY DEF Calls
  <2>1. CASE SendClosed(s)
    BY <2>0, <2>1, EndIdle DEF SendClosed, Enters
  <2>2. CASE SendDirect(s)
    <3>1. receiver \in Receives
      BY <2>2 DEF IInv, TypeOK, SendDirect
    <3> QED BY <2>2, <3>1, Handover DEF SendDirect, Enters
  <2>3. CASE SendParks(s)
    BY <2>0, <2>3, Park DEF SendParks, Enters
  <2>4. CASE SendRefused(s)
    BY <2>0, <2>4, EndIdle DEF SendRefused, Enters
  <2> QED BY <1>2, <2>1, <2>2, <2>3, <2>4 DEF SendStep
<1>3. ASSUME NEW r \in Receives, NextStep(r) PROVE IInv'
  <2>0. r \in Calls
    BY DEF Calls
  <2>1. CASE NextClosed(r)
    <3>1. \E o \in {"failed", "end"} : Resume(EndsAs(r, o))
      BY <2>1 DEF NextClosed
    <3> QED BY <2>0, <2>1, <3>1, EndIdle DEF NextClosed, Enters
  <2>2. CASE NextDirect(r)
    <3>1. sender \in Sends
      BY <2>2 DEF IInv, TypeOK, NextDirect
    <3>2. Resume([x \in {sender, r} |-> "value"])
      <4>1. {sender, r} = {r, sender}
        OBVIOUS
      <4> QED BY <2>2, <4>1 DEF NextDirect
    <3> QED BY <2>2, <3>1, <3>2, Handover DEF NextDirect, Enters
  <2>3. CASE NextParks(r)
    BY <2>0, <2>3, Park DEF NextParks, Enters
  <2>4. CASE NextRefused(r)
    BY <2>0, <2>4, EndIdle DEF NextRefused, Enters
  <2> QED BY <1>3, <2>1, <2>2, <2>3, <2>4 DEF NextStep
<1>4. ASSUME NEW how \in {"closed", "failed"}, Finish(how) PROVE IInv'
  BY <1>4, CloseStep DEF Finish
<1>5. ASSUME NEW c \in Calls, CancelCall(c) PROVE IInv'
  BY <1>5 DEF CancelCall, IInv, TypeOK, NotDoneNoResult, ParkedIffInSlot,
              NobodyWaitsInVain, Rendezvous, CancelOnItsWay
<1>6. ASSUME NEW c \in Calls, RunCancel(c) PROVE IInv'
  <2>1. CASE status = "open"
    BY <1>6, <2>1, CloseStep DEF RunCancel
  <2>2. CASE status # "open"
    <3>1. \A d \in Calls : pc[d] # "parked"
      BY <2>2 DEF IInv, ParkedIffInSlot, NobodyWaitsInVain, Calls
    <3> QED BY <1>6, <2>2, <3>1 DEF RunCancel, IInv, TypeOK, NotDoneNoResult,
               ParkedIffInSlot, NobodyWaitsInVain, Rendezvous, CancelOnItsWay
  <2> QED BY <2>1, <2>2
<1>7. CASE UNCHANGED vars
  BY <1>7 DEF vars, IInv, TypeOK, NotDoneNoResult, ParkedIffInSlot,
              NobodyWaitsInVain, Rendezvous, CancelOnItsWay
<1> QED BY <1>1, <1>2, <1>3, <1>4, <1>5, <1>6, <1>7 DEF Next

\* The conjunction of the properties below is preserved by every step of the
\* actor, its callers and the tasks that cancellation spawns.
THEOREM Invariance == Spec => []IInv
<1>1. IInv /\ [Next]_vars => IInv'
  BY NextIInv
<1> QED BY InitIInv, <1>1, PTL DEF Spec

\* The actor's slots and the calls' results keep their types.
THEOREM TypeCorrect == Spec => []TypeOK
<1>1. IInv => TypeOK
  BY DEF IInv
<1> QED BY Invariance, <1>1, PTL

\* No continuation stored by send or next is dropped or resumed twice.
THEOREM SlotsHoldParked == Spec => []ParkedIffInSlot
<1>1. IInv => ParkedIffInSlot
  BY DEF IInv
<1> QED BY Invariance, <1>1, PTL

\* A sender and a receiver are never both parked, and finish leaves nobody
\* parked.
THEOREM NoneInVain == Spec => []NobodyWaitsInVain
<1>1. IInv => NobodyWaitsInVain
  BY DEF IInv
<1> QED BY Invariance, <1>1, PTL

\* A send returns normally if and only if exactly one next returned its
\* element.
THEOREM ElementsMeet == Spec => []Rendezvous
<1>1. IInv => Rendezvous
  BY DEF IInv
<1> QED BY Invariance, <1>1, PTL

\* A call that was cancelled while it was parked has the task of onCancel
\* still to run.
THEOREM CancelPending == Spec => []CancelOnItsWay
<1>1. IInv => CancelOnItsWay
  BY DEF IInv
<1> QED BY Invariance, <1>1, PTL
-----------------------------------------------------------------------------
(***************************************************************************)
(* The call: its requests implement the actor, its responses are pulled.   *)
(***************************************************************************)
\* The reader that is parked is the one in the slot, and a call of next that
\* has not returned has no result.
ReaderParked ==
    \A c \in Consumers :
        /\ mapPc[c] = "parked" <=> c = consumer
        /\ mapPc[c] # "done" => ended[c] = "none"

Taken == {c \in Consumers : ended[c] = "value"}
Holds == IF worker = "yielding" THEN 1 ELSE 0

\* The first k elements were returned, each by one call of next.  They are all
\* that were pulled, but for the one the worker holds, or the one it dropped
\* because the stream had finished, after which it pulls no more.
HandedOut(k) ==
    /\ \A c \in Taken : mapGot[c] \in 1 .. k
    /\ \A n \in 1 .. k : \E c \in Taken : mapGot[c] = n
    /\ \A c, d \in Taken : mapGot[c] = mapGot[d] => c = d
    /\ \/ k = pulled - Holds
       \/ k = pulled - 1 /\ mapStatus = "finished" /\ worker \in {"asking", "done"}

MapInv ==
    /\ Map(0)!TypeOK
    /\ ReaderParked
    /\ Map(0)!DemandNotMissed
    /\ Map(0)!NoElementDropped
    /\ \E k \in 0 .. pulled : HandedOut(k)

\* Neither the types nor the properties depend on the leading elements.
MapTypeOK == Map(0)!TypeOK
Ends == {"none", "value", "end", "error", "cancelled", "refused"}
-----------------------------------------------------------------------------
(***************************************************************************)
(* The requests.                                                           *)
(***************************************************************************)
\* Every step of a call is one of the inbound actor's, with onCancel as a call
\* of its finish, or does not touch the actor.
LEMMA RequestsStep == [CallNext]_allVars => [Next]_vars
<1> SUFFICES ASSUME [CallNext]_allVars PROVE [Next]_vars
  OBVIOUS
<1>1. CASE Requests
  BY <1>1 DEF Requests
<1>2. CASE Responses
  BY <1>2 DEF Responses
<1>3. CASE OnCancel
  <2>1. CASE method = "duplex" /\ status = "open"
    <3>1. Finish("closed")
      BY <1>3, <2>1 DEF OnCancel, Finish
    <3> QED BY <3>1 DEF Next
  <2>2. CASE ~ (method = "duplex" /\ status = "open")
    BY <1>3, <2>2 DEF OnCancel, vars
  <2> QED BY <2>1, <2>2
<1>4. CASE UNCHANGED allVars
  BY <1>4 DEF allVars
<1> QED BY <1>1, <1>2, <1>3, <1>4 DEF CallNext

\* The request stream of a call, onCancel of the response stream included,
\* implements the inbound stream's specification.
THEOREM RequestsImplementInbound == CallSpec => Spec
<1>1. CallInit => Init
  BY DEF CallInit
<1> QED BY <1>1, RequestsStep, PTL DEF CallSpec, Spec

\* In a whole call, too, a send succeeds exactly when one receive returned its
\* element, nobody is parked in vain, and a cancelled parked call has its task.
THEOREM RequestsAreSafe ==
    CallSpec => [](NobodyWaitsInVain /\ Rendezvous /\ CancelOnItsWay)
<1>1. IInv => NobodyWaitsInVain /\ Rendezvous /\ CancelOnItsWay
  BY DEF IInv
<1> QED BY RequestsImplementInbound, Invariance, <1>1, PTL
-----------------------------------------------------------------------------
(***************************************************************************)
(* The responses.                                                          *)
(***************************************************************************)
\* A call of next returns without an element.
LEMMA EndCallFacts ==
    ASSUME NEW L, MapTypeOK, ReaderParked, NEW c \in Consumers, mapPc[c] # "done",
           NEW how \in Ends \ {"value"}, Map(L)!EndCall(c, how)
    PROVE  /\ Taken' = Taken
           /\ mapPc' \in [Consumers -> {"idle", "parked", "done"}]
           /\ ended' \in [Consumers -> Ends]
           /\ mapPc'[c] = "done"
           /\ \A d \in Consumers : d # c => mapPc'[d] = mapPc[d] /\ ended'[d] = ended[d]
<1>1. /\ mapPc \in [Consumers -> {"idle", "parked", "done"}]
      /\ ended \in [Consumers -> Ends]
  BY DEF MapTypeOK, Map!TypeOK, Ends
<1>2. mapPc' = [mapPc EXCEPT ![c] = "done"] /\ ended' = [ended EXCEPT ![c] = how]
  BY DEF Map!EndCall
<1>3. ended[c] = "none"
  BY DEF ReaderParked
<1>4. Taken' = Taken
  BY <1>1, <1>2, <1>3 DEF Taken
<1> QED BY <1>1, <1>2, <1>4

LEMMA FinishFacts ==
    ASSUME NEW L, MapTypeOK, ReaderParked, NEW how \in {"end", "error", "cancelled"},
           Map(L)!FinishWith(how), UNCHANGED mapGot
    PROVE  /\ Taken' = Taken /\ ReaderParked'
           /\ mapPc' \in [Consumers -> {"idle", "parked", "done"}]
           /\ ended' \in [Consumers -> Ends]
           /\ consumer' = NoCall /\ mapStatus' = "finished" /\ demand' = FALSE
           /\ final' \in {"none", "end", "error", "cancelled"}
           /\ termination' = "taken"
<1>1. /\ mapStatus' = "finished" /\ demand' = FALSE /\ termination' = "taken"
      /\ final' \in {"none", "end", "error", "cancelled"} /\ consumer' = NoCall
  BY DEF Map!FinishWith
<1>2. NoCall \notin Consumers
  BY DuplexCallAssumption DEF Map!ConstantsOK
<1>3. CASE consumer = NoCall
  <2>1. UNCHANGED <<consumer, mapPc, ended>>
    BY <1>3 DEF Map!FinishWith
  <2> QED BY <1>1, <2>1 DEF ReaderParked, Taken, MapTypeOK, Map!TypeOK, Ends
<1>4. CASE consumer # NoCall
  <2>1. consumer \in Consumers /\ Map(L)!EndCall(consumer, how)
    BY <1>4 DEF Map!FinishWith, MapTypeOK, Map!TypeOK
  <2>2. mapPc[consumer] # "done" /\ how \in Ends \ {"value"}
    BY <2>1 DEF ReaderParked, Ends
  <2>3. /\ Taken' = Taken
        /\ mapPc' \in [Consumers -> {"idle", "parked", "done"}]
        /\ ended' \in [Consumers -> Ends]
        /\ mapPc'[consumer] = "done"
        /\ \A d \in Consumers : d # consumer =>
              mapPc'[d] = mapPc[d] /\ ended'[d] = ended[d]
    BY <2>1, <2>2, EndCallFacts
  <2>4. ReaderParked'
    BY <1>1, <1>2, <2>1, <2>3 DEF ReaderParked
  <2> QED BY <1>1, <2>3, <2>4
<1> QED BY <1>3, <1>4

\* Steps that neither pull nor yield.
LEMMA HandedOutStays ==
    ASSUME \E k \in 0 .. pulled : HandedOut(k),
           Taken' = Taken, UNCHANGED <<mapGot, pulled>>,
           mapStatus = "finished" => mapStatus' = "finished",
           \/ worker' = worker
           \/ /\ worker # "yielding" /\ worker' # "yielding"
              /\ mapStatus = "finished" /\ worker \in {"asking", "done"} =>
                    worker' \in {"asking", "done"}
    PROVE  (\E k \in 0 .. pulled : HandedOut(k))'
<1>1. PICK k \in 0 .. pulled : HandedOut(k)
  OBVIOUS
<1>2. Holds' = Holds
  BY DEF Holds
<1>3. HandedOut(k)'
  BY <1>1, <1>2 DEF HandedOut
<1> QED BY <1>3

\* The calls of next, and what cancels or drops them.
LEMMA CallStep ==
    ASSUME NEW L, MapInv, NEW c \in Consumers,
           \/ Map(L)!CallCancelled(c) \/ Map(L)!CallFinished(c) \/ Map(L)!CallRefused(c)
    PROVE  MapInv'
<1> USE DEF MapInv
<1>1. PICK how \in Ends \ {"value"} : Map(L)!EndCall(c, how)
  BY DEF Map!CallCancelled, Map!CallFinished, Map!CallRefused, Map!TypeOK, Ends
<1>2. /\ mapPc[c] = "idle"
      /\ UNCHANGED <<mapStatus, final, demand, consumer, termination, worker, cancelled,
                     pulled, mapGot, mapIsCancelled, finishers>>
  BY DEF Map!CallCancelled, Map!CallFinished, Map!CallRefused
<1>3. /\ Taken' = Taken
      /\ mapPc' \in [Consumers -> {"idle", "parked", "done"}]
      /\ ended' \in [Consumers -> Ends]
      /\ mapPc'[c] = "done"
      /\ \A d \in Consumers : d # c => mapPc'[d] = mapPc[d] /\ ended'[d] = ended[d]
  BY <1>1, <1>2, EndCallFacts DEF MapTypeOK
<1>4. Map(0)!TypeOK'
  BY <1>2, <1>3 DEF Map!TypeOK, Ends
<1>5. ReaderParked'
  BY <1>2, <1>3 DEF ReaderParked
<1>6. Map(0)!DemandNotMissed' /\ Map(0)!NoElementDropped'
  BY <1>2 DEF Map!DemandNotMissed, Map!NoElementDropped
<1>7. (\E k \in 0 .. pulled : HandedOut(k))'
  BY <1>2, <1>3, HandedOutStays
<1> QED BY <1>4, <1>5, <1>6, <1>7

LEMMA ParkStep ==
    ASSUME NEW L, MapInv, NEW c \in Consumers, Map(L)!CallParks(c)
    PROVE  MapInv'
<1> USE DEF MapInv
<1>0. NoCall \notin Consumers
  BY DuplexCallAssumption DEF Map!ConstantsOK
<1>1. /\ mapPc[c] = "idle" /\ consumer = NoCall /\ consumer' = c /\ demand' = FALSE
      /\ mapPc' = [mapPc EXCEPT ![c] = "parked"]
      /\ UNCHANGED <<mapStatus, final, termination, worker, cancelled, pulled, mapGot,
                     ended, mapIsCancelled, finishers>>
  BY DEF Map!CallParks
<1>2. Map(0)!TypeOK'
  BY <1>1 DEF Map!TypeOK
<1>3. ReaderParked'
  BY <1>0, <1>1 DEF ReaderParked, Map!TypeOK
<1>4. Map(0)!DemandNotMissed' /\ Map(0)!NoElementDropped'
  BY <1>0, <1>1 DEF Map!DemandNotMissed, Map!NoElementDropped
<1>5. (\E k \in 0 .. pulled : HandedOut(k))'
  BY <1>1, HandedOutStays DEF Taken
<1> QED BY <1>2, <1>3, <1>4, <1>5

LEMMA CancelStep ==
    ASSUME NEW L, MapInv,
           (\E c \in Consumers : Map(L)!CancelCall(c)) \/ Map(L)!DropStream
    PROVE  MapInv'
<1> USE DEF MapInv
<1>0. NoCall \notin Consumers
  BY DuplexCallAssumption DEF Map!ConstantsOK
<1>1. /\ cancelled' \in BOOLEAN /\ finishers' \in Nat
      /\ mapIsCancelled' \in SUBSET Consumers
  <2>0. cancelled \in BOOLEAN /\ finishers \in Nat /\ mapIsCancelled \in SUBSET Consumers
    BY DEF Map!TypeOK
  <2>1. finishers' \in {finishers, finishers + 1, finishers + 2}
    BY DEF Map!CancelCall, Map!DropStream
  <2>2. cancelled' = TRUE \/ cancelled' = cancelled
    BY DEF Map!CancelCall, Map!DropStream
  <2>3. mapIsCancelled' \in SUBSET Consumers
    BY <2>0 DEF Map!CancelCall, Map!DropStream
  <2>4. finishers' \in Nat
    BY <2>0, <2>1
  <2>5. cancelled' \in BOOLEAN
    BY <2>0, <2>2
  <2> QED BY <2>3, <2>4, <2>5
<1>2. /\ UNCHANGED <<mapStatus, final, demand, consumer, termination, worker, pulled,
                     mapGot, ended>>
      /\ \/ mapPc' = mapPc
         \/ consumer = NoCall /\ mapPc' = [c \in Consumers |-> "done"]
  BY DEF Map!CancelCall, Map!DropStream
<1>3. Map(0)!TypeOK'
  BY <1>1, <1>2 DEF Map!TypeOK
<1>4. ReaderParked'
  BY <1>0, <1>2 DEF ReaderParked
<1>5. Map(0)!DemandNotMissed' /\ Map(0)!NoElementDropped'
  BY <1>2 DEF Map!DemandNotMissed, Map!NoElementDropped
<1>6. (\E k \in 0 .. pulled : HandedOut(k))'
  BY <1>2, HandedOutStays DEF Taken
<1> QED BY <1>3, <1>4, <1>5, <1>6

\* A call of finish: by a spawned task, or by the worker at its end.
LEMMA FinishStep ==
    ASSUME NEW L, MapInv, Map(L)!RunFinisher \/ Map(L)!WorkerFinishes
    PROVE  MapInv'
<1> USE DEF MapInv
<1>1. /\ finishers' \in Nat
      /\ UNCHANGED <<cancelled, pulled, mapGot, mapIsCancelled>>
      /\ \/ worker' = worker
         \/ worker \in {"finishing", "failing"} /\ worker' = "done"
  BY DEF Map!RunFinisher, Map!WorkerFinishes, Map!TypeOK
<1>2. worker' \in {"opening", "asking", "demanding", "pulling", "yielding",
                   "finishing", "failing", "done"}
  BY <1>1 DEF Map!TypeOK
<1>3. CASE mapStatus = "open"
  <2>1. PICK how \in {"end", "error", "cancelled"} : Map(L)!FinishWith(how)
    BY <1>3 DEF Map!RunFinisher, Map!WorkerFinishes
  <2>2. /\ Taken' = Taken /\ ReaderParked'
        /\ mapPc' \in [Consumers -> {"idle", "parked", "done"}]
        /\ ended' \in [Consumers -> Ends]
        /\ consumer' = NoCall /\ mapStatus' = "finished" /\ demand' = FALSE
        /\ final' \in {"none", "end", "error", "cancelled"}
        /\ termination' = "taken"
    BY <1>1, <2>1, FinishFacts DEF MapTypeOK
  <2>3. Map(0)!TypeOK'
    BY <1>1, <1>2, <2>2 DEF Map!TypeOK, Ends
  <2>4. Map(0)!DemandNotMissed' /\ Map(0)!NoElementDropped'
    BY <2>2 DEF Map!DemandNotMissed, Map!NoElementDropped
  <2>5. (\E k \in 0 .. pulled : HandedOut(k))'
    BY <1>1, <1>3, <2>2, HandedOutStays
  <2> QED BY <2>2, <2>3, <2>4, <2>5
<1>4. CASE mapStatus # "open"
  <2>1. UNCHANGED <<mapStatus, final, demand, consumer, termination, mapPc, ended>>
    BY <1>4 DEF Map!RunFinisher, Map!WorkerFinishes
  <2>2. Map(0)!TypeOK'
    BY <1>1, <1>2, <2>1 DEF Map!TypeOK
  <2>3. ReaderParked' /\ Map(0)!DemandNotMissed' /\ Map(0)!NoElementDropped'
    BY <1>1, <1>4, <2>1 DEF ReaderParked, Map!DemandNotMissed, Map!NoElementDropped
  <2>4. (\E k \in 0 .. pulled : HandedOut(k))'
    BY <1>1, <2>1, HandedOutStays DEF Taken
  <2> QED BY <2>2, <2>3, <2>4
<1> QED BY <1>3, <1>4

\* The worker opens the source, waits for demand and wakes up.
LEMMA WaitStep ==
    ASSUME NEW L, MapInv,
           Map(L)!WorkerOpens \/ Map(L)!WorkerAsks \/ Map(L)!WorkerWakes
    PROVE  MapInv'
<1> USE DEF MapInv
<1>1. UNCHANGED <<mapStatus, final, consumer, termination, cancelled, pulled, mapPc,
                  mapGot, ended, mapIsCancelled, finishers>>
  BY DEF Map!WorkerOpens, Map!WorkerAsks, Map!WorkerWakes, Map!callVars
<1>2. /\ worker \in {"opening", "asking", "demanding"}
      /\ worker' \in {"asking", "failing", "done", "pulling", "demanding"}
      /\ demand' \in BOOLEAN
      /\ mapStatus = "finished" /\ worker = "asking" => worker' = "done"
  BY DEF Map!WorkerOpens, Map!WorkerAsks, Map!WorkerWakes, Map!TypeOK
<1>3. Map(0)!TypeOK'
  BY <1>1, <1>2 DEF Map!TypeOK
<1>4. ReaderParked'
  BY <1>1 DEF ReaderParked
<1>5. Map(0)!DemandNotMissed'
  BY <1>1 DEF Map!DemandNotMissed, Map!WorkerOpens, Map!WorkerAsks, Map!WorkerWakes
<1>6. Map(0)!NoElementDropped'
  BY <1>1, <1>2 DEF Map!NoElementDropped, Map!WorkerOpens, Map!WorkerAsks, Map!WorkerWakes
<1>7. (\E k \in 0 .. pulled : HandedOut(k))'
  BY <1>1, <1>2, HandedOutStays DEF Taken
<1> QED BY <1>3, <1>4, <1>5, <1>6, <1>7

\* One element is taken from the source, or the source ends or throws.
LEMMA PullStep ==
    ASSUME NEW L, MapInv, Map(L)!WorkerPulls
    PROVE  MapInv'
<1> USE DEF MapInv
<1>1. /\ worker = "pulling"
      /\ UNCHANGED <<mapStatus, final, demand, consumer, termination, cancelled, mapPc,
                     mapGot, ended, mapIsCancelled, finishers>>
      /\ \/ worker' \in {"finishing", "failing"} /\ pulled' = pulled
         \/ worker' = "yielding" /\ pulled < Elements /\ pulled' = pulled + 1
  BY DEF Map!WorkerPulls, Map!callVars
<1>2. pulled' \in 0 .. Elements /\ pulled \in Nat /\ pulled' \in Nat
  BY <1>1, DuplexCallAssumption DEF Map!TypeOK, Map!ConstantsOK
<1>3. Map(0)!TypeOK'
  BY <1>1, <1>2 DEF Map!TypeOK
<1>4. ReaderParked' /\ Map(0)!DemandNotMissed' /\ Map(0)!NoElementDropped'
  BY <1>1 DEF ReaderParked, Map!DemandNotMissed, Map!NoElementDropped
<1>5. (\E k \in 0 .. pulled : HandedOut(k))'
  <2>1. PICK k \in 0 .. pulled : HandedOut(k)
    OBVIOUS
  <2>2. k = pulled /\ Taken' = Taken
    BY <1>1, <1>2, <2>1 DEF HandedOut, Holds, Taken
  <2>3. k = pulled' - Holds' /\ k \in 0 .. pulled'
    <3>1. CASE worker' = "yielding" /\ pulled' = pulled + 1
      BY <1>2, <2>2, <3>1 DEF Holds
    <3>2. CASE worker' \in {"finishing", "failing"} /\ pulled' = pulled
      BY <1>2, <2>2, <3>2 DEF Holds
    <3> QED BY <1>1, <3>1, <3>2
  <2>4. HandedOut(k)'
    BY <1>1, <2>1, <2>2, <2>3 DEF HandedOut
  <2> QED BY <2>3, <2>4
<1> QED BY <1>3, <1>4, <1>5

\* The element is given to the parked reader, or dropped on a finished stream.
LEMMA YieldStep ==
    ASSUME NEW L, MapInv, Map(L)!WorkerYields
    PROVE  MapInv'
<1> USE DEF MapInv
<1>0. NoCall \notin Consumers /\ pulled \in Nat /\ pulled \in 0 .. Elements
  BY DuplexCallAssumption DEF Map!ConstantsOK, Map!TypeOK
<1>1. /\ worker = "yielding" /\ worker' = "asking"
      /\ UNCHANGED <<mapStatus, final, demand, termination, cancelled, pulled,
                     mapIsCancelled, finishers>>
  BY DEF Map!WorkerYields
<1>2. PICK k \in 0 .. pulled : HandedOut(k)
  OBVIOUS
<1>3. k = pulled - 1 /\ Holds' = 0 /\ k \in Nat
  BY <1>0, <1>1, <1>2 DEF HandedOut, Holds
<1>4. Map(0)!DemandNotMissed' /\ Map(0)!NoElementDropped'
  BY <1>1 DEF Map!DemandNotMissed, Map!NoElementDropped
<1>5. CASE mapStatus = "open"
  <2>1. consumer \in Consumers
    BY <1>1, <1>5 DEF Map!NoElementDropped, Map!TypeOK
  <2>2. /\ consumer' = NoCall
        /\ mapGot' = [mapGot EXCEPT ![consumer] = pulled]
        /\ mapPc' = [mapPc EXCEPT ![consumer] = "done"]
        /\ ended' = [ended EXCEPT ![consumer] = "value"]
    BY <1>0, <1>5, <2>1 DEF Map!WorkerYields, Map!EndCall
  <2>3. /\ mapPc'[consumer] = "done" /\ ended'[consumer] = "value"
        /\ mapGot'[consumer] = pulled
        /\ \A d \in Consumers : d # consumer =>
              /\ mapPc'[d] = mapPc[d] /\ ended'[d] = ended[d]
              /\ mapGot'[d] = mapGot[d]
    BY <2>1, <2>2 DEF Map!TypeOK
  <2>4. Map(0)!TypeOK'
    <3>1. /\ mapGot' \in [Consumers -> 0 .. Elements]
          /\ mapPc' \in [Consumers -> {"idle", "parked", "done"}]
          /\ ended' \in [Consumers -> {"none", "value", "end", "error", "cancelled",
                                       "refused"}]
      BY <1>0, <2>1, <2>2 DEF Map!TypeOK
    <3> QED BY <1>1, <2>2, <3>1 DEF Map!TypeOK
  <2>5. ReaderParked'
    BY <1>0, <2>1, <2>2, <2>3 DEF ReaderParked
  <2>6. consumer \notin Taken /\ Taken' = Taken \cup {consumer}
    <3>1. ended[consumer] = "none"
      BY <2>1 DEF ReaderParked
    <3> QED BY <2>1, <2>3, <3>1 DEF Taken
  <2>7. HandedOut(pulled)'
    <3>1. /\ \A c \in Taken : c \in Consumers /\ mapGot[c] \in 1 .. k /\ mapGot'[c] = mapGot[c]
          /\ \A n \in 1 .. k : \E c \in Taken : mapGot[c] = n
          /\ \A c, d \in Taken : mapGot[c] = mapGot[d] => c = d
      BY <1>2, <2>3, <2>6 DEF HandedOut, Taken
    <3>2. \A c \in Taken : mapGot'[c] \in 1 .. pulled /\ mapGot'[c] # pulled
      BY <1>0, <1>3, <3>1
    <3>3. pulled \in 1 .. pulled /\ \A n \in 1 .. pulled : n = pulled \/ n \in 1 .. k
      BY <1>0, <1>3
    <3>4. \A c \in Taken' : mapGot'[c] \in 1 .. pulled
      BY <2>3, <2>6, <3>2, <3>3
    <3>5. \A n \in 1 .. pulled : \E c \in Taken' : mapGot'[c] = n
      BY <2>3, <2>6, <3>1, <3>3
    <3>6. \A c, d \in Taken' : mapGot'[c] = mapGot'[d] => c = d
      BY <2>3, <2>6, <3>1, <3>2
    <3>7. pulled = pulled - Holds'
      BY <1>0, <1>3
    <3> QED BY <1>1, <3>4, <3>5, <3>6, <3>7 DEF HandedOut
  <2>8. pulled' \in 0 .. pulled'
    BY <1>0, <1>1
  <2> QED BY <1>1, <1>4, <2>4, <2>5, <2>7, <2>8
<1>6. CASE mapStatus # "open"
  <2>1. UNCHANGED <<consumer, mapGot, mapPc, ended>> /\ mapStatus = "finished"
    BY <1>6 DEF Map!WorkerYields, Map!TypeOK
  <2>2. Map(0)!TypeOK' /\ ReaderParked'
    BY <1>1, <2>1 DEF Map!TypeOK, ReaderParked
  <2>3. HandedOut(k)' /\ k \in 0 .. pulled'
    BY <1>1, <1>2, <1>3, <2>1 DEF HandedOut, Taken
  <2> QED BY <1>4, <2>2, <2>3
<1> QED BY <1>5, <1>6

LEMMA MapStep ==
    ASSUME NEW L, MapInv, Map(L)!StreamStep
    PROVE  MapInv'
  BY CallStep, ParkStep, CancelStep, FinishStep, WaitStep, PullStep, YieldStep
  DEF Map!StreamStep, Map!WorkerStep

LEMMA MapStays ==
    ASSUME MapInv,
           UNCHANGED <<mapStatus, final, demand, consumer, worker, cancelled, pulled,
                       mapPc, mapGot, ended, mapIsCancelled, finishers>>,
           termination' \in {"armed", "taken", "ran"}
    PROVE  MapInv'
<1> USE DEF MapInv
<1>1. Map(0)!TypeOK' /\ ReaderParked'
  BY DEF Map!TypeOK, ReaderParked
<1>2. Map(0)!DemandNotMissed' /\ Map(0)!NoElementDropped'
  BY DEF Map!DemandNotMissed, Map!NoElementDropped
<1>3. (\E k \in 0 .. pulled : HandedOut(k))'
  BY HandedOutStays DEF Taken
<1> QED BY <1>1, <1>2, <1>3

LEMMA MapStart == CallInit => MapInv
<1> SUFFICES ASSUME Map(0)!Init PROVE MapInv
  BY DEF CallInit
<1>0. NoCall \notin Consumers /\ Elements \in Nat
  BY DuplexCallAssumption DEF Map!ConstantsOK
<1>1. Map(0)!TypeOK /\ ReaderParked
  <2>1. demand \in BOOLEAN /\ cancelled \in BOOLEAN
    BY DEF Map!Init
  <2>2. pulled \in 0 .. Elements /\ mapGot \in [Consumers -> 0 .. Elements] /\ finishers \in Nat
    BY <1>0 DEF Map!Init
  <2>3. /\ mapPc \in [Consumers -> {"idle", "parked", "done"}]
        /\ ended \in [Consumers -> {"none", "value", "end", "error", "cancelled",
                                    "refused"}]
    BY DEF Map!Init
  <2>4. Map(0)!TypeOK
    BY <2>1, <2>2, <2>3 DEF Map!Init, Map!TypeOK
  <2> QED BY <1>0, <2>4 DEF Map!Init, ReaderParked
<1>2. Map(0)!DemandNotMissed /\ Map(0)!NoElementDropped
  BY DEF Map!Init, Map!DemandNotMissed, Map!NoElementDropped
<1>3. HandedOut(0) /\ 0 \in 0 .. pulled
  <2>1. Taken = {} /\ pulled = 0 /\ Holds = 0
    BY DEF Map!Init, Taken, Holds
  <2> QED BY <2>1 DEF HandedOut
<1> QED BY <1>1, <1>2, <1>3 DEF MapInv

\* The inductive invariant of the response stream, for any number of elements
\* and readers, with and without leading elements.
THEOREM MapInvariance == CallSpec => []MapInv
<1>1. MapInv /\ [CallNext]_allVars => MapInv'
  <2> SUFFICES ASSUME MapInv, [CallNext]_allVars PROVE MapInv'
    OBVIOUS
  <2>1. CASE Requests \/ UNCHANGED allVars
    <3>1. UNCHANGED mapVars
      BY <2>1 DEF Requests, allVars
    <3> QED BY <3>1, MapStays DEF mapVars, MapInv, Map!TypeOK
  <2>2. CASE Responses
    BY <2>2, MapStep DEF Responses
  <2>3. CASE OnCancel
    BY <2>3, MapStays DEF OnCancel, Map!RunTermination, Map!callVars
  <2> QED BY <2>1, <2>2, <2>3 DEF CallNext
<1> QED BY MapStart, <1>1, PTL DEF CallSpec

LEMMA SameMapCardinality == \A S : Map(0)!Cardinality(S) = Cardinality(S)
  BY DEF Map!Cardinality, Cardinality

\* The worker parks only when nobody reads, finds its reader when it yields, and
\* pulled exactly what distinct calls of next returned, in order, and at most one
\* element more: no wake-up of next or finish is missed, whichever order calls,
\* cancellation, drop and the worker come in.
THEOREM PullsOnDemand == CallSpec => []DemandAnswered
<1>1. MapInv => DemandAnswered
  <2> SUFFICES ASSUME MapInv PROVE DemandAnswered
    OBVIOUS
  <2>1. PICK k \in 0 .. pulled : HandedOut(k)
    BY DEF MapInv
  <2>2. pulled \in Nat /\ k \in Nat /\ Holds \in 0 .. 1
    BY DuplexCallAssumption DEF MapInv, Map!TypeOK, Map!ConstantsOK, Holds
  <2> DEFINE f == [c \in Taken |-> mapGot[c]]
  <2>3. /\ f \in [Taken -> 1 .. k] /\ \A n \in 1 .. k : \E c \in Taken : f[c] = n
        /\ \A c, d \in Taken : f[c] = f[d] => c = d
    BY <2>1 DEF HandedOut
  <2> HIDE DEF f
  <2>4. f \in Bijection(Taken, 1 .. k)
    <3>1. f \in Injection(Taken, 1 .. k) /\ f \in Surjection(Taken, 1 .. k)
      BY <2>3, Fun_IsInj, Fun_IsSurj
    <3> QED BY <3>1, Fun_IsBij
  <2>5. IsFiniteSet(1 .. k) /\ Cardinality(1 .. k) = k
    <3>1. (IF 1 > k THEN 0 ELSE k - 1 + 1) = k
      BY <2>2
    <3> QED BY <2>2, <3>1, FS_Interval
  <2>6. Cardinality(Taken) = k
    <3>1. PICK g : g \in Bijection(1 .. k, Taken)
      BY <2>4, Fun_BijInverse
    <3>2. ExistsBijection(1 .. k, Taken)
      BY <3>1 DEF ExistsBijection
    <3> QED BY <2>5, <3>2, FS_Bijection
  <2>7. mapStatus = "open" => {mapGot[c] : c \in Taken} = 1 .. pulled - Holds
    BY <2>1, <2>2 DEF HandedOut
  <2>8. pulled - 1 <= Cardinality(Taken)
    BY <2>1, <2>2, <2>6 DEF HandedOut
  <2>9. Map(0)!PulledOnDemand
    BY <2>1, <2>7, <2>8, SameMapCardinality
    DEF Map!PulledOnDemand, HandedOut, Taken, Holds
  <2> QED BY <2>9 DEF DemandAnswered, MapInv
<1> QED BY MapInvariance, <1>1, PTL

\* Every variable of both streams has its type: the response count stays within
\* what the source has, and the slots hold calls of their own kind.
THEOREM CallTypeCorrect == CallSpec => [](TypeOK /\ Map(0)!TypeOK)
<1>1. IInv => TypeOK
  BY DEF IInv
<1>2. MapInv => Map(0)!TypeOK
  BY DEF MapInv
<1> QED BY RequestsImplementInbound, Invariance, MapInvariance, <1>1, <1>2, PTL
=============================================================================
