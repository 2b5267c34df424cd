------------------------ MODULE FutureResolverProofs ------------------------
(***************************************************************************)
(* Safety of FutureResolver for any sets of futures and callers and any    *)
(* cache size: no continuation is resumed twice or forgotten, nobody waits *)
(* without a stream task, for a cached result, or after a cancellation.    *)
(***************************************************************************)
EXTENDS FutureResolver, TLAPS

\* What a call looks like before it parks its continuation and after it ends.
OutsideCalls ==
    \A w \in Waiters :
        /\ pc[w] \in {"idle", "entered"} => resumes[w] = 0 /\ Released(w)
        /\ pc[w] = "done" => Released(w)

\* The stream task exists exactly while the stream is consumed or cleaned up.
StreamTaskRuns == streamTask <=> stream # "none"

IInv ==
    /\ TypeOK
    /\ OutsideCalls
    /\ ResumedExactlyOnce
    /\ StreamTaskRuns
    /\ WaitersAreServed
    /\ NobodyWaitsForCached
    /\ CancellationNotLost
-----------------------------------------------------------------------------
\* evict leaves a queue of ids with an offset inside it.
LEMMA CompactedType ==
    ASSUME NEW order \in Seq(Ids), NEW offset \in 0 .. Len(order)
    PROVE  /\ Compacted(order, offset).order \in Seq(Ids)
           /\ Compacted(order, offset).offset
                \in 0 .. Len(Compacted(order, offset).order)
<1>1. CASE offset > 0 /\ offset >= Len(order) \div 2
  <2>1. Compacted(order, offset) =
          [order |-> SubSeq(order, offset + 1, Len(order)), offset |-> 0]
    BY <1>1 DEF Compacted
  <2>2. SubSeq(order, offset + 1, Len(order)) \in Seq(Ids)
    OBVIOUS
  <2>3. Len(SubSeq(order, offset + 1, Len(order))) \in Nat
    BY <2>2
  <2> QED BY <2>1, <2>2, <2>3
<1>2. CASE ~ (offset > 0 /\ offset >= Len(order) \div 2)
  BY <1>2 DEF Compacted
<1> QED BY <1>1, <1>2

\* What evict removes from the queue leaves the offset inside it.
LEMMA ExcessBound ==
    ASSUME NEW order \in Seq(Ids), evictionOffset \in 0 .. Len(order)
    PROVE  evictionOffset + Excess(order) \in 0 .. Len(order)
  BY FutureResolverAssumption DEF Excess

LEMMA InitIInv == Init => IInv
<1> SUFFICES ASSUME Init PROVE IInv
  OBVIOUS
<1>1. TypeOK
  <2>1. completedOrder \in Seq(Ids) /\ evictionOffset \in 0 .. Len(completedOrder)
    BY DEF Init
  <2>2. /\ streamTask \in BOOLEAN
        /\ isCancelled \in SUBSET Waiters
        /\ onCancel \in SUBSET Waiters
    BY DEF Init
  <2>3. held \in [Outcomes -> SUBSET Waiters]
    BY DEF Init
  <2> QED BY <2>1, <2>2, <2>3 DEF Init, TypeOK
<1>2. \A w \in Waiters : Released(w) /\ pc[w] = "idle" /\ resumes[w] = 0
  BY DEF Init, Released, Holders, Outcomes
<1>3. StreamTaskRuns
  BY DEF Init, StreamTaskRuns
<1>4. OutsideCalls /\ ResumedExactlyOnce
  BY <1>2 DEF OutsideCalls, ResumedExactlyOnce
<1>5. WaitersAreServed /\ NobodyWaitsForCached /\ CancellationNotLost
  BY DEF Init, WaitersAreServed, NobodyWaitsForCached, CancellationNotLost
<1> QED BY <1>1, <1>3, <1>4, <1>5 DEF IInv

\* The typing of the state is preserved by every step.
LEMMA TypeStep == TypeOK /\ [Next]_vars => TypeOK'
<1> SUFFICES ASSUME TypeOK, [Next]_vars PROVE TypeOK'
  OBVIOUS
<1> USE DEF TypeOK
<1>1. ASSUME NEW w \in Waiters, Await(w) PROVE TypeOK'
  BY <1>1 DEF Await, cacheVars, streamVars
<1>2. ASSUME NEW w \in Waiters, Register(w) PROVE TypeOK'
  <2>1. CASE wid[w] \in completed \/ w \in isCancelled
    <3>1. pending' = pending /\ resumes' = [resumes EXCEPT ![w] = @ + 1]
      BY <1>2, <2>1 DEF Register
    <3>2. pc' = [pc EXCEPT ![w] = "done"]
      BY <1>2, <2>1 DEF Register
    <3> QED BY <1>2, <3>1, <3>2 DEF Register, cacheVars, streamVars
  <2>2. CASE ~ (wid[w] \in completed \/ w \in isCancelled)
    <3>1. pending' = pending \cup {w} /\ resumes' = resumes
      BY <1>2, <2>2 DEF Register
    <3>2. pc' = [pc EXCEPT ![w] = "registered"]
      BY <1>2, <2>2 DEF Register
    <3> QED BY <1>2, <3>1, <3>2 DEF Register, cacheVars, streamVars
  <2> QED BY <2>1, <2>2
<1>3. ASSUME NEW w \in Waiters, EnsureResolveStream(w) PROVE TypeOK'
  BY <1>3 DEF EnsureResolveStream, cacheVars, streamVars
<1>4. ASSUME NEW w \in Waiters, OnCancel(w) PROVE TypeOK'
  BY <1>4 DEF OnCancel, cacheVars, streamVars, Outcomes
<1>5. ASSUME NEW w \in Waiters, NEW o \in Outcomes, Resume(w, o) PROVE TypeOK'
  BY <1>5 DEF Resume, cacheVars, callVars, streamVars
<1>6. ASSUME NEW w \in Waiters, Return(w) PROVE TypeOK'
  BY <1>6 DEF Return, cacheVars, streamVars
<1>7. ASSUME NEW w \in Waiters, CancelTask(w) PROVE TypeOK'
  BY <1>7 DEF CancelTask, cacheVars, streamVars
<1>8. ASSUME NEW i \in Ids, Cancel(i) PROVE TypeOK'
  BY <1>8 DEF Cancel, cacheVars, callVars, streamVars, Outcomes, Entries
<1>9. ASSUME NEW i \in Ids, Resolve(i) PROVE TypeOK'
  <2> DEFINE order == Append(completedOrder, i)
             queue == Compacted(order, evictionOffset + Excess(order))
  <2>1. order \in Seq(Ids) /\ evictionOffset \in 0 .. Len(order)
    OBVIOUS
  <2>2. queue.order \in Seq(Ids) /\ queue.offset \in 0 .. Len(queue.order)
    BY <2>1, ExcessBound, CompactedType
  <2> HIDE DEF order, queue
  <2>3. /\ completed' \in SUBSET Ids
        /\ completedOrder' \in Seq(Ids)
        /\ evictionOffset' \in 0 .. Len(completedOrder')
    BY <1>9, <2>2 DEF Resolve, cacheVars, order, queue
  <2>4. pending' \in SUBSET Waiters /\ held' \in [Outcomes -> SUBSET Waiters]
    BY <1>9 DEF Resolve, Entries, Outcomes
  <2> QED BY <1>9, <2>3, <2>4 DEF Resolve, callVars
<1>10. ASSUME NEW i \in Ids, ServerCompletes(i) PROVE TypeOK'
  BY <1>10 DEF ServerCompletes, cacheVars, callVars
<1>11. CASE StreamEnds
  BY <1>11 DEF StreamEnds, cacheVars, callVars
<1>12. CASE StreamCleanup
  BY <1>12 DEF StreamCleanup, cacheVars, callVars, Outcomes
<1>13. CASE UNCHANGED vars
  BY <1>13 DEF vars, cacheVars, callVars, streamVars
<1> QED
  BY <1>1, <1>2, <1>3, <1>4, <1>5, <1>6, <1>7, <1>8, <1>9, <1>10, <1>11,
     <1>12, <1>13 DEF Next, CallStep

\* Who owns a continuation changes hands, and never doubles.
LEMMA OwnershipStep ==
    TypeOK /\ OutsideCalls /\ ResumedExactlyOnce /\ [Next]_vars
        => OutsideCalls' /\ ResumedExactlyOnce'
<1> SUFFICES ASSUME TypeOK, OutsideCalls, ResumedExactlyOnce, [Next]_vars,
                    NEW v \in Waiters
             PROVE  /\ pc'[v] \in {"idle", "entered"} =>
                          resumes'[v] = 0 /\ Released(v)'
                    /\ pc'[v] = "done" => Released(v)'
                    /\ pc'[v] \in {"registered", "waiting"} =>
                          \/ resumes'[v] = 0 /\ (Parked(v)' \/ Taken(v)')
                          \/ resumes'[v] = 1 /\ Released(v)'
  BY DEF OutsideCalls, ResumedExactlyOnce
<1> DEFINE Owned(x) ==
              /\ pc[x] \in {"idle", "entered"} => resumes[x] = 0 /\ Released(x)
              /\ pc[x] = "done" => Released(x)
              /\ pc[x] \in {"registered", "waiting"} =>
                    \/ resumes[x] = 0 /\ (Parked(x) \/ Taken(x))
                    \/ resumes[x] = 1 /\ Released(x)
<1>0. Owned(v)
  BY DEF OutsideCalls, ResumedExactlyOnce
<1> USE DEF TypeOK, Parked, Taken, Released, Holders
<1>1. ASSUME NEW w \in Waiters, Await(w) PROVE Owned(v)'
  BY <1>0, <1>1 DEF Await, streamVars
<1>2. ASSUME NEW w \in Waiters, Register(w) PROVE Owned(v)'
  <2>1. CASE wid[w] \in completed \/ w \in isCancelled
    BY <1>0, <1>2, <2>1 DEF Register
  <2>2. CASE ~ (wid[w] \in completed \/ w \in isCancelled)
    BY <1>0, <1>2, <2>2, ZenonT(30) DEF Register
  <2> QED BY <2>1, <2>2
<1>3. ASSUME NEW w \in Waiters, EnsureResolveStream(w) PROVE Owned(v)'
  BY <1>0, <1>3 DEF EnsureResolveStream
<1>4. ASSUME NEW w \in Waiters, OnCancel(w) PROVE Owned(v)'
  BY <1>0, <1>4 DEF OnCancel, Outcomes
<1>5. ASSUME NEW w \in Waiters, NEW o \in Outcomes, Resume(w, o) PROVE Owned(v)'
  <2>1. CASE v = w
    <3>1. Taken(w) /\ Holders(w) = {o} /\ resumes[w] = 0
      BY <1>0, <1>5, <2>1 DEF Resume
    <3>2. Released(w)' /\ resumes'[w] = 1
      BY <1>5, <3>1 DEF Resume
    <3> QED BY <1>0, <1>5, <2>1, <3>1, <3>2 DEF Resume, callVars
  <2>2. CASE v # w
    <3>1. Holders(v)' = Holders(v)
      BY <1>5, <2>2 DEF Resume
    <3> QED BY <1>0, <1>5, <2>2, <3>1 DEF Resume, callVars
  <2> QED BY <2>1, <2>2
<1>6. ASSUME NEW w \in Waiters, Return(w) PROVE Owned(v)'
  BY <1>0, <1>6 DEF Return
<1>7. ASSUME NEW w \in Waiters, CancelTask(w) PROVE Owned(v)'
  BY <1>0, <1>7 DEF CancelTask
<1>8. ASSUME NEW i \in Ids, Cancel(i) PROVE Owned(v)'
  BY <1>0, <1>8 DEF Cancel, callVars, Outcomes, Entries
<1>9. ASSUME NEW i \in Ids, Resolve(i) PROVE Owned(v)'
  BY <1>0, <1>9 DEF Resolve, callVars, Outcomes, Entries
<1>10. ASSUME NEW i \in Ids, ServerCompletes(i) PROVE Owned(v)'
  BY <1>0, <1>10 DEF ServerCompletes, callVars
<1>11. CASE StreamEnds
  BY <1>0, <1>11 DEF StreamEnds, callVars
<1>12. CASE StreamCleanup
  BY <1>0, <1>12 DEF StreamCleanup, callVars, Outcomes
<1>13. CASE UNCHANGED vars
  BY <1>0, <1>13 DEF vars, callVars
<1> QED
  BY <1>1, <1>2, <1>3, <1>4, <1>5, <1>6, <1>7, <1>8, <1>9, <1>10, <1>11,
     <1>12, <1>13 DEF Next, CallStep

\* Whoever waits has a stream task, or is about to start one.
LEMMA ServedStep ==
    TypeOK /\ StreamTaskRuns /\ WaitersAreServed /\ [Next]_vars
        => StreamTaskRuns' /\ WaitersAreServed'
<1> SUFFICES ASSUME TypeOK, StreamTaskRuns, WaitersAreServed, [Next]_vars
             PROVE  StreamTaskRuns' /\ WaitersAreServed'
  OBVIOUS
<1> USE DEF TypeOK, StreamTaskRuns, WaitersAreServed
<1>1. ASSUME NEW w \in Waiters, Await(w)
      PROVE  StreamTaskRuns' /\ WaitersAreServed'
  BY <1>1 DEF Await, streamVars
<1>2. ASSUME NEW w \in Waiters, Register(w)
      PROVE  StreamTaskRuns' /\ WaitersAreServed'
  BY <1>2 DEF Register, streamVars
<1>3. ASSUME NEW w \in Waiters, EnsureResolveStream(w)
      PROVE  StreamTaskRuns' /\ WaitersAreServed'
  BY <1>3 DEF EnsureResolveStream, streamVars
<1>4. ASSUME NEW w \in Waiters, OnCancel(w)
      PROVE  StreamTaskRuns' /\ WaitersAreServed'
  BY <1>4 DEF OnCancel, streamVars
<1>5. ASSUME NEW w \in Waiters, NEW o \in Outcomes, Resume(w, o)
      PROVE  StreamTaskRuns' /\ WaitersAreServed'
  BY <1>5 DEF Resume, callVars, streamVars
<1>6. ASSUME NEW w \in Waiters, Return(w)
      PROVE  StreamTaskRuns' /\ WaitersAreServed'
  BY <1>6 DEF Return, streamVars
<1>7. ASSUME NEW w \in Waiters, CancelTask(w)
      PROVE  StreamTaskRuns' /\ WaitersAreServed'
  BY <1>7 DEF CancelTask, streamVars
<1>8. ASSUME NEW i \in Ids, Cancel(i)
      PROVE  StreamTaskRuns' /\ WaitersAreServed'
  BY <1>8 DEF Cancel, callVars, streamVars
<1>9. ASSUME NEW i \in Ids, Resolve(i)
      PROVE  StreamTaskRuns' /\ WaitersAreServed'
  BY <1>9 DEF Resolve, callVars
<1>10. ASSUME NEW i \in Ids, ServerCompletes(i)
       PROVE  StreamTaskRuns' /\ WaitersAreServed'
  BY <1>10 DEF ServerCompletes, callVars
<1>11. CASE StreamEnds
  BY <1>11 DEF StreamEnds, callVars
<1>12. CASE StreamCleanup
  BY <1>12 DEF StreamCleanup, callVars
<1>13. CASE UNCHANGED vars
  BY <1>13 DEF vars, callVars, streamVars
<1> QED
  BY <1>1, <1>2, <1>3, <1>4, <1>5, <1>6, <1>7, <1>8, <1>9, <1>10, <1>11,
     <1>12, <1>13 DEF Next, CallStep

\* Only Register parks a waiter, after it looked at the cache and the flag;
\* only Resolve adds to the cache, and it takes the waiters of the result out.
LEMMA WaitingStep ==
    TypeOK /\ NobodyWaitsForCached /\ CancellationNotLost /\ [Next]_vars
        => NobodyWaitsForCached' /\ CancellationNotLost'
<1> SUFFICES ASSUME TypeOK, NobodyWaitsForCached, CancellationNotLost,
                    [Next]_vars
             PROVE  NobodyWaitsForCached' /\ CancellationNotLost'
  OBVIOUS
<1> USE DEF TypeOK, NobodyWaitsForCached, CancellationNotLost
<1>1. ASSUME NEW w \in Waiters, Await(w)
      PROVE  NobodyWaitsForCached' /\ CancellationNotLost'
  BY <1>1 DEF Await, cacheVars
<1>2. ASSUME NEW w \in Waiters, Register(w)
      PROVE  NobodyWaitsForCached' /\ CancellationNotLost'
  BY <1>2 DEF Register, cacheVars
<1>3. ASSUME NEW w \in Waiters, EnsureResolveStream(w)
      PROVE  NobodyWaitsForCached' /\ CancellationNotLost'
  BY <1>3 DEF EnsureResolveStream, cacheVars
<1>4. ASSUME NEW w \in Waiters, OnCancel(w)
      PROVE  NobodyWaitsForCached' /\ CancellationNotLost'
  BY <1>4 DEF OnCancel, cacheVars
<1>5. ASSUME NEW w \in Waiters, NEW o \in Outcomes, Resume(w, o)
      PROVE  NobodyWaitsForCached' /\ CancellationNotLost'
  BY <1>5 DEF Resume, callVars, cacheVars
<1>6. ASSUME NEW w \in Waiters, Return(w)
      PROVE  NobodyWaitsForCached' /\ CancellationNotLost'
  BY <1>6 DEF Return, cacheVars
<1>7. ASSUME NEW w \in Waiters, CancelTask(w)
      PROVE  NobodyWaitsForCached' /\ CancellationNotLost'
  BY <1>7 DEF CancelTask, cacheVars
<1>8. ASSUME NEW i \in Ids, Cancel(i)
      PROVE  NobodyWaitsForCached' /\ CancellationNotLost'
  BY <1>8 DEF Cancel, callVars, cacheVars
<1>9. ASSUME NEW i \in Ids, Resolve(i)
      PROVE  NobodyWaitsForCached' /\ CancellationNotLost'
  <2>1. CASE i \in completed
    BY <1>9, <2>1 DEF Resolve, callVars, cacheVars
  <2>2. CASE i \notin completed
    <3>1. completed' \subseteq completed \cup {i}
      BY <1>9, <2>2 DEF Resolve
    <3>2. pending' = pending \ Entries(i)
      BY <1>9, <2>2 DEF Resolve
    <3> QED BY <1>9, <3>1, <3>2 DEF Resolve, callVars, Entries
  <2> QED BY <2>1, <2>2
<1>10. ASSUME NEW i \in Ids, ServerCompletes(i)
       PROVE  NobodyWaitsForCached' /\ CancellationNotLost'
  BY <1>10 DEF ServerCompletes, callVars, cacheVars
<1>11. CASE StreamEnds
  BY <1>11 DEF StreamEnds, callVars, cacheVars
<1>12. CASE StreamCleanup
  BY <1>12 DEF StreamCleanup, callVars, cacheVars
<1>13. CASE UNCHANGED vars
  BY <1>13 DEF vars, callVars, cacheVars
<1> QED
  BY <1>1, <1>2, <1>3, <1>4, <1>5, <1>6, <1>7, <1>8, <1>9, <1>10, <1>11,
     <1>12, <1>13 DEF Next, CallStep
-----------------------------------------------------------------------------
\* The inductive invariant holds in every reachable state.
THEOREM Invariance == Spec => []IInv
<1>1. IInv /\ [Next]_vars => IInv'
  BY TypeStep, OwnershipStep, ServedStep, WaitingStep DEF IInv
<1> QED BY InitIInv, <1>1, PTL DEF Spec

\* The resolver's state stays in its types, the queue offset within the queue.
THEOREM TypeCorrect == Spec => []TypeOK
<1>1. IInv => TypeOK
  BY DEF IInv
<1> QED BY Invariance, <1>1, PTL

\* No continuation is resumed twice, and one that is parked keeps exactly one
\* owner until it is resumed.
THEOREM ResumeOnce == Spec => []ResumedExactlyOnce
<1>1. IInv => ResumedExactlyOnce
  BY DEF IInv
<1> QED BY Invariance, <1>1, PTL

\* The end of a stream strands no waiter.
THEOREM Served == Spec => []WaitersAreServed
<1>1. IInv => WaitersAreServed
  BY DEF IInv
<1> QED BY Invariance, <1>1, PTL

\* Nobody waits for a result that is in the cache.
THEOREM NoneForCached == Spec => []NobodyWaitsForCached
<1>1. IInv => NobodyWaitsForCached
  BY DEF IInv
<1> QED BY Invariance, <1>1, PTL

\* A cancellation of the calling task is not lost to the registration race.
THEOREM CancellationKept == Spec => []CancellationNotLost
<1>1. IInv => CancellationNotLost
  BY DEF IInv
<1> QED BY Invariance, <1>1, PTL
=============================================================================
