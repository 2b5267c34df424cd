--------------------------- MODULE TsFuturesProofs ---------------------------
(***************************************************************************)
(* Safety of TypeScript futures for any sets of ids, callers, keys, calls  *)
(* and any limits.  At the client: the Map of waiting calls and the cache  *)
(* agree.  At the server: the storage's bookkeeping is exact, and what is  *)
(* owed to a resolve call is neither lost nor repeated.                    *)
(***************************************************************************)
EXTENDS TsFutures, FiniteSetTheorems, FunctionTheorems, TLAPS

\* A queue lists no id twice.
Distinct(q) == \A m, n \in 1 .. Len(q) : q[m] = q[n] => m = n
-----------------------------------------------------------------------------
(***************************************************************************)
(* The client.                                                             *)
(***************************************************************************)
\* A call that has not begun is in no Set and names none; a Set belongs to
\* one id, that of the call it is named after.
SetsAreNamed ==
    /\ \A w \in Waiters :
          /\ callPc[w] = "idle" => w \notin members /\ setOf[w] = NoSet
          /\ w \in members => setOf[w] # NoSet
          /\ setOf[w] # NoSet => callPc[setOf[w]] # "idle" /\ wid[w] = wid[setOf[w]]
    /\ \A i \in Ids : pending[i] # NoSet =>
          callPc[pending[i]] # "idle" /\ wid[pending[i]] = i

\* What is in the Map waits, for a result that is not cached.
EntriesWait ==
    \A i \in Ids : \A w \in Entries(i) :
        callPc[w] = "waiting" /\ wid[w] = i /\ i \notin completed

\* The cache and its queue.
CacheWindow ==
    /\ Elems(completedOrder) = completed
    /\ Distinct(completedOrder)
    /\ Len(completedOrder) <= MaxCompletedResults

ClientInv == ClientTypeOK /\ SetsAreNamed /\ EntriesWait /\ CacheWindow
-----------------------------------------------------------------------------
(***************************************************************************)
(* The server.                                                             *)
(***************************************************************************)
Completed == {i \in Ids : state[i] = "completed"}

\* The result of i is, or was, somewhere on its way to call s.
InQueue(s, i) == i \in Storage!Elems(queue[s])
Reached(s, i) == i \in immediate[s] \/ InQueue(s, i) \/ handed[s][i] > 0

\* The future was not issued, or it has not settled.
Early(i) == i \notin issued \/ state[i] = "pending"

UnissuedAbsent == \A i \in Ids : i \notin issued => state[i] = "absent"

\* The completion queue lists the completed entries, each once.
StorageWindow ==
    /\ Storage!Elems(retainedOrder) = Completed
    /\ Distinct(retainedOrder)
    /\ Len(retainedOrder) <= MaxCompleted

\* The result of a future that has not settled has reached nobody.
NothingEarly(s) ==
    \A i \in Ids : Early(i) => ~ Reached(s, i) /\ i \notin owed[s]

\* What holds of a call before it subscribes, of one that is subscribed, and of
\* the generator of one that reads.
CallShape(s) ==
    /\ gen[s] = "new" => /\ s \notin subscribers
                         /\ immediate[s] = {} /\ queue[s] = <<>>
                         /\ owed[s] = {} /\ reader[s] = "readable"
                         /\ \A i \in Ids : handed[s][i] = 0
    /\ s \in subscribers => reader[s] = "readable"
    /\ gen[s] = "immediate" => reader[s] # "cancelled"
    /\ gen[s] = "reading" => /\ immediate[s] = {}
                             /\ s \notin gone => reader[s] # "cancelled"

\* Each result is in at most one place, and what is owed on a stream that is
\* intact is in one.
OnePlace(s) ==
    /\ Distinct(queue[s])
    /\ \A i \in Ids :
          /\ i \in immediate[s] => handed[s][i] = 0 /\ ~ InQueue(s, i)
          /\ InQueue(s, i) => handed[s][i] = 0
          /\ handed[s][i] <= 1
          /\ i \in owed[s] /\ reader[s] \notin {"errored", "cancelled"} =>
                Reached(s, i)

\* A call is only on the way to results of its caller's futures.
OwnResults(s) == \A i \in Ids : Reached(s, i) => owner[i] = subOwner[s]

\* The ids a filtered call asked for: those it no longer waits for have
\* reached it; all of them have when the stream is closing, and were yielded
\* when the call is done.
TargetsReached(s) ==
    /\ s \in subscribers /\ ~ wild[s] =>
          \A i \in target[s] : i \in remaining[s] \/ Reached(s, i)
    /\ reader[s] = "closing" => ~ wild[s] /\ \A i \in target[s] : Reached(s, i)
    /\ gen[s] = "done" => ~ wild[s] /\ \A i \in target[s] : handed[s][i] > 0

CallOK(s) ==
    /\ NothingEarly(s)
    /\ CallShape(s)
    /\ OnePlace(s)
    /\ OwnResults(s)
    /\ TargetsReached(s)

ServerInv ==
    /\ Storage!TypeOK
    /\ Storage!PendingCountExact
    /\ Storage!KeysFollowEntries
    /\ UnissuedAbsent
    /\ StorageWindow
    /\ \A s \in Subs : CallOK(s)
-----------------------------------------------------------------------------
(***************************************************************************)
(* Queues without repetition.                                              *)
(***************************************************************************)
LEMMA QueueCardinality ==
    ASSUME NEW S, NEW q \in Seq(S), Distinct(q)
    PROVE  Cardinality(Elems(q)) = Len(q) /\ IsFiniteSet(Elems(q))
<1> DEFINE D == 1 .. Len(q)
           f == [n \in D |-> q[n]]
<1>1. f \in [D -> Elems(q)] /\ \A t \in Elems(q) : \E n \in D : f[n] = t
  BY DEF Elems
<1>2. \A m, n \in D : f[m] = f[n] => m = n
  BY DEF Distinct
<1>3. IsFiniteSet(D) /\ Cardinality(D) = Len(q)
  <2>1. Len(q) \in Nat /\ (IF 1 > Len(q) THEN 0 ELSE Len(q) - 1 + 1) = Len(q)
    OBVIOUS
  <2> QED BY <2>1, FS_Interval, SMTT(30)
<1> HIDE DEF D, f
<1>4. f \in Surjection(D, Elems(q)) /\ f \in Injection(D, Elems(q))
  BY <1>1, <1>2, Fun_IsSurj, Fun_IsInj
<1> QED BY <1>3, <1>4, FS_Surjection

\* An element is added at the end.
LEMMA QueueAppend ==
    ASSUME NEW S, NEW q \in Seq(S), Distinct(q), NEW i \in S, i \notin Elems(q)
    PROVE  /\ Append(q, i) \in Seq(S) /\ Distinct(Append(q, i))
           /\ Elems(Append(q, i)) = Elems(q) \cup {i}
           /\ Len(Append(q, i)) = Len(q) + 1
<1> DEFINE order == Append(q, i)
<1>1. /\ order \in Seq(S) /\ Len(order) = Len(q) + 1 /\ Len(q) \in Nat
      /\ order[Len(order)] = i
      /\ \A n \in 1 .. Len(q) : order[n] = q[n] /\ n \in 1 .. Len(order)
  OBVIOUS
<1> HIDE DEF order
<1>2. \A n \in 1 .. Len(order) : n \in 1 .. Len(q) \/ n = Len(order)
  BY <1>1
<1>3. Elems(order) = Elems(q) \cup {i}
  <2>1. Len(order) \in 1 .. Len(order)
    BY <1>1
  <2> QED BY <1>1, <1>2, <2>1 DEF Elems
<1>4. Distinct(order)
  <2>1. \A n \in 1 .. Len(q) : order[n] # i
    BY <1>1 DEF Elems
  <2> QED BY <1>1, <1>2, <2>1 DEF Distinct
<1> QED BY <1>1, <1>3, <1>4 DEF order

\* order is front, of length e, followed by rest.
IsCut(order, e, front, rest) ==
    /\ e \in 0 .. Len(order)
    /\ Len(front) = e /\ Len(rest) = Len(order) - e
    /\ \A n \in 1 .. e : front[n] = order[n]
    /\ \A n \in 1 .. Len(order) - e : rest[n] = order[n + e]

\* The first e elements are taken off.
LEMMA QueueCut ==
    ASSUME NEW S, NEW order \in Seq(S), Distinct(order), NEW e,
           NEW front \in Seq(S), NEW rest \in Seq(S),
           IsCut(order, e, front, rest)
    PROVE  /\ Distinct(rest)
           /\ Elems(rest) = Elems(order) \ Elems(front)
           /\ Elems(front) \subseteq Elems(order)
<1> USE DEF IsCut
<1>1. Len(order) \in Nat /\ e \in Nat
  OBVIOUS
<1>2. \A n \in 1 .. Len(order) - e : n + e \in 1 .. Len(order) /\ n + e \notin 1 .. e
  BY <1>1
<1>3. Distinct(rest)
  <2> SUFFICES ASSUME NEW m \in 1 .. Len(order) - e, NEW n \in 1 .. Len(order) - e,
                      rest[m] = rest[n]
               PROVE  m = n
    BY DEF Distinct
  <2>1. m + e = n + e
    BY <1>2 DEF Distinct
  <2> QED BY <1>1, <2>1
<1>4. /\ \A n \in 1 .. e : n \in 1 .. Len(order)
      /\ \A n \in 1 .. Len(order) : n \notin 1 .. e =>
            n - e \in 1 .. Len(order) - e /\ (n - e) + e = n
  BY <1>1
<1>5. ASSUME NEW x \in Elems(front) PROVE x \in Elems(order)
  <2>1. PICK n \in 1 .. e : x = front[n]
    BY <1>5 DEF Elems
  <2> QED BY <1>4, <2>1 DEF Elems
<1>6. ASSUME NEW x \in Elems(rest) PROVE x \in Elems(order) \ Elems(front)
  <2>1. PICK n \in 1 .. Len(order) - e : x = rest[n]
    BY <1>6 DEF Elems
  <2>2. x = order[n + e] /\ n + e \in 1 .. Len(order) /\ n + e \notin 1 .. e
    BY <1>2, <2>1
  <2>3. ASSUME NEW m \in 1 .. e, x = front[m] PROVE FALSE
    BY <1>4, <2>2, <2>3 DEF Distinct
  <2> QED BY <2>2, <2>3 DEF Elems
<1>7. ASSUME NEW x \in Elems(order) \ Elems(front) PROVE x \in Elems(rest)
  <2>1. PICK n \in 1 .. Len(order) : x = order[n]
    BY <1>7 DEF Elems
  <2>2. n \notin 1 .. e
    BY <1>7, <2>1 DEF Elems
  <2>3. n - e \in 1 .. Len(rest) /\ rest[n - e] = order[n]
    BY <1>4, <2>1, <2>2
  <2> QED BY <2>1, <2>3 DEF Elems
<1> QED BY <1>3, <1>5, <1>6, <1>7

\* The first element is taken.
LEMMA QueueTail ==
    ASSUME NEW S, NEW q \in Seq(S), Distinct(q), q # <<>>
    PROVE  /\ Tail(q) \in Seq(S) /\ Distinct(Tail(q))
           /\ Head(q) \in Elems(q)
           /\ Elems(Tail(q)) = Elems(q) \ {Head(q)}
<1> DEFINE rest == Tail(q)
           front == <<Head(q)>>
<1>1. Len(q) \in Nat /\ Len(q) # 0 /\ Head(q) = q[1]
  OBVIOUS
<1>2. /\ rest \in Seq(S) /\ Len(rest) = Len(q) - 1
      /\ \A n \in 1 .. Len(q) - 1 : rest[n] = q[n + 1]
  OBVIOUS
<1>3. front \in Seq(S) /\ Len(front) = 1 /\ \A n \in 1 .. 1 : front[n] = q[n]
  BY <1>1
<1>4. 1 \in 0 .. Len(q) /\ 1 \in 1 .. Len(q)
  BY <1>1
<1>5. Elems(front) = {Head(q)}
  BY <1>3 DEF Elems
<1> HIDE DEF rest, front
<1>6. Distinct(rest) /\ Elems(rest) = Elems(q) \ Elems(front)
  <2>1. IsCut(q, 1, front, rest)
    BY <1>2, <1>3, <1>4 DEF IsCut
  <2> QED BY <1>2, <1>3, <2>1, QueueCut
<1> QED BY <1>1, <1>2, <1>4, <1>5, <1>6 DEF rest, Elems

\* Elements are taken off the front after one was added at the end, as the
\* eviction loops of complete do.
LEMMA QueueShift ==
    ASSUME NEW S, NEW q \in Seq(S), Distinct(q), NEW i \in S, i \notin Elems(q),
           NEW e \in 0 .. Len(q) + 1
    PROVE  LET order == Append(q, i)
               rest  == SubSeq(order, e + 1, Len(order))
               front == SubSeq(order, 1, e)
           IN  /\ rest \in Seq(S) /\ Distinct(rest)
               /\ Len(rest) = Len(q) + 1 - e
               /\ Elems(rest) = (Elems(q) \cup {i}) \ Elems(front)
               /\ Elems(front) \subseteq Elems(q) \cup {i}
<1> DEFINE order == Append(q, i)
           rest  == SubSeq(order, e + 1, Len(order))
           front == SubSeq(order, 1, e)
<1>1. /\ order \in Seq(S) /\ Distinct(order) /\ Len(order) = Len(q) + 1
      /\ Elems(order) = Elems(q) \cup {i}
  BY QueueAppend
<1> HIDE DEF order
<1>2. e \in 0 .. Len(order)
  BY <1>1
<1>3. /\ rest \in Seq(S) /\ Len(rest) = Len(order) - e
      /\ \A n \in 1 .. Len(order) - e : rest[n] = order[n + e]
  BY <1>1, <1>2
<1>4. front \in Seq(S) /\ Len(front) = e /\ \A n \in 1 .. e : front[n] = order[n]
  BY <1>1, <1>2
<1> HIDE DEF rest, front
<1>5. /\ Distinct(rest) /\ Elems(rest) = Elems(order) \ Elems(front)
      /\ Elems(front) \subseteq Elems(order)
  <2>1. IsCut(order, e, front, rest)
    BY <1>2, <1>3, <1>4 DEF IsCut
  <2> QED BY <1>1, <1>3, <1>4, <2>1, QueueCut, SMTT(30)
<1>6. /\ rest \in Seq(S) /\ Distinct(rest)
      /\ Len(rest) = Len(q) + 1 - e
      /\ Elems(rest) = (Elems(q) \cup {i}) \ Elems(front)
      /\ Elems(front) \subseteq Elems(q) \cup {i}
  BY <1>1, <1>3, <1>5
<1> QED BY <1>6 DEF rest, front, order
-----------------------------------------------------------------------------
(***************************************************************************)
(* The client's steps.                                                     *)
(***************************************************************************)
\* What settling promises does to the calls.
LEMMA SettleFacts ==
    ASSUME ClientTypeOK, NEW W \in SUBSET Waiters, NEW o \in Settlements, Settle(W, o)
    PROVE  /\ callPc' \in [Waiters -> {"idle", "waiting", "settled", "done"}]
           /\ settlement' \in [Waiters -> Settlements]
           /\ \A w \in Waiters : /\ callPc'[w] = "idle" <=> callPc[w] = "idle"
                                 /\ w \notin W => callPc'[w] = callPc[w]
  BY DEF Settle, ClientTypeOK

\* The loop of complete keeps the cache within its limit and its queue in step
\* with it.
LEMMA CacheShift ==
    ASSUME ClientTypeOK, CacheWindow, NEW i \in Ids \ completed
    PROVE  LET order == Append(completedOrder, i)
               rest  == SubSeq(order, Excess(order) + 1, Len(order))
               left  == (completed \cup {i}) \ Elems(SubSeq(order, 1, Excess(order)))
           IN  /\ rest \in Seq(Ids) /\ left \subseteq completed \cup {i}
               /\ Elems(rest) = left
               /\ Distinct(rest) /\ Len(rest) <= MaxCompletedResults
<1> DEFINE order == Append(completedOrder, i)
           e == Excess(order)
           rest == SubSeq(order, e + 1, Len(order))
           front == SubSeq(order, 1, e)
<1>1. /\ completedOrder \in Seq(Ids) /\ Distinct(completedOrder)
      /\ i \notin Elems(completedOrder) /\ Elems(completedOrder) = completed
  BY DEF ClientTypeOK, CacheWindow
<1>2. Len(completedOrder) \in Nat /\ Len(order) = Len(completedOrder) + 1
  BY <1>1
<1>3. /\ e \in 0 .. Len(completedOrder) + 1
      /\ Len(completedOrder) + 1 - e <= MaxCompletedResults
  BY <1>2, TsFutureResolverAssumption DEF Excess
<1> HIDE DEF e
<1>4. /\ rest \in Seq(Ids) /\ Distinct(rest)
      /\ Len(rest) = Len(completedOrder) + 1 - e
      /\ Elems(rest) = (Elems(completedOrder) \cup {i}) \ Elems(front)
  BY <1>1, <1>3, QueueShift
<1>5. (completed \cup {i}) \ Elems(front) \subseteq completed \cup {i}
  OBVIOUS
<1> HIDE DEF rest, front, order
<1>6. /\ rest \in Seq(Ids)
      /\ (completed \cup {i}) \ Elems(front) \subseteq completed \cup {i}
      /\ Elems(rest) = (completed \cup {i}) \ Elems(front)
      /\ Distinct(rest) /\ Len(rest) <= MaxCompletedResults
  BY <1>1, <1>3, <1>4, <1>5
<1> QED BY <1>6 DEF rest, front, order, e

LEMMA ClientTypeStep ==
    ASSUME ClientTypeOK, CacheWindow, ClientNext
    PROVE  ClientTypeOK'
<1> DEFINE Goal == ClientTypeOK'
<1>1. ASSUME NEW w \in Waiters, ResolveNow(w) PROVE Goal
  BY <1>1 DEF ResolveNow, ClientTypeOK, cacheVars, serverVars
<1>2. ASSUME NEW w \in Waiters, Resolve(w) PROVE Goal
  BY <1>2 DEF Resolve, ClientTypeOK, cacheVars
<1>3. ASSUME NEW w \in Waiters, Return(w) PROVE Goal
  BY <1>3 DEF Return, ClientTypeOK, cacheVars, serverVars
<1>4. ASSUME NEW w \in Waiters, Abort(w) PROVE Goal
  <2>1. CASE callPc[w] \in {"waiting", "settled"}
    <3>1. Settle({w}, "aborted") /\ "aborted" \in Settlements /\ {w} \in SUBSET Waiters
      BY <1>4, <2>1 DEF Abort, AbortHandler, Settlements
    <3>2. /\ callPc' \in [Waiters -> {"idle", "waiting", "settled", "done"}]
          /\ settlement' \in [Waiters -> Settlements]
      BY <3>1, SettleFacts
    <3> QED BY <1>4, <2>1, <3>2 DEF Abort, AbortHandler, ClientTypeOK, cacheVars, serverVars
  <2>2. CASE callPc[w] \notin {"waiting", "settled"}
    BY <1>4, <2>2 DEF Abort, ClientTypeOK, cacheVars, serverVars
  <2> QED BY <2>1, <2>2
<1>5. ASSUME NEW i \in Ids, Cancel(i) PROVE Goal
  <2>1. /\ Settle(Entries(i), "cancelled") /\ "cancelled" \in Settlements
        /\ Entries(i) \in SUBSET Waiters
    BY <1>5 DEF Cancel, Settlements, Entries, ClientTypeOK
  <2>2. /\ callPc' \in [Waiters -> {"idle", "waiting", "settled", "done"}]
        /\ settlement' \in [Waiters -> Settlements]
    BY <2>1, SettleFacts
  <2> QED BY <1>5, <2>2 DEF Cancel, ClientTypeOK, cacheVars, serverVars
<1>6. ASSUME NEW i \in Ids, Complete(i) PROVE Goal
  <2>1. CASE i \in completed
    BY <1>6, <2>1 DEF Complete, ClientTypeOK, cacheVars
  <2>2. CASE i \notin completed
    <3>1. /\ Settle(Entries(i), "value") /\ "value" \in Settlements
          /\ Entries(i) \in SUBSET Waiters
      BY <1>6, <2>2 DEF Complete, Deliver, Settlements, Entries, ClientTypeOK
    <3>2. /\ callPc' \in [Waiters -> {"idle", "waiting", "settled", "done"}]
          /\ settlement' \in [Waiters -> Settlements]
      BY <3>1, SettleFacts
    <3>3. completedOrder' \in Seq(Ids) /\ completed' \subseteq completed \cup {i}
      BY <1>6, <2>2, CacheShift DEF Complete
    <3> QED BY <1>6, <2>2, <3>2, <3>3 DEF Complete, Deliver, ClientTypeOK
  <2> QED BY <2>1, <2>2
<1>7. ASSUME NEW i \in Ids, ServerFinishes(i) PROVE Goal
  BY <1>7 DEF ServerFinishes, ClientTypeOK, cacheVars, callVars
<1>8. ASSUME StreamFails PROVE Goal
  <2>1. /\ Settle(UNION {Entries(i) : i \in Ids}, "error") /\ "error" \in Settlements
        /\ UNION {Entries(i) : i \in Ids} \in SUBSET Waiters
    BY <1>8 DEF StreamFails, Settlements, Entries, ClientTypeOK
  <2>2. /\ callPc' \in [Waiters -> {"idle", "waiting", "settled", "done"}]
        /\ settlement' \in [Waiters -> Settlements]
    BY <2>1, SettleFacts
  <2> QED BY <1>8, <2>2 DEF StreamFails, ClientTypeOK, cacheVars, serverVars
<1>9. ASSUME CloseResolver PROVE Goal
  BY <1>9 DEF CloseResolver, ClientTypeOK, cacheVars, callVars, serverVars
<1>10. ASSUME StreamOpens \/ StreamFinally PROVE Goal
  BY <1>10 DEF StreamOpens, StreamFinally, ClientTypeOK, cacheVars, callVars, serverVars
<1> HIDE DEF Goal
<1>11. Goal
  BY <1>1, <1>2, <1>3, <1>4, <1>5, <1>6, <1>7, <1>8, <1>9, <1>10 DEF ClientNext
<1> QED BY <1>11 DEF Goal

\* The names of Sets stay attached to the ids they were made for.
LEMMA SetsStep ==
    ASSUME ClientTypeOK, SetsAreNamed, CacheWindow, ClientNext
    PROVE  SetsAreNamed'
<1> DEFINE Goal == SetsAreNamed'
<1>1. ASSUME NEW w \in Waiters, Resolve(w) PROVE Goal
  <2> DEFINE i == wid[w]
             set == IF pending[i] = NoSet THEN w ELSE pending[i]
  <2>1. i \in Ids /\ set \in Waiters /\ set # NoSet /\ wid[set] = i
    BY TsFutureResolverAssumption DEF ClientTypeOK, SetsAreNamed
  <2>2. /\ wid' = wid /\ members' = members \cup {w}
        /\ callPc'[w] = "waiting" /\ setOf'[w] = set /\ pending'[i] = set
        /\ \A v \in Waiters : v # w => callPc'[v] = callPc[v] /\ setOf'[v] = setOf[v]
        /\ \A j \in Ids : j # i => pending'[j] = pending[j]
    BY <1>1, <2>1 DEF Resolve, ClientTypeOK
  <2>3. callPc'[set] # "idle"
    BY <2>1, <2>2 DEF SetsAreNamed
  <2>4. \A v \in Waiters : callPc'[v] = "idle" => callPc[v] = "idle" /\ v # w
    BY <2>2
  <2>5. \A v \in Waiters : setOf[v] # NoSet => setOf[v] \in Waiters
    BY DEF ClientTypeOK
  <2>6. \A j \in Ids : pending[j] # NoSet => pending[j] \in Waiters
    BY DEF ClientTypeOK
  <2> HIDE DEF set, i
  <2>7. ASSUME NEW v \in Waiters
        PROVE  /\ callPc'[v] = "idle" => v \notin members' /\ setOf'[v] = NoSet
               /\ v \in members' => setOf'[v] # NoSet
               /\ setOf'[v] # NoSet =>
                     callPc'[setOf'[v]] # "idle" /\ wid'[v] = wid'[setOf'[v]]
    <3>1. CASE v = w
      BY <2>1, <2>2, <2>3, <3>1 DEF i
    <3>2. CASE v # w
      BY <2>2, <2>4, <2>5, <3>2 DEF SetsAreNamed
    <3> QED BY <3>1, <3>2
  <2>8. ASSUME NEW j \in Ids, pending'[j] # NoSet
        PROVE  callPc'[pending'[j]] # "idle" /\ wid'[pending'[j]] = j
    <3>1. CASE j = i
      BY <2>1, <2>2, <2>3, <3>1
    <3>2. CASE j # i
      BY <2>2, <2>4, <2>6, <2>8, <3>2 DEF SetsAreNamed
    <3> QED BY <3>1, <3>2
  <2> QED BY <2>7, <2>8 DEF SetsAreNamed
<1>2. ASSUME /\ wid' = wid /\ setOf' = setOf /\ members' \subseteq members
             /\ \A v \in Waiters : callPc'[v] = "idle" => callPc[v] = "idle"
             /\ \A j \in Ids : pending'[j] \in {pending[j], NoSet}
      PROVE  Goal
  <2>1. \A v \in Waiters : setOf[v] # NoSet => setOf[v] \in Waiters
    BY DEF ClientTypeOK
  <2>2. \A j \in Ids : pending[j] # NoSet => pending[j] \in Waiters
    BY DEF ClientTypeOK
  <2>3. ASSUME NEW v \in Waiters
        PROVE  /\ callPc'[v] = "idle" => v \notin members' /\ setOf'[v] = NoSet
               /\ v \in members' => setOf'[v] # NoSet
               /\ setOf'[v] # NoSet =>
                     callPc'[setOf'[v]] # "idle" /\ wid'[v] = wid'[setOf'[v]]
    BY <1>2, <2>1 DEF SetsAreNamed
  <2>4. ASSUME NEW j \in Ids, pending'[j] # NoSet
        PROVE  callPc'[pending'[j]] # "idle" /\ wid'[pending'[j]] = j
    BY <1>2, <2>2, <2>4 DEF SetsAreNamed
  <2> QED BY <2>3, <2>4 DEF SetsAreNamed
<1>3. ASSUME NEW W \in SUBSET Waiters, NEW o \in Settlements, Settle(W, o)
      PROVE  \A v \in Waiters : callPc'[v] = "idle" => callPc[v] = "idle"
  BY <1>3, SettleFacts
<1> DEFINE Kept == /\ wid' = wid /\ setOf' = setOf /\ members' \subseteq members
                   /\ \A v \in Waiters : callPc'[v] = "idle" => callPc[v] = "idle"
                   /\ \A j \in Ids : pending'[j] \in {pending[j], NoSet}
<1>4. ASSUME NEW w \in Waiters, ResolveNow(w) \/ Return(w) PROVE Kept
  BY <1>4 DEF ResolveNow, Return, ClientTypeOK
<1>5. ASSUME NEW w \in Waiters, Abort(w) PROVE Kept
  <2>1. CASE callPc[w] \in {"waiting", "settled"}
    <3>1. Settle({w}, "aborted") /\ "aborted" \in Settlements /\ {w} \in SUBSET Waiters
      BY <1>5, <2>1 DEF Abort, AbortHandler, Settlements
    <3>2. \A v \in Waiters : callPc'[v] = "idle" => callPc[v] = "idle"
      BY <1>3, <3>1
    <3> QED BY <1>5, <2>1, <3>2 DEF Abort, AbortHandler, ClientTypeOK
  <2>2. CASE callPc[w] \notin {"waiting", "settled"}
    BY <1>5, <2>2 DEF Abort
  <2> QED BY <2>1, <2>2
<1>6. ASSUME NEW i \in Ids, Cancel(i) PROVE Kept
  <2>1. /\ Settle(Entries(i), "cancelled") /\ "cancelled" \in Settlements
        /\ Entries(i) \in SUBSET Waiters
    BY <1>6 DEF Cancel, Settlements, Entries, ClientTypeOK
  <2>2. \A v \in Waiters : callPc'[v] = "idle" => callPc[v] = "idle"
    BY <1>3, <2>1
  <2> QED BY <1>6, <2>2 DEF Cancel, ClientTypeOK
<1>7. ASSUME NEW i \in Ids, Complete(i) PROVE Kept
  <2>1. CASE i \in completed
    BY <1>7, <2>1 DEF Complete
  <2>2. CASE i \notin completed
    <3>1. /\ Settle(Entries(i), "value") /\ "value" \in Settlements
          /\ Entries(i) \in SUBSET Waiters
      BY <1>7, <2>2 DEF Complete, Deliver, Settlements, Entries, ClientTypeOK
    <3>2. \A v \in Waiters : callPc'[v] = "idle" => callPc[v] = "idle"
      BY <1>3, <3>1
    <3>3. pending' = [pending EXCEPT ![i] = NoSet]
      BY <1>7, <2>2 DEF Complete, Deliver
    <3> QED BY <1>7, <3>2, <3>3 DEF Complete, ClientTypeOK
  <2> QED BY <2>1, <2>2
<1>8. ASSUME StreamFails PROVE Kept
  <2>1. /\ Settle(UNION {Entries(i) : i \in Ids}, "error") /\ "error" \in Settlements
        /\ UNION {Entries(i) : i \in Ids} \in SUBSET Waiters
    BY <1>8 DEF StreamFails, Settlements, Entries, ClientTypeOK
  <2>2. \A v \in Waiters : callPc'[v] = "idle" => callPc[v] = "idle"
    BY <1>3, <2>1
  <2> QED BY <1>8, <2>2 DEF StreamFails
<1>9. ASSUME \/ \E i \in Ids : ServerFinishes(i)
             \/ CloseResolver \/ StreamOpens \/ StreamFinally
      PROVE  Kept
  BY <1>9 DEF ServerFinishes, CloseResolver, StreamOpens, StreamFinally, callVars
<1>10. Kept => Goal
  BY <1>2
<1> HIDE DEF Kept, Goal
<1>11. Goal
  BY <1>1, <1>4, <1>5, <1>6, <1>7, <1>8, <1>9, <1>10 DEF ClientNext
<1> QED BY <1>11 DEF Goal

\* What is in the Map waits.
LEMMA EntriesStep ==
    ASSUME ClientTypeOK, SetsAreNamed, EntriesWait, CacheWindow, ClientNext
    PROVE  EntriesWait'
<1> DEFINE Goal == EntriesWait'
<1>1. ASSUME NEW j \in Ids, NEW v \in Waiters, v \in Entries(j)
      PROVE  /\ callPc[v] = "waiting" /\ wid[v] = j /\ j \notin completed
             /\ v \in members /\ setOf[v] = pending[j] /\ pending[j] # NoSet
  BY <1>1 DEF EntriesWait, Entries, SetsAreNamed
<1>2. ASSUME NEW j \in Ids, NEW v \in Waiters, v \in Entries(j)'
      PROVE  v \in members' /\ setOf'[v] = pending'[j]
  BY <1>2 DEF Entries
<1>3. ASSUME \A j \in Ids : \A v \in Waiters : v \in Entries(j)' =>
                callPc'[v] = "waiting" /\ wid'[v] = j /\ j \notin completed'
      PROVE  Goal
  BY <1>3, ClientTypeStep DEF EntriesWait, Entries, ClientTypeOK
\* Entries only leave the Map, and a call that changes is not in it any more.
<1> DEFINE Kept ==
        /\ wid' = wid /\ setOf' = setOf /\ members' \subseteq members
        /\ \A j \in Ids : pending'[j] \in {pending[j], NoSet}
        /\ \A j \in Ids : \A v \in Waiters :
              \/ callPc'[v] = callPc[v] \/ v \notin Entries(j)
              \/ v \notin members' \/ pending'[j] = NoSet
        /\ \A j \in Ids : j \in completed' => j \in completed \/ pending'[j] = NoSet
<1>4. ASSUME Kept PROVE Goal
  <2> SUFFICES ASSUME NEW j \in Ids, NEW v \in Waiters, v \in Entries(j)'
               PROVE  callPc'[v] = "waiting" /\ wid'[v] = j /\ j \notin completed'
    BY <1>3
  <2>1. v \in members' /\ setOf[v] = pending'[j] /\ v \in members
    BY <1>2, <1>4
  <2>2. setOf[v] # NoSet
    BY <2>1 DEF SetsAreNamed
  <2>3. pending'[j] = pending[j] /\ v \in Entries(j) /\ pending'[j] # NoSet
    BY <1>4, <2>1, <2>2 DEF Entries
  <2>4. callPc'[v] = callPc[v]
    BY <1>4, <2>1, <2>3
  <2>5. callPc[v] = "waiting" /\ wid[v] = j /\ j \notin completed
    BY <1>1, <2>3
  <2> QED BY <1>4, <2>3, <2>4, <2>5
<1>5. ASSUME NEW w \in Waiters, ResolveNow(w) \/ Return(w) PROVE Kept
  <2>1. callPc[w] # "waiting" /\ \A v \in Waiters : v # w => callPc'[v] = callPc[v]
    BY <1>5 DEF ResolveNow, Return, ClientTypeOK
  <2>2. UNCHANGED <<wid, setOf, members, pending, completed>>
    BY <1>5 DEF ResolveNow, Return, cacheVars
  <2> QED BY <1>1, <2>1, <2>2
<1>6. ASSUME NEW w \in Waiters, Resolve(w) PROVE Goal
  <2> DEFINE i == wid[w]
             set == IF pending[i] = NoSet THEN w ELSE pending[i]
  <2>1. i \in Ids /\ set \in Waiters /\ set # NoSet /\ wid[set] = i /\ i \notin completed
    BY <1>6, TsFutureResolverAssumption DEF Resolve, ClientTypeOK, SetsAreNamed
  <2>2. /\ UNCHANGED <<wid, completed>> /\ members' = members \cup {w}
        /\ callPc'[w] = "waiting" /\ setOf'[w] = set /\ pending'[i] = set
        /\ \A v \in Waiters : v # w => callPc'[v] = callPc[v] /\ setOf'[v] = setOf[v]
        /\ \A j \in Ids : j # i => pending'[j] = pending[j]
        /\ callPc[w] = "idle"
        /\ pending[i] # NoSet => pending[i] = set
        /\ pending[i] = NoSet => set = w
    BY <1>6, <2>1 DEF Resolve, ClientTypeOK, cacheVars
  <2> HIDE DEF set, i
  <2> SUFFICES ASSUME NEW j \in Ids, NEW v \in Waiters, v \in Entries(j)'
               PROVE  callPc'[v] = "waiting" /\ wid'[v] = j /\ j \notin completed'
    BY <1>3
  <2>3. v \in members' /\ setOf'[v] = pending'[j]
    BY <1>2
  <2>4. CASE v = w
    <3>1. j = i
      BY <2>1, <2>2, <2>3, <2>4 DEF SetsAreNamed
    <3> QED BY <2>1, <2>2, <2>4, <3>1 DEF i
  <2>5. CASE v # w
    <3>1. v \in members /\ setOf[v] = pending'[j] /\ setOf[v] # NoSet
      BY <2>2, <2>3, <2>5 DEF SetsAreNamed
    <3>2. setOf[v] # w
      BY <2>2, <3>1 DEF SetsAreNamed
    <3>3. pending'[j] = pending[j]
      BY <2>2, <3>1, <3>2
    <3>4. v \in Entries(j)
      BY <3>1, <3>3 DEF Entries
    <3> QED BY <1>1, <2>2, <2>5, <3>4
  <2> QED BY <2>4, <2>5
<1>7. ASSUME NEW w \in Waiters, Abort(w) PROVE Kept
  <2>1. CASE callPc[w] \in {"waiting", "settled"}
    <3>1. Settle({w}, "aborted") /\ "aborted" \in Settlements /\ {w} \in SUBSET Waiters
      BY <1>7, <2>1 DEF Abort, AbortHandler, Settlements
    <3>2. \A v \in Waiters : v # w => callPc'[v] = callPc[v]
      BY <3>1, SettleFacts
    <3>3. /\ UNCHANGED <<wid, setOf, completed>> /\ members' = members \ {w}
          /\ \A j \in Ids : pending'[j] \in {pending[j], NoSet}
      BY <1>7, <2>1 DEF Abort, AbortHandler, ClientTypeOK, cacheVars
    <3> QED BY <3>2, <3>3
  <2>2. CASE callPc[w] \notin {"waiting", "settled"}
    BY <1>7, <2>2 DEF Abort, cacheVars
  <2> QED BY <2>1, <2>2
<1>8. ASSUME NEW i \in Ids, NEW o \in Settlements, Settle(Entries(i), o),
             pending' = [pending EXCEPT ![i] = NoSet],
             UNCHANGED <<wid, setOf, members>>, completed' \subseteq completed \cup {i}
      PROVE  Kept
  <2>1. Entries(i) \in SUBSET Waiters
    BY DEF Entries, ClientTypeOK
  <2>2. \A v \in Waiters : v \notin Entries(i) => callPc'[v] = callPc[v]
    BY <1>8, <2>1, SettleFacts
  <2>3. pending'[i] = NoSet /\ \A j \in Ids : j # i => pending'[j] = pending[j]
    BY <1>8 DEF ClientTypeOK
  <2>4. \A j \in Ids : \A v \in Waiters : v \in Entries(i) /\ v \in Entries(j) => i = j
    BY <1>1
  <2> QED BY <1>8, <2>2, <2>3, <2>4
<1>9. ASSUME NEW i \in Ids, Cancel(i) PROVE Kept
  <2>1. /\ Settle(Entries(i), "cancelled") /\ "cancelled" \in Settlements
        /\ pending' = [pending EXCEPT ![i] = NoSet]
        /\ UNCHANGED <<wid, setOf, members>> /\ completed' \subseteq completed \cup {i}
    BY <1>9 DEF Cancel, Settlements, cacheVars
  <2> QED BY <1>8, <2>1
<1>10. ASSUME NEW i \in Ids, Complete(i) PROVE Kept
  <2>1. CASE i \in completed
    BY <1>10, <2>1 DEF Complete, cacheVars
  <2>2. CASE i \notin completed
    <3>1. /\ Settle(Entries(i), "value") /\ "value" \in Settlements
          /\ pending' = [pending EXCEPT ![i] = NoSet]
          /\ UNCHANGED <<wid, setOf, members>>
      BY <1>10, <2>2 DEF Complete, Deliver, Settlements
    <3>2. completed' \subseteq completed \cup {i}
      BY <1>10, <2>2 DEF Complete
    <3> QED BY <1>8, <3>1, <3>2
  <2> QED BY <2>1, <2>2
<1>11. ASSUME StreamFails PROVE Kept
  BY <1>11 DEF StreamFails, cacheVars
<1>12. ASSUME \/ \E i \in Ids : ServerFinishes(i)
              \/ CloseResolver \/ StreamOpens \/ StreamFinally
       PROVE  Kept
  BY <1>12 DEF ServerFinishes, CloseResolver, StreamOpens, StreamFinally, callVars, cacheVars
<1> HIDE DEF Kept, Goal
<1>13. Goal
  BY <1>4, <1>5, <1>6, <1>7, <1>9, <1>10, <1>11, <1>12 DEF ClientNext
<1> QED BY <1>13 DEF Goal

LEMMA CacheStep ==
    ASSUME ClientTypeOK, CacheWindow, ClientNext
    PROVE  CacheWindow'
<1>1. CASE UNCHANGED cacheVars
  BY <1>1 DEF CacheWindow, cacheVars, Elems, Distinct
<1>2. CASE \E i \in Ids : Complete(i) /\ i \notin completed
  <2>1. PICK i \in Ids : Complete(i) /\ i \notin completed
    BY <1>2
  <2>2. /\ Elems(completedOrder') = completed'
        /\ Distinct(completedOrder') /\ Len(completedOrder') <= MaxCompletedResults
    BY <2>1, CacheShift DEF Complete
  <2> QED BY <2>2 DEF CacheWindow, Distinct, Elems
<1> QED BY <1>1, <1>2 DEF ClientNext, ResolveNow, Resolve, Return, Abort, Cancel, Complete,
           ServerFinishes, CloseResolver, StreamOpens, StreamFails, StreamFinally

LEMMA ClientStepKeeps ==
    ASSUME ClientInv, ClientStep
    PROVE  ClientInv'
  BY ClientTypeStep, SetsStep, EntriesStep, CacheStep DEF ClientInv, ClientStep
-----------------------------------------------------------------------------
(***************************************************************************)
(* The server: entries, keys and the completion queue.                     *)
(***************************************************************************)
LEMMA SameElems == \A q : Storage!Elems(q) = Elems(q)
  BY DEF Storage!Elems, Elems

\* FiniteSets, which the storage's module extends, means the same there.
LEMMA SameFinite == \A S : Storage!IsFiniteSet(S) <=> IsFiniteSet(S)
  BY DEF Storage!IsFiniteSet, IsFiniteSet

LEMMA SameCardinality == \A S : Storage!Cardinality(S) = Cardinality(S)
  BY DEF Storage!Cardinality, Cardinality

LEMMA FiniteIds == IsFiniteSet(Ids)
  BY SameFinite, TsFuturesAssumption DEF Storage!ConstantsOK

\* The loop at the end of complete keeps the completion queue within its limit.
LEMMA StorageShift ==
    ASSUME Storage!TypeOK, StorageWindow, NEW i \in Ids, state[i] = "pending"
    PROVE  LET order == Append(retainedOrder, i)
               x     == Storage!Excess(order)
               rest  == SubSeq(order, x + 1, Len(order))
               E     == Storage!Elems(SubSeq(order, 1, x))
           IN  /\ rest \in Seq(Ids) /\ Distinct(rest) /\ Len(rest) <= MaxCompleted
               /\ Storage!Elems(rest) = (Completed \cup {i}) \ E
               /\ E \subseteq Completed \cup {i}
<1> DEFINE order == Append(retainedOrder, i)
           x == Storage!Excess(order)
           rest == SubSeq(order, x + 1, Len(order))
           front == SubSeq(order, 1, x)
<1>1. /\ retainedOrder \in Seq(Ids) /\ Distinct(retainedOrder)
      /\ Elems(retainedOrder) = Completed /\ i \notin Completed
  BY SameElems DEF Storage!TypeOK, StorageWindow, Completed
<1>2. Len(retainedOrder) \in Nat /\ Len(order) = Len(retainedOrder) + 1
  BY <1>1
<1>3. x \in 0 .. Len(retainedOrder) + 1 /\ Len(retainedOrder) + 1 - x <= MaxCompleted
  BY <1>2, TsFuturesAssumption DEF Storage!Excess, Storage!ConstantsOK
<1> HIDE DEF x
<1>4. /\ rest \in Seq(Ids) /\ Distinct(rest)
      /\ Len(rest) = Len(retainedOrder) + 1 - x
      /\ Elems(rest) = (Elems(retainedOrder) \cup {i}) \ Elems(front)
      /\ Elems(front) \subseteq Elems(retainedOrder) \cup {i}
  BY <1>1, <1>3, QueueShift
<1> HIDE DEF rest, front, order
<1>5. /\ rest \in Seq(Ids) /\ Distinct(rest) /\ Len(rest) <= MaxCompleted
      /\ Storage!Elems(rest) = (Completed \cup {i}) \ Storage!Elems(front)
      /\ Storage!Elems(front) \subseteq Completed \cup {i}
  BY <1>1, <1>3, <1>4, SameElems
<1> QED BY <1>5 DEF rest, front, order, x

\* The completion of i, with the entries E that are deleted in it: i itself
\* when its result is discarded, otherwise what the queue has too many.
Completion(i, E) ==
    /\ E \subseteq Completed \cup {i}
    /\ state' = [j \in Ids |-> IF j \in E THEN "absent"
                               ELSE IF j = i THEN "completed" ELSE state[j]]
    /\ Storage!Drop(E)
    /\ pendingCount' = pendingCount - 1
    /\ retainedOrder' \in Seq(Ids) /\ Distinct(retainedOrder')
    /\ Storage!Elems(retainedOrder') = (Completed \cup {i}) \ E
    /\ Len(retainedOrder') <= MaxCompleted

LEMMA CompletionFacts ==
    ASSUME Storage!TypeOK, StorageWindow,
           NEW i \in Ids, state[i] = "pending", Storage!Complete(i)
    PROVE  \E E \in SUBSET Ids : Completion(i, E)
<1>1. CASE discardResult[i]
  <2>1. /\ state' = [state EXCEPT ![i] = "absent"] /\ Storage!Drop({i})
        /\ retainedOrder' = retainedOrder /\ pendingCount' = pendingCount - 1
    BY <1>1 DEF Storage!Complete, Storage!CompleteDiscard
  <2>2. state' = [j \in Ids |-> IF j \in {i} THEN "absent"
                                ELSE IF j = i THEN "completed" ELSE state[j]]
    BY <2>1 DEF Storage!TypeOK
  <2>3. Completed = (Completed \cup {i}) \ {i}
    BY DEF Completed
  <2>4. Completion(i, {i})
    BY <2>1, <2>2, <2>3 DEF Completion, StorageWindow, Storage!TypeOK
  <2> QED BY <2>4
<1>2. CASE ~ discardResult[i]
  <2> DEFINE order == Append(retainedOrder, i)
             x == Storage!Excess(order)
             E == Storage!Elems(SubSeq(order, 1, x))
  <2>1. /\ retainedOrder' = SubSeq(order, x + 1, Len(order))
        /\ state' = [j \in Ids |-> IF j \in E THEN "absent"
                                   ELSE IF j = i THEN "completed" ELSE state[j]]
        /\ Storage!Drop(E) /\ pendingCount' = pendingCount - 1
    BY <1>2 DEF Storage!Complete, Storage!CompleteKeep
  <2>2. /\ retainedOrder' \in Seq(Ids) /\ Distinct(retainedOrder')
        /\ Len(retainedOrder') <= MaxCompleted
        /\ Storage!Elems(retainedOrder') = (Completed \cup {i}) \ E
        /\ E \subseteq Completed \cup {i}
    BY <2>1, StorageShift
  <2>3. E \in SUBSET Ids
    BY <2>2 DEF Completed
  <2> HIDE DEF E
  <2>4. Completion(i, E)
    BY <2>1, <2>2 DEF Completion
  <2> QED BY <2>3, <2>4
<1> QED BY <1>1, <1>2

\* What the entries of the storage are made of.
StoreVars == <<state, owner, keyOf, idempotency, retainedOrder, pendingCount, issued>>

\* A step registers, cancels or completes a future, or leaves the entries alone.
LEMMA EntryCases ==
    ASSUME Storage!TypeOK, StorageWindow, Storage!Next
    PROVE  \/ UNCHANGED StoreVars
           \/ \E i \in Ids, o \in Owners, k \in Keys \cup {NoKey}, d \in BOOLEAN :
                 Storage!Register(i, o, k, d)
           \/ \E i \in Ids : Storage!Cancel(i)
           \/ \E i \in Ids, E \in SUBSET Ids :
                 /\ state[i] = "pending" /\ Storage!Complete(i)
                 /\ Completion(i, E) /\ UNCHANGED <<owner, issued>>
<1> DEFINE Goal ==
           \/ UNCHANGED StoreVars
           \/ \E i \in Ids, o \in Owners, k \in Keys \cup {NoKey}, d \in BOOLEAN :
                 Storage!Register(i, o, k, d)
           \/ \E i \in Ids : Storage!Cancel(i)
           \/ \E i \in Ids, E \in SUBSET Ids :
                 /\ state[i] = "pending" /\ Storage!Complete(i)
                 /\ Completion(i, E) /\ UNCHANGED <<owner, issued>>
<1>1. ASSUME NEW i \in Ids, Storage!Complete(i), state[i] = "pending" PROVE Goal
  <2>1. UNCHANGED <<owner, issued>>
    BY <1>1 DEF Storage!Complete
  <2> QED BY <1>1, <2>1, CompletionFacts
<1>2. ASSUME NEW i \in Ids, Storage!Complete(i), state[i] # "pending"
      PROVE  UNCHANGED StoreVars
  BY <1>2 DEF Storage!Complete, StoreVars
<1>3. ASSUME NEW s \in Subs, NEW w \in BOOLEAN, NEW T \in SUBSET Ids,
             Storage!Subscribe(s, w, T)
      PROVE  UNCHANGED StoreVars
  BY <1>3 DEF Storage!Subscribe, Storage!entryVars, StoreVars
<1>4. ASSUME NEW s \in Subs, Storage!GeneratorStep(s) PROVE UNCHANGED StoreVars
  BY <1>4 DEF Storage!GeneratorStep, Storage!YieldImmediate, Storage!BeginReading,
              Storage!Read, Storage!entryVars, StoreVars
<1>5. ASSUME NEW s \in Subs, Storage!Abort(s) \/ Storage!ReturnGenerator(s)
      PROVE  UNCHANGED StoreVars
  BY <1>5 DEF Storage!Abort, Storage!ReturnGenerator, Storage!entryVars, StoreVars
<1>6. Goal
  BY <1>1, <1>2, <1>3, <1>4, <1>5 DEF Storage!Next
<1> QED BY <1>6

PendingIds == {i \in Ids : state[i] = "pending"}

LEMMA PendingIsCounted ==
    ASSUME Storage!TypeOK, Storage!PendingCountExact,
           NEW i \in Ids, state[i] = "pending"
    PROVE  pendingCount >= 1
<1>1. IsFiniteSet(PendingIds) /\ i \in PendingIds
  BY FS_Subset, FiniteIds DEF PendingIds
<1>2. Cardinality(PendingIds) \in Nat /\ Cardinality(PendingIds) # 0
  BY <1>1, FS_CardinalityType, FS_EmptySet
<1> QED BY <1>2, SameCardinality DEF Storage!PendingCountExact, PendingIds

\* pendingCount follows the pending entries: complete and cancel count one
\* down, whatever complete evicts.
LEMMA StorageCountStep ==
    ASSUME Storage!TypeOK, StorageWindow, UnissuedAbsent,
           Storage!PendingCountExact, Storage!Next
    PROVE  Storage!PendingCountExact'
<1>0. IsFiniteSet(PendingIds) /\ Cardinality(PendingIds) \in Nat
  BY FS_Subset, FS_CardinalityType, FiniteIds DEF PendingIds
<1>a. ASSUME pendingCount' = Cardinality(PendingIds') PROVE Storage!PendingCountExact'
  BY <1>a, SameCardinality DEF Storage!PendingCountExact, PendingIds
<1>b. pendingCount = Cardinality(PendingIds)
  BY SameCardinality DEF Storage!PendingCountExact, PendingIds
<1>1. CASE UNCHANGED StoreVars
  BY <1>1 DEF StoreVars, Storage!PendingCountExact
<1>2. ASSUME NEW i \in Ids, NEW o \in Owners, NEW k \in Keys \cup {NoKey},
             NEW d \in BOOLEAN, Storage!Register(i, o, k, d)
      PROVE  Storage!PendingCountExact'
  <2>1. PendingIds' = PendingIds \cup {i} /\ i \notin PendingIds
    BY <1>2 DEF Storage!Register, PendingIds, UnissuedAbsent, Storage!TypeOK
  <2>2. pendingCount' = pendingCount + 1
    BY <1>2 DEF Storage!Register
  <2> QED BY <1>0, <1>a, <1>b, <2>1, <2>2, FS_AddElement
<1>3. ASSUME NEW i \in Ids, state[i] = "pending", PendingIds' = PendingIds \ {i},
             pendingCount' = pendingCount - 1
      PROVE  Storage!PendingCountExact'
  <2>1. i \in PendingIds
    BY <1>3 DEF PendingIds
  <2>2. Cardinality(PendingIds \ {i}) = Cardinality(PendingIds) - 1
    BY <1>0, <2>1, FS_RemoveElement
  <2> QED BY <1>a, <1>b, <1>3, <2>2
<1>4. ASSUME NEW i \in Ids, Storage!Cancel(i) PROVE Storage!PendingCountExact'
  <2>1. PendingIds' = PendingIds \ {i}
    BY <1>4 DEF Storage!Cancel, PendingIds, Storage!TypeOK
  <2>2. state[i] = "pending" /\ pendingCount' = pendingCount - 1
    BY <1>4 DEF Storage!Cancel
  <2> QED BY <1>3, <2>1, <2>2
<1>5. ASSUME NEW i \in Ids, NEW E \in SUBSET Ids, state[i] = "pending", Completion(i, E)
      PROVE  Storage!PendingCountExact'
  <2>1. PendingIds' = PendingIds \ {i}
    BY <1>5 DEF Completion, PendingIds, Completed
  <2>2. pendingCount' = pendingCount - 1
    BY <1>5 DEF Completion
  <2> QED BY <1>3, <1>5, <2>1, <2>2
<1> QED BY <1>1, <1>2, <1>4, <1>5, EntryCases

\* Keys are taken with an entry and released with it.
LEMMA StorageKeyStep ==
    ASSUME Storage!TypeOK, StorageWindow, UnissuedAbsent,
           Storage!KeysFollowEntries, Storage!Next
    PROVE  Storage!KeysFollowEntries'
<1>0. NoId \notin Ids /\ NoKey \notin Keys
  BY TsFuturesAssumption DEF Storage!ConstantsOK
<1>1. CASE UNCHANGED StoreVars
  BY <1>1 DEF StoreVars, Storage!KeysFollowEntries
<1>2. ASSUME NEW i \in Ids, NEW o \in Owners, NEW k \in Keys \cup {NoKey},
             NEW d \in BOOLEAN, Storage!Register(i, o, k, d)
      PROVE  Storage!KeysFollowEntries'
  <2>1. /\ state'[i] = "pending" /\ keyOf'[i] = k /\ state[i] = "absent"
        /\ \A j \in Ids : j # i => state'[j] = state[j] /\ keyOf'[j] = keyOf[j]
        /\ \A x \in Keys : idempotency'[x] = IF x = k THEN i ELSE idempotency[x]
        /\ k \in Keys => idempotency[k] = NoId
    BY <1>0, <1>2 DEF Storage!Register, Storage!TypeOK, UnissuedAbsent
  <2>2. ASSUME NEW x \in Keys, NEW j \in Ids
        PROVE  idempotency'[x] = j <=> keyOf'[j] = x /\ state'[j] # "absent"
    BY <1>0, <2>1 DEF Storage!KeysFollowEntries
  <2> QED BY <2>2 DEF Storage!KeysFollowEntries
<1>3. ASSUME NEW E \in SUBSET Ids, Storage!Drop(E), \A j \in E : state[j] # "absent",
             \A j \in Ids : state'[j] = "absent" <=> state[j] = "absent" \/ j \in E
      PROVE  Storage!KeysFollowEntries'
  <2>1. /\ \A j \in Ids : keyOf'[j] = IF j \in E THEN NoKey ELSE keyOf[j]
        /\ \A x \in Keys : idempotency'[x] = IF \E j \in E : keyOf[j] = x THEN NoId
                                             ELSE idempotency[x]
    BY <1>3 DEF Storage!Drop
  <2>2. ASSUME NEW x \in Keys, NEW j \in Ids
        PROVE  idempotency'[x] = j <=> keyOf'[j] = x /\ state'[j] # "absent"
    <3>1. CASE j \in E
      <4>1. keyOf'[j] # x
        BY <1>0, <2>1, <3>1
      <4>2. idempotency'[x] # j
        BY <1>0, <1>3, <2>1, <3>1 DEF Storage!KeysFollowEntries
      <4> QED BY <4>1, <4>2
    <3>2. CASE j \notin E
      <4>1. keyOf'[j] = keyOf[j] /\ (state'[j] = "absent" <=> state[j] = "absent")
        BY <1>3, <2>1, <3>2
      <4>2. CASE \E m \in E : keyOf[m] = x
        <5>1. PICK m \in E : keyOf[m] = x
          BY <4>2
        <5>2. idempotency[x] = m /\ m # j /\ idempotency'[x] = NoId
          BY <1>3, <2>1, <3>2, <5>1 DEF Storage!KeysFollowEntries
        <5> QED BY <1>0, <4>1, <5>2 DEF Storage!KeysFollowEntries
      <4>3. CASE ~ \E m \in E : keyOf[m] = x
        BY <2>1, <4>1, <4>3 DEF Storage!KeysFollowEntries
      <4> QED BY <4>2, <4>3
    <3> QED BY <3>1, <3>2
  <2> QED BY <2>2 DEF Storage!KeysFollowEntries
<1>4. ASSUME NEW i \in Ids, Storage!Cancel(i) PROVE Storage!KeysFollowEntries'
  <2>1. /\ Storage!Drop({i}) /\ \A j \in {i} : state[j] # "absent"
        /\ \A j \in Ids : state'[j] = "absent" <=> state[j] = "absent" \/ j \in {i}
    BY <1>4 DEF Storage!Cancel, Storage!TypeOK
  <2>2. {i} \in SUBSET Ids
    OBVIOUS
  <2> QED BY <1>3, <2>1, <2>2
<1>5. ASSUME NEW i \in Ids, NEW E \in SUBSET Ids, state[i] = "pending", Completion(i, E)
      PROVE  Storage!KeysFollowEntries'
  <2>1. /\ Storage!Drop(E) /\ \A j \in E : state[j] # "absent"
        /\ \A j \in Ids : state'[j] = "absent" <=> state[j] = "absent" \/ j \in E
    BY <1>5 DEF Completion, Completed
  <2> QED BY <1>3, <2>1
<1> QED BY <1>1, <1>2, <1>4, <1>5, EntryCases

LEMMA StorageWindowStep ==
    ASSUME Storage!TypeOK, StorageWindow, UnissuedAbsent, Storage!Next
    PROVE  StorageWindow'
<1>1. CASE UNCHANGED StoreVars
  BY <1>1 DEF StoreVars, StorageWindow, Completed, Distinct, Storage!Elems
<1>2. ASSUME UNCHANGED retainedOrder, Completed' = Completed PROVE StorageWindow'
  BY <1>2 DEF StorageWindow, Distinct, Storage!Elems
<1>3. ASSUME NEW i \in Ids, NEW o \in Owners, NEW k \in Keys \cup {NoKey},
             NEW d \in BOOLEAN, Storage!Register(i, o, k, d)
      PROVE  StorageWindow'
  BY <1>2, <1>3 DEF Storage!Register, Completed, UnissuedAbsent, Storage!TypeOK
<1>4. ASSUME NEW i \in Ids, Storage!Cancel(i) PROVE StorageWindow'
  BY <1>2, <1>4 DEF Storage!Cancel, Completed, Storage!TypeOK
<1>5. ASSUME NEW i \in Ids, NEW E \in SUBSET Ids, state[i] = "pending", Completion(i, E)
      PROVE  StorageWindow'
  <2>1. Completed' = (Completed \cup {i}) \ E
    BY <1>5 DEF Completion, Completed
  <2> QED BY <1>5, <2>1 DEF Completion, StorageWindow, Distinct, Storage!Elems
<1> QED BY <1>1, <1>3, <1>4, <1>5, EntryCases
-----------------------------------------------------------------------------
(***************************************************************************)
(* The server: resolve calls.                                              *)
(***************************************************************************)
\* A step does not make a future early, and only register, of one that was not
\* issued, gives it an owner.
LEMMA EarlyStep ==
    ASSUME Storage!TypeOK, StorageWindow, UnissuedAbsent, Storage!Next
    PROVE  /\ UnissuedAbsent'
           /\ \A i \in Ids : Early(i)' => Early(i)
           /\ \A i \in Ids : owner'[i] = owner[i] \/ Early(i)
<1> DEFINE Goal == /\ UnissuedAbsent'
                   /\ \A i \in Ids : Early(i)' => Early(i)
                   /\ \A i \in Ids : owner'[i] = owner[i] \/ Early(i)
<1>1. CASE UNCHANGED StoreVars
  BY <1>1 DEF StoreVars, UnissuedAbsent, Early
<1>2. ASSUME NEW i \in Ids, NEW o \in Owners, NEW k \in Keys \cup {NoKey},
             NEW d \in BOOLEAN, Storage!Register(i, o, k, d)
      PROVE  Goal
  BY <1>2 DEF Storage!Register, UnissuedAbsent, Early, Storage!TypeOK
<1>3. ASSUME NEW i \in Ids, Storage!Cancel(i) PROVE Goal
  BY <1>3 DEF Storage!Cancel, UnissuedAbsent, Early, Storage!TypeOK
<1>4. ASSUME NEW i \in Ids, NEW E \in SUBSET Ids, state[i] = "pending", Completion(i, E),
             UNCHANGED <<owner, issued>>
      PROVE  Goal
  BY <1>4 DEF Completion, UnissuedAbsent, Early
<1> HIDE DEF Goal
<1>5. Goal
  BY <1>1, <1>2, <1>3, <1>4, EntryCases DEF Goal
<1> QED BY <1>5 DEF Goal

\* Nothing that belongs to call s has changed.
SameCall(s) ==
    /\ s \in subscribers' <=> s \in subscribers
    /\ s \in gone' <=> s \in gone
    /\ gen'[s] = gen[s] /\ reader'[s] = reader[s] /\ queue'[s] = queue[s]
    /\ subOwner'[s] = subOwner[s] /\ wild'[s] = wild[s] /\ target'[s] = target[s]
    /\ remaining'[s] = remaining[s] /\ immediate'[s] = immediate[s]
    /\ handed'[s] = handed[s] /\ owed'[s] = owed[s]

\* What other steps do to the futures does not concern a call.
EntriesMoveOn ==
    /\ \A i \in Ids : Early(i)' => Early(i)
    /\ \A i \in Ids : owner'[i] = owner[i] \/ Early(i)

LEMMA SameCallKeeps ==
    ASSUME Storage!TypeOK, EntriesMoveOn, NEW s \in Subs, CallOK(s), SameCall(s)
    PROVE  CallOK(s)'
<1>1. \A i \in Ids : InQueue(s, i)' <=> InQueue(s, i)
  BY DEF SameCall, InQueue, Storage!Elems
<1>2. \A i \in Ids : Reached(s, i)' <=> Reached(s, i)
  BY <1>1 DEF SameCall, Reached
<1>3. NothingEarly(s)'
  BY <1>2 DEF CallOK, NothingEarly, EntriesMoveOn, SameCall
<1>4. CallShape(s)'
  BY DEF CallOK, CallShape, SameCall
<1>5. OnePlace(s)'
  BY <1>1, <1>2 DEF CallOK, OnePlace, SameCall, Distinct
<1>6. OwnResults(s)'
  BY <1>2 DEF CallOK, OwnResults, NothingEarly, EntriesMoveOn, SameCall
<1>7. TargetsReached(s)'
  <2>1. target[s] \subseteq Ids
    BY DEF Storage!TypeOK
  <2> QED BY <1>2, <2>1 DEF CallOK, TargetsReached, SameCall
<1> QED BY <1>3, <1>4, <1>5, <1>6, <1>7 DEF CallOK

\* subscribe.
LEMMA SubscribeKeeps ==
    ASSUME Storage!TypeOK, UnissuedAbsent, EntriesMoveOn,
           NEW s \in Subs, CallOK(s), NEW w \in BOOLEAN, NEW T \in SUBSET Ids,
           Storage!Subscribe(s, w, T)
    PROVE  CallOK(s)'
<1> DEFINE snapshot == Storage!Snapshot(s, w, T)
<1>1. /\ \A i \in snapshot : i \in Ids /\ state[i] = "completed" /\ owner[i] = subOwner[s]
      /\ Storage!Rest(s, w, T) = T \ snapshot
  BY DEF Storage!Snapshot, Storage!Rest
<1>2. /\ gen[s] = "new" /\ gen'[s] = "immediate"
      /\ wild'[s] = w /\ target'[s] = T
      /\ immediate'[s] = snapshot /\ remaining'[s] = T \ snapshot
      /\ owed'[s] = snapshot /\ queue' = queue /\ handed' = handed
      /\ subOwner' = subOwner /\ owner' = owner /\ state' = state /\ issued' = issued
      /\ \/ /\ ~ w /\ T \ snapshot = {}
            /\ reader'[s] = "closing" /\ subscribers' = subscribers
         \/ reader' = reader
  BY <1>1 DEF Storage!Subscribe, Storage!TypeOK, Storage!entryVars
<1>3. /\ s \notin subscribers /\ queue[s] = <<>> /\ reader[s] = "readable"
      /\ \A i \in Ids : handed[s][i] = 0
  BY <1>2 DEF CallOK, CallShape
<1> HIDE DEF snapshot
<1>4. \A i \in Ids : ~ InQueue(s, i)'
  BY <1>2, <1>3 DEF InQueue, Storage!Elems
<1>5. \A i \in Ids : Reached(s, i)' <=> i \in snapshot
  BY <1>2, <1>3, <1>4 DEF Reached
<1>6. NothingEarly(s)'
  BY <1>1, <1>2, <1>5 DEF NothingEarly, Early, UnissuedAbsent
<1>7. CallShape(s)'
  BY <1>2, <1>3 DEF CallShape
<1>8. OnePlace(s)'
  <2>1. Distinct(queue[s])'
    BY <1>2, <1>3 DEF Distinct
  <2> QED BY <1>2, <1>3, <1>4, <1>5, <2>1 DEF OnePlace
<1>9. OwnResults(s)'
  BY <1>1, <1>2, <1>5 DEF OwnResults
<1>10. TargetsReached(s)'
  BY <1>2, <1>3, <1>5 DEF TargetsReached
<1> QED BY <1>6, <1>7, <1>8, <1>9, <1>10 DEF CallOK

\* The generator moves on and yields nothing.
LEMMA MoveKeeps ==
    ASSUME Storage!TypeOK, EntriesMoveOn, NEW s \in Subs, CallOK(s),
           s \in subscribers' <=> s \in subscribers,
           UNCHANGED <<reader, queue, subOwner, wild, target, remaining, immediate,
                       handed, owed>>,
           gen'[s] \in {"immediate", "reading", "left"},
           gen[s] = "immediate" \/ gen'[s] = gen[s],
           gen'[s] = "reading" =>
              immediate[s] = {} /\ (s \notin gone' => reader[s] # "cancelled")
    PROVE  CallOK(s)'
<1>1. \A i \in Ids : InQueue(s, i)' <=> InQueue(s, i)
  BY DEF InQueue, Storage!Elems
<1>2. \A i \in Ids : Reached(s, i)' <=> Reached(s, i)
  BY <1>1 DEF Reached
<1>3. NothingEarly(s)'
  BY <1>2 DEF CallOK, NothingEarly, EntriesMoveOn
<1>4. CallShape(s)'
  BY DEF CallOK, CallShape
<1>5. OnePlace(s)'
  BY <1>1, <1>2 DEF CallOK, OnePlace, Distinct
<1>6. OwnResults(s)'
  BY <1>2 DEF CallOK, OwnResults, NothingEarly, EntriesMoveOn
<1>7. TargetsReached(s)'
  <2>1. target[s] \subseteq Ids
    BY DEF Storage!TypeOK
  <2> QED BY <1>2, <2>1 DEF CallOK, TargetsReached
<1> QED BY <1>3, <1>4, <1>5, <1>6, <1>7 DEF CallOK

\* The stream is cancelled; handed is what it was, or counts the head of the
\* queue that was just yielded.
LEMMA CancelKeeps ==
    ASSUME Storage!TypeOK, EntriesMoveOn, NEW s \in Subs, CallOK(s),
           UNCHANGED <<subOwner, wild, target, immediate, owed>>, immediate[s] = {},
           Storage!CancelStream(s),
           \A i \in Ids : /\ handed'[s][i] <= 1
                          /\ handed'[s][i] > 0 => Reached(s, i),
           gen'[s] \in {"reading", "done", "failed"},
           gen'[s] = "reading" => s \in gone',
           gen'[s] = "done" => ~ wild[s] /\ \A i \in target[s] : handed'[s][i] > 0
    PROVE  CallOK(s)'
<1>1. reader'[s] = "cancelled" /\ queue'[s] = <<>> /\ s \notin subscribers'
  BY DEF Storage!CancelStream, Storage!TypeOK
<1>2. \A i \in Ids : ~ InQueue(s, i)'
  BY <1>1 DEF InQueue, Storage!Elems
<1>3. \A i \in Ids : Reached(s, i)' => Reached(s, i)
  BY <1>2 DEF Reached
<1>4. NothingEarly(s)'
  BY <1>3 DEF CallOK, NothingEarly, EntriesMoveOn
<1>5. CallShape(s)'
  BY <1>1 DEF CallShape
<1>6. OnePlace(s)'
  <2>1. Distinct(queue[s])'
    BY <1>1 DEF Distinct
  <2> QED BY <1>1, <1>2, <2>1 DEF OnePlace
<1>7. OwnResults(s)'
  BY <1>3 DEF CallOK, OwnResults, NothingEarly, EntriesMoveOn
<1>8. TargetsReached(s)'
  BY <1>1 DEF TargetsReached
<1> QED BY <1>4, <1>5, <1>6, <1>7, <1>8 DEF CallOK

\* One more result is yielded.
LEMMA HandOverFacts ==
    ASSUME Storage!TypeOK, NEW s \in Subs, NEW i \in Ids, Storage!HandOver(s, i)
    PROVE  /\ handed' \in [Subs -> [Ids -> Nat]]
           /\ handed'[s][i] = handed[s][i] + 1 /\ handed[s][i] \in Nat
           /\ \A j \in Ids : j # i => handed'[s][j] = handed[s][j]
           /\ \A j \in Ids : handed[s][j] > 0 => handed'[s][j] > 0
           /\ \A t \in Subs : t # s => handed'[t] = handed[t]
<1>1. handed[s] \in [Ids -> Nat] /\ handed \in [Subs -> [Ids -> Nat]]
  BY DEF Storage!TypeOK
<1>2. handed' = [handed EXCEPT ![s] = [handed[s] EXCEPT ![i] = handed[s][i] + 1]]
  BY DEF Storage!HandOver
<1>3. [handed[s] EXCEPT ![i] = handed[s][i] + 1] \in [Ids -> Nat]
  BY <1>1
<1>4. handed'[s] = [handed[s] EXCEPT ![i] = handed[s][i] + 1]
  BY <1>1, <1>2
<1> QED BY <1>1, <1>2, <1>3, <1>4

\* A result of the snapshot is yielded.
LEMMA YieldImmediateKeeps ==
    ASSUME Storage!TypeOK, EntriesMoveOn, NEW s \in Subs, CallOK(s),
           Storage!YieldImmediate(s)
    PROVE  CallOK(s)'
<1>1. PICK i \in immediate[s] : /\ immediate' = [immediate EXCEPT ![s] = @ \ {i}]
                                /\ Storage!HandOver(s, i)
  BY DEF Storage!YieldImmediate
<1>2. i \in Ids /\ immediate'[s] = immediate[s] \ {i} /\ gen[s] = "immediate"
  BY <1>1 DEF Storage!YieldImmediate, Storage!TypeOK
<1>3. UNCHANGED <<subscribers, gen, subOwner, wild, target, remaining, queue, reader,
                  gone, owed>>
  BY DEF Storage!YieldImmediate, Storage!callVars
<1>4. /\ handed[s][i] = 0 /\ ~ InQueue(s, i)
      /\ handed'[s][i] = handed[s][i] + 1
      /\ \A j \in Ids : j # i => handed'[s][j] = handed[s][j]
  BY <1>1, <1>2, HandOverFacts DEF CallOK, OnePlace
<1>5. \A j \in Ids : InQueue(s, j)' <=> InQueue(s, j)
  BY <1>3 DEF InQueue, Storage!Elems
<1>6. \A j \in Ids : Reached(s, j)' <=> Reached(s, j)
  BY <1>1, <1>2, <1>4, <1>5 DEF Reached
<1>7. NothingEarly(s)'
  BY <1>3, <1>6 DEF CallOK, NothingEarly, EntriesMoveOn
<1>8. CallShape(s)'
  BY <1>2, <1>3 DEF CallOK, CallShape
<1>9. OnePlace(s)'
  <2>1. Distinct(queue[s])'
    BY <1>3 DEF CallOK, OnePlace, Distinct
  <2>2. ASSUME NEW j \in Ids
        PROVE  /\ j \in immediate'[s] => handed'[s][j] = 0 /\ ~ InQueue(s, j)'
               /\ InQueue(s, j)' => handed'[s][j] = 0
               /\ handed'[s][j] <= 1
    BY <1>2, <1>4, <1>5 DEF CallOK, OnePlace
  <2> QED BY <1>3, <1>6, <2>1, <2>2 DEF CallOK, OnePlace
<1>10. OwnResults(s)'
  BY <1>3, <1>6 DEF CallOK, OwnResults, NothingEarly, EntriesMoveOn
<1>11. TargetsReached(s)'
  <2>1. target[s] \subseteq Ids
    BY DEF Storage!TypeOK
  <2> QED BY <1>2, <1>3, <1>6, <2>1 DEF CallOK, TargetsReached
<1> QED BY <1>7, <1>8, <1>9, <1>10, <1>11 DEF CallOK

\* After the snapshot the generator reads, or it is done.
LEMMA BeginReadingKeeps ==
    ASSUME Storage!TypeOK, EntriesMoveOn, NEW s \in Subs, CallOK(s),
           Storage!BeginReading(s)
    PROVE  CallOK(s)'
<1>1. /\ gen[s] = "immediate" /\ immediate[s] = {}
      /\ UNCHANGED <<subOwner, wild, target, remaining, immediate, gone, handed, owed>>
  BY DEF Storage!BeginReading, Storage!callVars
<1>2. CASE Storage!AllResolved(s, Storage!Resolved(s))
  <2>1. Storage!CancelStream(s) /\ gen'[s] = "done"
    BY <1>2 DEF Storage!BeginReading, Storage!TypeOK
  <2>2. ~ wild[s] /\ \A i \in target[s] : handed'[s][i] > 0
    BY <1>1, <1>2 DEF Storage!AllResolved, Storage!Resolved
  <2>3. \A i \in Ids : handed'[s][i] <= 1 /\ (handed'[s][i] > 0 => Reached(s, i))
    BY <1>1 DEF CallOK, OnePlace, Reached
  <2> QED BY <1>1, <2>1, <2>2, <2>3, CancelKeeps
<1>3. CASE ~ Storage!AllResolved(s, Storage!Resolved(s))
  <2>1. UNCHANGED <<reader, queue, subscribers>> /\ gen'[s] = "reading"
    BY <1>3 DEF Storage!BeginReading, Storage!TypeOK
  <2>2. reader[s] # "cancelled"
    BY <1>1 DEF CallOK, CallShape
  <2> QED BY <1>1, <2>1, <2>2, MoveKeeps
<1> QED BY <1>2, <1>3

\* The head of the queue, which is about to be yielded.
LEMMA HeadFacts ==
    ASSUME Storage!TypeOK, NEW s \in Subs, CallOK(s), queue[s] # <<>>
    PROVE  /\ Head(queue[s]) \in Ids /\ InQueue(s, Head(queue[s]))
           /\ handed[s][Head(queue[s])] = 0
           /\ Tail(queue[s]) \in Seq(Ids) /\ Distinct(Tail(queue[s]))
           /\ Storage!Elems(Tail(queue[s])) = Storage!Elems(queue[s]) \ {Head(queue[s])}
<1> DEFINE q == queue[s]
<1>1. q \in Seq(Ids) /\ Distinct(q) /\ q # <<>>
  BY DEF Storage!TypeOK, CallOK, OnePlace
<1>2. Head(q) \in Ids
  BY <1>1
<1> HIDE DEF q
<1>3. /\ Tail(q) \in Seq(Ids) /\ Distinct(Tail(q)) /\ Head(q) \in Elems(q)
      /\ Elems(Tail(q)) = Elems(q) \ {Head(q)}
  BY <1>1, QueueTail
<1>4. InQueue(s, Head(q))
  BY <1>3, SameElems DEF InQueue, q
<1>5. handed[s][Head(q)] = 0
  BY <1>2, <1>4 DEF CallOK, OnePlace
<1> QED BY <1>2, <1>3, <1>4, <1>5, SameElems DEF q

\* One turn of the reading loop.
LEMMA ReadKeeps ==
    ASSUME Storage!TypeOK, EntriesMoveOn, NEW s \in Subs, CallOK(s), Storage!Read(s)
    PROVE  CallOK(s)'
<1>1. /\ gen[s] = "reading" /\ immediate[s] = {}
      /\ UNCHANGED <<subOwner, wild, target, remaining, immediate, gone, owed>>
  BY DEF Storage!Read, Storage!callVars, CallOK, CallShape
<1>2. CASE queue[s] # <<>> /\ s \notin gone /\ Storage!HandOver(s, Head(queue[s]))
  <2> DEFINE i == Head(queue[s])
  <2>1. i \in Ids /\ InQueue(s, i) /\ handed[s][i] = 0
    BY <1>2, HeadFacts
  <2>2. /\ handed'[s][i] = 1
        /\ \A j \in Ids : j # i => handed'[s][j] = handed[s][j]
    BY <1>2, <2>1, HandOverFacts
  <2>3. \A j \in Ids : handed'[s][j] <= 1 /\ (handed'[s][j] > 0 => Reached(s, j))
    BY <2>1, <2>2 DEF CallOK, OnePlace, Reached
  <2>4. ASSUME Storage!AllResolved(s, Storage!Resolved(s) \cup {i}),
               gen' = [gen EXCEPT ![s] = "done"], Storage!CancelStream(s)
        PROVE  CallOK(s)'
    <3>1. ~ wild[s] /\ \A j \in target[s] : j = i \/ (j \in Ids /\ handed[s][j] > 0)
      BY <2>4 DEF Storage!AllResolved, Storage!Resolved
    <3>2. \A j \in target[s] : handed'[s][j] > 0
      BY <2>2, <3>1
    <3>3. gen'[s] = "done"
      BY <2>4 DEF Storage!TypeOK
    <3> QED BY <1>1, <2>3, <2>4, <3>1, <3>2, <3>3, CancelKeeps
  <2>5. ASSUME queue' = [queue EXCEPT ![s] = Tail(@)],
               UNCHANGED <<gen, reader, subscribers>>
        PROVE  CallOK(s)'
    <3>1. queue'[s] = Tail(queue[s])
      BY <2>5 DEF Storage!TypeOK
    <3>2. /\ Distinct(queue'[s])
          /\ \A j \in Ids : InQueue(s, j)' <=> InQueue(s, j) /\ j # i
      <4>1. /\ Distinct(Tail(queue[s]))
            /\ Storage!Elems(Tail(queue[s])) = Storage!Elems(queue[s]) \ {i}
        BY <1>2, HeadFacts
      <4>2. \A j \in Ids : InQueue(s, j)' <=> j \in Storage!Elems(queue'[s])
        BY DEF InQueue
      <4> QED BY <3>1, <4>1, <4>2 DEF InQueue
    <3>3. \A j \in Ids : Reached(s, j)' <=> Reached(s, j)
      BY <1>1, <2>1, <2>2, <3>2 DEF Reached
    <3>4. NothingEarly(s)'
      BY <1>1, <3>3 DEF CallOK, NothingEarly, EntriesMoveOn
    <3>5. CallShape(s)'
      BY <1>1, <2>5 DEF CallOK, CallShape
    <3>6. OnePlace(s)'
      <4>1. ASSUME NEW j \in Ids
            PROVE  /\ InQueue(s, j)' => handed'[s][j] = 0
                   /\ handed'[s][j] <= 1
        BY <2>1, <2>2, <3>2 DEF CallOK, OnePlace
      <4>2. Distinct(queue[s])'
        BY <3>2 DEF Distinct
      <4> QED BY <1>1, <2>5, <3>3, <4>1, <4>2 DEF CallOK, OnePlace
    <3>7. OwnResults(s)'
      BY <1>1, <3>3 DEF CallOK, OwnResults, NothingEarly, EntriesMoveOn
    <3>8. TargetsReached(s)'
      <4>1. target[s] \subseteq Ids
        BY DEF Storage!TypeOK
      <4> QED BY <1>1, <2>5, <3>3, <4>1 DEF CallOK, TargetsReached
    <3> QED BY <3>4, <3>5, <3>6, <3>7, <3>8 DEF CallOK
  <2>6. \/ /\ Storage!AllResolved(s, Storage!Resolved(s) \cup {i})
           /\ gen' = [gen EXCEPT ![s] = "done"] /\ Storage!CancelStream(s)
        \/ /\ queue' = [queue EXCEPT ![s] = Tail(@)]
           /\ UNCHANGED <<gen, reader, subscribers>>
        \/ UNCHANGED handed
    BY DEF Storage!Read
  <2>7. handed' # handed
    BY <2>1, <2>2
  <2> QED BY <2>4, <2>5, <2>6, <2>7
<1>3. CASE /\ queue[s] # <<>> \/ reader[s] # "readable"
           /\ \/ s \in gone /\ gen' = [gen EXCEPT ![s] = "failed"]
              \/ /\ s \notin gone /\ queue[s] = <<>>
                 /\ gen' = [gen EXCEPT ![s] = IF reader[s] = "errored" THEN "failed"
                                              ELSE "done"]
           /\ Storage!CancelStream(s) /\ UNCHANGED handed
  <2>1. \A i \in Ids : handed'[s][i] <= 1 /\ (handed'[s][i] > 0 => Reached(s, i))
    BY <1>3 DEF CallOK, OnePlace, Reached
  <2>2. \/ gen'[s] = "failed"
        \/ gen'[s] = "done" /\ queue[s] = <<>> /\ s \notin gone
           /\ reader[s] \notin {"readable", "errored"}
    BY <1>3 DEF Storage!TypeOK
  <2>3. ASSUME gen'[s] = "done"
        PROVE  ~ wild[s] /\ \A i \in target[s] : handed'[s][i] > 0
    <3>1. reader[s] = "closing" /\ queue[s] = <<>>
      BY <1>1, <2>2, <2>3 DEF CallOK, CallShape, Storage!TypeOK
    <3>2. \A i \in Ids : ~ InQueue(s, i)
      BY <3>1 DEF InQueue, Storage!Elems
    <3>3. target[s] \subseteq Ids
      BY DEF Storage!TypeOK
    <3> QED BY <1>1, <1>3, <3>1, <3>2, <3>3 DEF CallOK, TargetsReached, Reached
  <2> QED BY <1>1, <1>3, <2>1, <2>2, <2>3, CancelKeeps
<1> QED BY <1>2, <1>3 DEF Storage!Read

\* The client goes away.
LEMMA LeaveKeeps ==
    ASSUME Storage!TypeOK, EntriesMoveOn, NEW s \in Subs, CallOK(s),
           Storage!Abort(s) \/ Storage!ReturnGenerator(s)
    PROVE  CallOK(s)'
<1>1. UNCHANGED <<subOwner, wild, target, remaining, immediate, handed, owed>>
  BY DEF Storage!Abort, Storage!ReturnGenerator, Storage!callVars
<1>2. CASE Storage!ReturnGenerator(s)
  <2>1. /\ UNCHANGED <<reader, queue, subscribers>>
        /\ gen[s] = "immediate" /\ gen'[s] = "left"
    BY <1>2 DEF Storage!ReturnGenerator, Storage!TypeOK
  <2> QED BY <1>1, <2>1, MoveKeeps
<1>3. CASE Storage!Abort(s) /\ gen[s] = "reading"
  <2>1. Storage!CancelStream(s) /\ gen' = gen /\ s \in gone' /\ immediate[s] = {}
    BY <1>3 DEF Storage!Abort, CallOK, CallShape
  <2>2. \A i \in Ids : handed'[s][i] <= 1 /\ (handed'[s][i] > 0 => Reached(s, i))
    BY <1>1 DEF CallOK, OnePlace, Reached
  <2> QED BY <1>1, <1>3, <2>1, <2>2, CancelKeeps
<1>4. CASE Storage!Abort(s) /\ gen[s] # "reading"
  <2>1. UNCHANGED <<reader, queue, subscribers, gen>> /\ gen[s] = "immediate"
    BY <1>4 DEF Storage!Abort
  <2> QED BY <1>1, <2>1, MoveKeeps
<1> QED BY <1>2, <1>3, <1>4

\* The loop of complete over the subscribers, for each of the calls.
LEMMA NotifyKeeps ==
    ASSUME Storage!TypeOK, UnissuedAbsent, EntriesMoveOn,
           NEW i \in Ids, state[i] = "pending", state'[i] # "pending",
           UNCHANGED <<issued, owner, gen, subOwner, wild, target, immediate, gone,
                       handed>>,
           Storage!Notify(i), NEW s \in Subs, CallOK(s)
    PROVE  CallOK(s)'
<1> DEFINE matching == s \in subscribers /\ Storage!Wants(s, i)
           last == ~ wild[s] /\ remaining[s] = {i}
<1>1. CASE ~ matching
  <2>1. SameCall(s)
    BY <1>1 DEF Storage!Notify, SameCall
  <2> QED BY <2>1, SameCallKeeps
<1>2. CASE matching /\ Storage!Full(s)
  <2>1. /\ queue'[s] = <<>> /\ reader'[s] = "errored" /\ s \notin subscribers'
        /\ gen[s] # "new"
    BY <1>2 DEF Storage!Notify, CallOK, CallShape
  <2>2. \A j \in Ids : ~ InQueue(s, j)'
    BY <2>1 DEF InQueue, Storage!Elems
  <2>3. \A j \in Ids : Reached(s, j)' => Reached(s, j)
    BY <2>2 DEF Reached
  <2>4. owed'[s] = owed[s] \cup {i}
    BY <1>2 DEF Storage!Notify
  <2>5. ~ Early(i)'
    BY DEF Early, UnissuedAbsent
  <2>6. NothingEarly(s)'
    BY <2>3, <2>4, <2>5 DEF CallOK, NothingEarly, EntriesMoveOn
  <2>7. CallShape(s)'
    BY <2>1 DEF CallOK, CallShape
  <2>8. OnePlace(s)'
    <3>1. Distinct(queue[s])'
      BY <2>1 DEF Distinct
    <3> QED BY <2>1, <2>2, <3>1 DEF CallOK, OnePlace
  <2>9. OwnResults(s)'
    BY <2>3 DEF CallOK, OwnResults
  <2>10. TargetsReached(s)'
    BY <2>1 DEF CallOK, TargetsReached
  <2> QED BY <2>6, <2>7, <2>8, <2>9, <2>10 DEF CallOK
<1>3. CASE matching /\ ~ Storage!Full(s)
  <2>1. /\ queue'[s] = Append(queue[s], i) /\ owed'[s] = owed[s] \cup {i}
        /\ remaining'[s] = remaining[s] \ {i}
        /\ s \in subscribers' <=> ~ last
        /\ reader'[s] = IF last THEN "closing" ELSE reader[s]
    BY <1>3 DEF Storage!Notify
  <2>2. /\ gen[s] # "new" /\ reader[s] = "readable" /\ s \in subscribers
        /\ subOwner[s] = owner[i]
    BY <1>3 DEF CallOK, CallShape, Storage!Wants
  <2>3. ~ Early(i)' /\ ~ Reached(s, i) /\ i \notin owed[s]
    BY DEF Early, UnissuedAbsent, CallOK, NothingEarly
  <2>4. /\ Distinct(queue'[s])
        /\ \A j \in Ids : InQueue(s, j)' <=> InQueue(s, j) \/ j = i
    <3>1. /\ queue[s] \in Seq(Ids) /\ Distinct(queue[s]) /\ i \notin Elems(queue[s])
      BY <2>3, SameElems DEF Storage!TypeOK, CallOK, OnePlace, Reached, InQueue
    <3>2. /\ Distinct(Append(queue[s], i))
          /\ Elems(Append(queue[s], i)) = Elems(queue[s]) \cup {i}
      BY <3>1, QueueAppend
    <3>3. \A j \in Ids : InQueue(s, j)' <=> j \in Storage!Elems(queue'[s])
      BY DEF InQueue
    <3> QED BY <2>1, <3>2, <3>3, SameElems DEF InQueue
  <2>5. \A j \in Ids : Reached(s, j)' <=> Reached(s, j) \/ j = i
    BY <2>4 DEF Reached
  <2>6. NothingEarly(s)'
    BY <2>1, <2>3, <2>5 DEF CallOK, NothingEarly, EntriesMoveOn
  <2>7. CallShape(s)'
    BY <2>1, <2>2 DEF CallOK, CallShape
  <2>8. OnePlace(s)'
    <3>1. Distinct(queue[s])'
      BY <2>4 DEF Distinct
    <3>2. handed[s][i] = 0 /\ i \notin immediate[s]
      <4>1. handed[s][i] \in Nat
        BY DEF Storage!TypeOK
      <4> QED BY <2>3, <4>1 DEF Reached
    <3>3. ASSUME NEW j \in Ids
          PROVE  /\ j \in immediate[s] => handed[s][j] = 0 /\ ~ InQueue(s, j)'
                 /\ InQueue(s, j)' => handed[s][j] = 0
                 /\ handed[s][j] <= 1
      BY <2>4, <3>2 DEF CallOK, OnePlace
    <3>4. ASSUME NEW j \in Ids, j \in owed'[s] PROVE Reached(s, j)'
      BY <2>1, <2>2, <2>5, <3>4 DEF CallOK, OnePlace
    <3> QED BY <3>1, <3>3, <3>4 DEF OnePlace
  <2>9. OwnResults(s)'
    BY <2>2, <2>5 DEF CallOK, OwnResults
  <2>10. TargetsReached(s)'
    <3>1. target[s] \subseteq Ids /\ remaining[s] \subseteq Ids
      BY DEF Storage!TypeOK
    <3>2. ASSUME ~ wild[s], NEW j \in target[s]
          PROVE  j \in remaining'[s] \/ Reached(s, j)'
      BY <2>1, <2>2, <2>5, <3>1, <3>2 DEF CallOK, TargetsReached
    <3>3. last => remaining'[s] = {}
      BY <2>1
    <3> QED BY <2>1, <2>2, <3>2, <3>3 DEF CallOK, TargetsReached
  <2> QED BY <2>6, <2>7, <2>8, <2>9, <2>10 DEF CallOK
<1> QED BY <1>1, <1>2, <1>3

\* Every step keeps what is known of every call.
LEMMA CallsStep ==
    ASSUME ServerInv, Storage!Next, NEW s \in Subs
    PROVE  CallOK(s)'
<1> USE DEF ServerInv
<1>1. EntriesMoveOn /\ CallOK(s)
  BY EarlyStep DEF EntriesMoveOn
<1> DEFINE Goal == CallOK(s)'
<1>2. SameCall(s) => Goal
  BY <1>1, SameCallKeeps
<1>3. ASSUME NEW i \in Ids, NEW o \in Owners, NEW k \in Keys \cup {NoKey},
             NEW d \in BOOLEAN, Storage!Register(i, o, k, d)
      PROVE  Goal
  BY <1>2, <1>3 DEF Storage!Register, SameCall, Storage!callVars
<1>4. ASSUME NEW i \in Ids, Storage!Cancel(i) PROVE Goal
  BY <1>2, <1>4 DEF Storage!Cancel, SameCall, Storage!callVars
<1>5. ASSUME NEW i \in Ids, Storage!Complete(i) PROVE Goal
  <2>1. CASE state[i] # "pending"
    BY <1>2, <1>5, <2>1 DEF Storage!Complete, SameCall, Storage!callVars
  <2>2. CASE state[i] = "pending"
    <3>1. PICK E \in SUBSET Ids : Completion(i, E)
      BY <1>5, <2>2, CompletionFacts
    <3>2. state'[i] # "pending"
      BY <3>1 DEF Completion
    <3>3. /\ Storage!Notify(i)
          /\ UNCHANGED <<issued, owner, gen, subOwner, wild, target, immediate, gone,
                         handed>>
      BY <1>5, <2>2 DEF Storage!Complete, Storage!callVars
    <3> QED BY <1>1, <2>2, <3>2, <3>3, NotifyKeeps
  <2> QED BY <2>1, <2>2
<1>6. ASSUME NEW t \in Subs, NEW w \in BOOLEAN, NEW T \in SUBSET Ids,
             Storage!Subscribe(t, w, T)
      PROVE  Goal
  <2>1. t # s => SameCall(s)
    BY <1>6 DEF Storage!Subscribe, SameCall, Storage!TypeOK
  <2> QED BY <1>1, <1>2, <1>6, <2>1, SubscribeKeeps
<1>7. ASSUME NEW t \in Subs, Storage!YieldImmediate(t) PROVE Goal
  <2>1. ASSUME t # s PROVE SameCall(s)
    <3>1. PICK i \in immediate[t] : /\ immediate' = [immediate EXCEPT ![t] = @ \ {i}]
                                    /\ Storage!HandOver(t, i)
      BY <1>7 DEF Storage!YieldImmediate
    <3>2. handed'[s] = handed[s] /\ immediate'[s] = immediate[s]
      BY <2>1, <3>1, HandOverFacts DEF Storage!TypeOK
    <3> QED BY <1>7, <3>2 DEF Storage!YieldImmediate, SameCall, Storage!callVars
  <2> QED BY <1>1, <1>2, <1>7, <2>1, YieldImmediateKeeps
<1>8. ASSUME NEW t \in Subs, Storage!CancelStream(t), t # s
      PROVE  /\ s \in subscribers' <=> s \in subscribers
             /\ reader'[s] = reader[s] /\ queue'[s] = queue[s]
  BY <1>8 DEF Storage!CancelStream, Storage!TypeOK
<1>9. ASSUME NEW t \in Subs, Storage!BeginReading(t) PROVE Goal
  <2>1. t # s => SameCall(s)
    BY <1>8, <1>9 DEF Storage!BeginReading, SameCall, Storage!callVars, Storage!TypeOK
  <2> QED BY <1>1, <1>2, <1>9, <2>1, BeginReadingKeeps
<1>10. ASSUME NEW t \in Subs, Storage!Read(t) PROVE Goal
  <2>1. ASSUME t # s PROVE SameCall(s)
    <3>1. handed'[s] = handed[s]
      <4>1. CASE queue[t] # <<>> /\ Storage!HandOver(t, Head(queue[t]))
        BY <1>1, <2>1, <4>1, HeadFacts, HandOverFacts
      <4> QED BY <1>10, <4>1 DEF Storage!Read
    <3>2. /\ s \in subscribers' <=> s \in subscribers
          /\ reader'[s] = reader[s] /\ queue'[s] = queue[s]
      BY <1>8, <1>10, <2>1 DEF Storage!Read, Storage!TypeOK
    <3>3. gen'[s] = gen[s]
      BY <1>10, <2>1 DEF Storage!Read, Storage!TypeOK
    <3> QED BY <1>10, <3>1, <3>2, <3>3 DEF Storage!Read, SameCall, Storage!callVars
  <2> QED BY <1>1, <1>2, <1>10, <2>1, ReadKeeps
<1>11. ASSUME NEW t \in Subs, Storage!Abort(t) \/ Storage!ReturnGenerator(t) PROVE Goal
  <2>1. t # s => SameCall(s)
    BY <1>8, <1>11 DEF Storage!Abort, Storage!ReturnGenerator, SameCall,
                       Storage!callVars, Storage!TypeOK
  <2> QED BY <1>1, <1>2, <1>11, <2>1, LeaveKeeps
<1> HIDE DEF Goal
<1>12. Goal
  BY <1>3, <1>4, <1>5, <1>6, <1>7, <1>9, <1>10, <1>11
  DEF Storage!Next, Storage!GeneratorStep
<1> QED BY <1>12 DEF Goal

LEMMA StorageTypeStep ==
    ASSUME ServerInv, Storage!Next
    PROVE  Storage!TypeOK'
<1> DEFINE Goal == Storage!TypeOK'
<1>0. /\ Storage!TypeOK /\ MaxPending \in Nat
      /\ \A i \in Ids : state[i] = "pending" => pendingCount - 1 \in 0 .. MaxPending
  BY PendingIsCounted, TsFuturesAssumption
  DEF ServerInv, Storage!ConstantsOK, Storage!TypeOK
<1>1. ASSUME NEW i \in Ids, NEW o \in Owners, NEW k \in Keys \cup {NoKey},
             NEW d \in BOOLEAN, Storage!Register(i, o, k, d)
      PROVE  Goal
  <2>1. pendingCount' \in 0 .. MaxPending
    BY <1>0, <1>1 DEF Storage!Register, Storage!TypeOK
  <2>2. idempotency' \in [Keys -> Ids \cup {NoId}]
    BY <1>0, <1>1 DEF Storage!Register, Storage!TypeOK
  <2>3. /\ state' \in [Ids -> {"absent", "pending", "completed"}]
        /\ owner' \in [Ids -> Owners] /\ keyOf' \in [Ids -> Keys \cup {NoKey}]
        /\ discardResult' \in [Ids -> BOOLEAN]
    BY <1>0, <1>1 DEF Storage!Register, Storage!TypeOK
  <2> QED BY <1>0, <1>1, <2>1, <2>2, <2>3
          DEF Storage!Register, Storage!TypeOK, Storage!callVars
<1>2. ASSUME NEW E \in SUBSET Ids, Storage!Drop(E)
      PROVE  /\ keyOf' \in [Ids -> Keys \cup {NoKey}]
             /\ idempotency' \in [Keys -> Ids \cup {NoId}]
  BY <1>0, <1>2 DEF Storage!Drop, Storage!TypeOK
<1>3. ASSUME NEW i \in Ids, Storage!Cancel(i) PROVE Goal
  <2>1. pendingCount' \in 0 .. MaxPending
    BY <1>0, <1>3 DEF Storage!Cancel
  <2>2. /\ keyOf' \in [Ids -> Keys \cup {NoKey}]
        /\ idempotency' \in [Keys -> Ids \cup {NoId}]
    BY <1>2, <1>3 DEF Storage!Cancel
  <2> QED BY <1>0, <1>3, <2>1, <2>2 DEF Storage!Cancel, Storage!TypeOK, Storage!callVars
<1>4. ASSUME NEW i \in Ids, Storage!Complete(i) PROVE Goal
  <2>1. CASE state[i] # "pending"
    BY <1>0, <1>4, <2>1 DEF Storage!Complete, Storage!TypeOK, Storage!callVars
  <2>2. CASE state[i] = "pending"
    <3>1. PICK E \in SUBSET Ids : Completion(i, E)
      BY <1>4, <2>2, CompletionFacts DEF ServerInv
    <3>2. /\ pendingCount' \in 0 .. MaxPending /\ retainedOrder' \in Seq(Ids)
          /\ keyOf' \in [Ids -> Keys \cup {NoKey}]
          /\ idempotency' \in [Keys -> Ids \cup {NoId}]
      BY <1>0, <1>2, <2>2, <3>1 DEF Completion
    <3>3. state' \in [Ids -> {"absent", "pending", "completed"}]
      BY <1>0, <3>1 DEF Completion, Storage!TypeOK
    <3>4. /\ Storage!Notify(i) /\ executing' = executing \ {i}
          /\ UNCHANGED <<owner, discardResult, gen, subOwner, wild, target, immediate,
                         gone, issued, handed>>
      BY <1>4, <2>2 DEF Storage!Complete, Storage!callVars
    <3>5. queue' \in [Subs -> Seq(Ids)]
      <4>1. \A s \in Subs : queue[s] \in Seq(Ids) /\ Append(queue[s], i) \in Seq(Ids)
                            /\ <<>> \in Seq(Ids)
        BY <1>0 DEF Storage!TypeOK
      <4> QED BY <3>4, <4>1 DEF Storage!Notify
    <3>6. /\ reader' \in [Subs -> {"readable", "closing", "errored", "cancelled"}]
          /\ subscribers' \in SUBSET Subs
      BY <1>0, <3>4 DEF Storage!Notify, Storage!TypeOK
    <3>7. remaining' \in [Subs -> SUBSET Ids] /\ owed' \in [Subs -> SUBSET Ids]
      BY <1>0, <3>4 DEF Storage!Notify, Storage!TypeOK
    <3> QED BY <1>0, <3>2, <3>3, <3>4, <3>5, <3>6, <3>7 DEF Storage!TypeOK
  <2> QED BY <2>1, <2>2
<1>5. ASSUME NEW s \in Subs, NEW w \in BOOLEAN, NEW T \in SUBSET Ids,
             Storage!Subscribe(s, w, T)
      PROVE  Goal
  <2>1. Storage!Snapshot(s, w, T) \in SUBSET Ids /\ Storage!Rest(s, w, T) \in SUBSET Ids
    BY DEF Storage!Snapshot, Storage!Rest
  <2>2. /\ immediate' \in [Subs -> SUBSET Ids] /\ remaining' \in [Subs -> SUBSET Ids]
        /\ owed' \in [Subs -> SUBSET Ids] /\ target' \in [Subs -> SUBSET Ids]
    BY <1>0, <1>5, <2>1 DEF Storage!Subscribe, Storage!TypeOK
  <2>3. /\ reader' \in [Subs -> {"readable", "closing", "errored", "cancelled"}]
        /\ subscribers' \in SUBSET Subs
    BY <1>0, <1>5, ZenonT(30) DEF Storage!Subscribe, Storage!TypeOK
  <2> QED BY <1>0, <1>5, <2>2, <2>3 DEF Storage!Subscribe, Storage!TypeOK, Storage!entryVars
<1>6. ASSUME NEW s \in Subs, Storage!CancelStream(s)
      PROVE  /\ reader' \in [Subs -> {"readable", "closing", "errored", "cancelled"}]
             /\ queue' \in [Subs -> Seq(Ids)] /\ subscribers' \in SUBSET Subs
  BY <1>0, <1>6 DEF Storage!CancelStream, Storage!TypeOK
<1>7. ASSUME NEW s \in Subs, Storage!YieldImmediate(s) PROVE Goal
  <2>1. PICK i \in immediate[s] : /\ immediate' = [immediate EXCEPT ![s] = @ \ {i}]
                                  /\ Storage!HandOver(s, i)
    BY <1>7 DEF Storage!YieldImmediate
  <2>2. i \in Ids /\ immediate' \in [Subs -> SUBSET Ids]
    BY <1>0, <2>1 DEF Storage!TypeOK
  <2>3. handed' \in [Subs -> [Ids -> Nat]]
    BY <1>0, <2>1, <2>2, HandOverFacts
  <2> QED BY <1>0, <1>7, <2>2, <2>3
          DEF Storage!YieldImmediate, Storage!TypeOK, Storage!entryVars, Storage!callVars
<1>8. ASSUME NEW s \in Subs, Storage!BeginReading(s) PROVE Goal
  <2>1. /\ reader' \in [Subs -> {"readable", "closing", "errored", "cancelled"}]
        /\ queue' \in [Subs -> Seq(Ids)] /\ subscribers' \in SUBSET Subs
    BY <1>0, <1>6, <1>8 DEF Storage!BeginReading, Storage!TypeOK
  <2>2. gen' \in [Subs -> {"new", "immediate", "reading", "done", "failed", "left"}]
    <3>1. \E g \in {"done", "reading"} : gen' = [gen EXCEPT ![s] = g]
      BY <1>8 DEF Storage!BeginReading
    <3> QED BY <1>0, <3>1 DEF Storage!TypeOK
  <2> QED BY <1>0, <1>8, <2>1, <2>2
          DEF Storage!BeginReading, Storage!TypeOK, Storage!entryVars, Storage!callVars
<1>9. ASSUME NEW s \in Subs, Storage!Read(s) PROVE Goal
  <2>1. handed' \in [Subs -> [Ids -> Nat]]
    <3>1. CASE queue[s] # <<>> /\ Storage!HandOver(s, Head(queue[s]))
      BY <1>0, <3>1, HeadFacts, HandOverFacts DEF ServerInv
    <3> QED BY <1>0, <1>9, <3>1 DEF Storage!Read, Storage!TypeOK
  <2>2. /\ reader' \in [Subs -> {"readable", "closing", "errored", "cancelled"}]
        /\ queue' \in [Subs -> Seq(Ids)] /\ subscribers' \in SUBSET Subs
    <3>1. CASE queue[s] # <<>> /\ queue' = [queue EXCEPT ![s] = Tail(@)]
               /\ UNCHANGED <<reader, subscribers>>
      <4>1. Tail(queue[s]) \in Seq(Ids)
        BY <1>0, <3>1, HeadFacts DEF ServerInv
      <4> QED BY <1>0, <3>1, <4>1 DEF Storage!TypeOK
    <3> QED BY <1>6, <1>9, <3>1 DEF Storage!Read
  <2>3. gen' \in [Subs -> {"new", "immediate", "reading", "done", "failed", "left"}]
    BY <1>0, <1>9 DEF Storage!Read, Storage!TypeOK
  <2> QED BY <1>0, <1>9, <2>1, <2>2, <2>3
          DEF Storage!Read, Storage!TypeOK, Storage!entryVars, Storage!callVars
<1>10. ASSUME NEW s \in Subs, Storage!Abort(s) PROVE Goal
  <2>1. /\ reader' \in [Subs -> {"readable", "closing", "errored", "cancelled"}]
        /\ queue' \in [Subs -> Seq(Ids)] /\ subscribers' \in SUBSET Subs
    BY <1>0, <1>6, <1>10 DEF Storage!Abort, Storage!TypeOK
  <2> QED BY <1>0, <1>10, <2>1
          DEF Storage!Abort, Storage!TypeOK, Storage!entryVars, Storage!callVars
<1>11. ASSUME NEW s \in Subs, Storage!ReturnGenerator(s) PROVE Goal
  BY <1>0, <1>11
  DEF Storage!ReturnGenerator, Storage!TypeOK, Storage!entryVars, Storage!callVars
<1> HIDE DEF Goal
<1>12. Goal
  BY <1>1, <1>3, <1>4, <1>5, <1>7, <1>8, <1>9, <1>10, <1>11
  DEF Storage!Next, Storage!GeneratorStep
<1> QED BY <1>12 DEF Goal

LEMMA ServerStepKeeps ==
    ASSUME ServerInv, ServerStep
    PROVE  ServerInv'
<1>1. Storage!Next
  BY DEF ServerStep
<1>2. /\ Storage!TypeOK /\ Storage!PendingCountExact /\ Storage!KeysFollowEntries
      /\ UnissuedAbsent /\ StorageWindow
  BY DEF ServerInv
<1>3. Storage!TypeOK' /\ \A s \in Subs : CallOK(s)'
  BY <1>1, StorageTypeStep, CallsStep
<1>4. /\ Storage!PendingCountExact' /\ Storage!KeysFollowEntries'
      /\ UnissuedAbsent' /\ StorageWindow'
  BY <1>1, <1>2, StorageCountStep, StorageKeyStep, EarlyStep, StorageWindowStep
<1> QED BY <1>3, <1>4 DEF ServerInv
-----------------------------------------------------------------------------
(***************************************************************************)
(* The theorems.                                                           *)
(***************************************************************************)
LEMMA FuturesStart == FuturesInit => ClientInv /\ ServerInv
<1> SUFFICES ASSUME FuturesInit PROVE ClientInv /\ ServerInv
  OBVIOUS
<1>1. ClientInit /\ Storage!Init
  BY DEF FuturesInit
<1>2. ClientTypeOK
  <2>1. /\ pending \in [Ids -> Waiters \cup {NoSet}]
        /\ setOf \in [Waiters -> Waiters \cup {NoSet}]
        /\ callPc \in [Waiters -> {"idle", "waiting", "settled", "done"}]
        /\ settlement \in [Waiters -> Settlements]
    BY <1>1 DEF ClientInit, Settlements
  <2>2. completedOrder \in Seq(Ids) /\ completed \in SUBSET Ids
    BY <1>1 DEF ClientInit
  <2>3. aborting \in BOOLEAN /\ closed \in BOOLEAN
    BY <1>1 DEF ClientInit
  <2> QED BY <1>1, <2>1, <2>2, <2>3 DEF ClientInit, ClientTypeOK
<1>3. SetsAreNamed /\ EntriesWait
  BY <1>1 DEF ClientInit, SetsAreNamed, EntriesWait, Entries
<1>4. CacheWindow
  <2>1. MaxCompletedResults >= 0 /\ Len(completedOrder) = 0 /\ completed = {}
    BY <1>1, TsFutureResolverAssumption DEF ClientInit
  <2> QED BY <2>1 DEF CacheWindow, Distinct, Elems
<1>5. Storage!TypeOK
  <2>1. MaxPending \in Nat /\ 0 \in 0 .. MaxPending
    BY TsFuturesAssumption DEF Storage!ConstantsOK
  <2> QED BY <1>1, <2>1 DEF Storage!Init, Storage!TypeOK
<1>6. /\ \A i \in Ids : state[i] = "absent" /\ keyOf[i] = NoKey
      /\ \A k \in Keys : idempotency[k] = NoId
      /\ retainedOrder = <<>> /\ pendingCount = 0
  BY <1>1 DEF Storage!Init
<1>7. Storage!PendingCountExact
  <2>1. {i \in Ids : state[i] = "pending"} = {}
    BY <1>6
  <2> QED BY <1>6, <2>1, SameCardinality, FS_EmptySet DEF Storage!PendingCountExact
<1>8. Storage!KeysFollowEntries /\ UnissuedAbsent
  BY <1>6, TsFuturesAssumption
  DEF Storage!KeysFollowEntries, Storage!ConstantsOK, UnissuedAbsent
<1>9. StorageWindow
  <2>1. MaxCompleted >= 0 /\ Len(retainedOrder) = 0
    BY <1>6, TsFuturesAssumption DEF Storage!ConstantsOK
  <2> QED BY <1>6, <2>1 DEF StorageWindow, Distinct, Storage!Elems, Completed
<1>10. ASSUME NEW s \in Subs PROVE CallOK(s)
  <2>1. /\ s \notin subscribers /\ gen[s] = "new" /\ reader[s] = "readable"
        /\ immediate[s] = {} /\ queue[s] = <<>> /\ owed[s] = {}
        /\ \A i \in Ids : handed[s][i] = 0
    BY <1>1 DEF Storage!Init
  <2>2. \A i \in Ids : ~ InQueue(s, i) /\ ~ Reached(s, i)
    BY <2>1 DEF InQueue, Reached, Storage!Elems
  <2> QED BY <2>1, <2>2 DEF CallOK, NothingEarly, CallShape, OnePlace, OwnResults,
                           TargetsReached, Distinct
<1> QED BY <1>2, <1>3, <1>4, <1>5, <1>7, <1>8, <1>9, <1>10 DEF ClientInv, ServerInv

LEMMA ClientStays == ClientInv /\ UNCHANGED clientVars => ClientInv'
  BY DEF ClientInv, clientVars, cacheVars, callVars, serverVars, ClientTypeOK, SetsAreNamed,
         EntriesWait, Entries, CacheWindow, Distinct, Elems

LEMMA ServerStays == ServerInv /\ UNCHANGED storageVars => ServerInv'
<1> SUFFICES ASSUME ServerInv, UNCHANGED storageVars PROVE ServerInv'
  OBVIOUS
<1>1. Storage!TypeOK'
  BY DEF ServerInv, storageVars, Storage!TypeOK
<1>2. Storage!PendingCountExact' /\ Storage!KeysFollowEntries' /\ UnissuedAbsent'
  BY DEF ServerInv, storageVars, Storage!PendingCountExact, Storage!KeysFollowEntries,
         UnissuedAbsent
<1>3. StorageWindow'
  BY DEF ServerInv, storageVars, StorageWindow, Completed, Distinct, Storage!Elems
<1>4. ASSUME NEW s \in Subs PROVE CallOK(s)'
  <2>1. EntriesMoveOn /\ SameCall(s)
    BY DEF storageVars, EntriesMoveOn, Early, SameCall
  <2> QED BY <2>1, SameCallKeeps DEF ServerInv
<1> QED BY <1>1, <1>2, <1>3, <1>4 DEF ServerInv

\* The inductive invariants of both ends, for every number of futures, callers,
\* calls and keys and any limits.
THEOREM FuturesInvariance == FuturesSpec => [](ClientInv /\ ServerInv)
<1>1. ClientInv /\ ServerInv /\ [FuturesNext]_futuresVars => (ClientInv /\ ServerInv)'
  <2> SUFFICES ASSUME ClientInv, ServerInv, [FuturesNext]_futuresVars
               PROVE  ClientInv' /\ ServerInv'
    OBVIOUS
  <2>1. CASE ClientStep
    BY <2>1, ClientStepKeeps, ServerStays DEF ClientStep
  <2>2. CASE ServerStep
    BY <2>2, ServerStepKeeps, ClientStays DEF ServerStep
  <2>3. CASE UNCHANGED futuresVars
    BY <2>3, ClientStays, ServerStays DEF futuresVars
  <2> QED BY <2>1, <2>2, <2>3 DEF FuturesNext
<1> QED BY FuturesStart, <1>1, PTL DEF FuturesSpec

\* Every variable of both ends has its type in every reachable state: the counter
\* of pending futures is never negative and never above maxPendingFutures.
THEOREM FuturesTypeCorrect == FuturesSpec => [](ClientTypeOK /\ Storage!TypeOK)
<1>1. ClientInv /\ ServerInv => ClientTypeOK /\ Storage!TypeOK
  BY DEF ClientInv, ServerInv
<1> QED BY FuturesInvariance, <1>1, PTL

\* A call in the Map of the client's resolver has not been settled and waits for
\* a result that is not cached, through cancel, abort, stream failure and
\* eviction; the cache and its queue agree and keep the limit.
THEOREM WaitingEntries == FuturesSpec => []EntriesAreWaiting
<1>1. ClientInv => EntriesAreWaiting
  <2> SUFFICES ASSUME ClientInv PROVE EntriesAreWaiting
    OBVIOUS
  <2>1. completedOrder \in Seq(Ids) /\ CacheWindow /\ EntriesWait
    BY DEF ClientInv, ClientTypeOK
  <2>2. Cardinality(Elems(completedOrder)) = Len(completedOrder)
    BY <2>1, QueueCardinality DEF CacheWindow
  <2> QED BY <2>1, <2>2 DEF EntriesAreWaiting, EntriesWait, CacheWindow
<1> QED BY FuturesInvariance, <1>1, PTL

\* pendingCount is the number of pending entries, keys and entries agree, and
\* the completion queue lists the completed entries within maxCompleted,
\* whatever order register, complete, discard, cancel and eviction come in.
THEOREM StorageIsExact == FuturesSpec => []StorageBookkeeping
<1>1. ServerInv => StorageBookkeeping
  <2> SUFFICES ASSUME ServerInv PROVE StorageBookkeeping
    OBVIOUS
  <2>1. retainedOrder \in Seq(Ids) /\ StorageWindow
    BY DEF ServerInv, Storage!TypeOK
  <2>2. Cardinality(Elems(retainedOrder)) = Len(retainedOrder)
    BY <2>1, QueueCardinality DEF StorageWindow
  <2>3. Storage!Cardinality(Storage!Elems(retainedOrder)) = Len(retainedOrder)
    BY <2>2, SameElems, SameCardinality
  <2>4. Storage!RetentionWindow
    BY <2>1, <2>3 DEF Storage!RetentionWindow, StorageWindow, Completed
  <2> QED BY <2>4 DEF ServerInv, StorageBookkeeping
<1> QED BY FuturesInvariance, <1>1, PTL

\* How often a result is in a queue that lists nothing twice.
LEMMA QueueCopies ==
    ASSUME NEW S, NEW q \in Seq(S), Distinct(q), NEW i \in S
    PROVE  Cardinality({n \in 1 .. Len(q) : q[n] = i}) = IF i \in Elems(q) THEN 1 ELSE 0
<1>1. CASE i \in Elems(q)
  <2>1. PICK n \in 1 .. Len(q) : q[n] = i
    BY <1>1 DEF Elems
  <2>2. {m \in 1 .. Len(q) : q[m] = i} = {n}
    BY <2>1 DEF Distinct
  <2> QED BY <1>1, <2>2, FS_Singleton
<1>2. CASE i \notin Elems(q)
  <2>1. {m \in 1 .. Len(q) : q[m] = i} = {}
    BY <1>2 DEF Elems
  <2> QED BY <1>2, <2>1, FS_EmptySet
<1> QED BY <1>1, <1>2

\* What completes while a resolve call is subscribed reaches it exactly once
\* unless its stream fails, a caller only gets results of its own futures, and a
\* filtered call that ends normally has yielded every id it asked for.
THEOREM ResolveCallsDeliver == FuturesSpec => []ResolveDelivers
<1>1. ServerInv => ResolveDelivers
  <2> SUFFICES ASSUME ServerInv PROVE ResolveDelivers
    OBVIOUS
  <2>1. ASSUME NEW s \in Subs, NEW i \in Ids
        PROVE  LET inSnapshot == IF i \in immediate[s] THEN 1 ELSE 0
                   inQueue == Storage!Cardinality({n \in 1 .. Len(queue[s]) : queue[s][n] = i})
                   copies == handed[s][i] + inSnapshot + inQueue
               IN  /\ copies <= 1
                   /\ /\ i \in owed[s] /\ reader[s] \notin {"errored", "cancelled"}
                      => copies = 1
    <3>1. queue[s] \in Seq(Ids) /\ handed[s][i] \in Nat /\ CallOK(s) /\ Distinct(queue[s])
      BY DEF ServerInv, Storage!TypeOK, CallOK, OnePlace
    <3>2. Storage!Cardinality({n \in 1 .. Len(queue[s]) : queue[s][n] = i})
             = IF InQueue(s, i) THEN 1 ELSE 0
      BY <3>1, QueueCopies, SameCardinality, SameElems DEF InQueue
    <3>3. /\ i \in immediate[s] => handed[s][i] = 0 /\ ~ InQueue(s, i)
          /\ InQueue(s, i) => handed[s][i] = 0
          /\ handed[s][i] <= 1
          /\ i \in owed[s] /\ reader[s] \notin {"errored", "cancelled"} => Reached(s, i)
      BY <3>1 DEF CallOK, OnePlace
    <3> QED BY <3>1, <3>2, <3>3 DEF Reached
  <2>2. Storage!NothingLostOrRepeated
    BY <2>1 DEF Storage!NothingLostOrRepeated
  <2>3. Storage!OwnerIsolation
    BY DEF ServerInv, CallOK, OwnResults, Reached, Storage!OwnerIsolation
  <2>4. Storage!DoneMeansAllResolved
    BY DEF ServerInv, Storage!TypeOK, CallOK, TargetsReached,
           Storage!DoneMeansAllResolved, Storage!Resolved
  <2> QED BY <2>2, <2>3, <2>4 DEF ResolveDelivers
<1> QED BY FuturesInvariance, <1>1, PTL
=============================================================================
