------------------------- MODULE BatchRoutersProofs -------------------------
(***************************************************************************)
(* Proofs about BatchRouters, for batches of any length, any maxBatchSize  *)
(* and any call ids: the Swift router with its layers (SwiftInv) and the   *)
(* TypeScript router with its walk along the dependencies (TsInv).         *)
(*                                                                         *)
(* What a recursive definition computes, and that dependencies cannot run  *)
(* in a circle, is proved by the least counterexample (LeastNatural of     *)
(* RecursionTheorems).                                                     *)
(***************************************************************************)
EXTENDS BatchRouters, FiniteSetTheorems, FunctionTheorems, RecursionTheorems, TLAPS

-----------------------------------------------------------------------------
(***************************************************************************)
(* What buildExecutionLayers computes for a valid batch.                   *)
(***************************************************************************)
BatchOK == calls \in Seq(Call)
AllValid == \A n \in Indices : CallValid(n)

\* A dependency is an earlier call of the batch.
LEMMA DependencyIsEarlier ==
    ASSUME BatchOK, AllValid, NEW n \in Indices, HasDependency(n)
    PROVE  /\ Dependency(n) \in Indices /\ Dependency(n) < n
           /\ calls[Dependency(n)].callId = calls[n].inputFrom
<1>1. \E m \in Indices : Refers(n, m)
  BY DEF AllValid, CallValid
<1>2. Dependency(n) \in Indices /\ Refers(n, Dependency(n))
  BY <1>1 DEF Dependency
<1> QED BY <1>2 DEF Refers

\* The equation the loop over the calls solves, for the first k of them.
DepthTo(k, f) ==
    /\ f \in [1 .. k -> Nat]
    /\ \A n \in 1 .. k : f[n] = IF HasDependency(n) THEN f[Dependency(n)] + 1 ELSE 0

\* callDepth has an entry for every call before the loop gets to a dependent:
\* the depths of a valid batch exist.
LEMMA DepthsExist ==
    ASSUME BatchOK, AllValid
    PROVE  \E f : DepthTo(Len(calls), f)
<1>0. Len(calls) \in Nat
  BY DEF BatchOK
<1> DEFINE T == {k \in 0 .. Len(calls) : ~ \E f : DepthTo(k, f)}
<1>1. SUFFICES T = {}
  BY <1>0
<1>2. SUFFICES ASSUME T # {} PROVE FALSE
  OBVIOUS
<1>3. PICK k \in T : \A j \in T : k <= j
  <2>1. T \subseteq Nat
    BY <1>0
  <2> HIDE DEF T
  <2> QED BY <1>2, <2>1, LeastNatural
<1>4. k \in 0 .. Len(calls) /\ ~ \E f : DepthTo(k, f)
  BY <1>3
<1>5. CASE k = 0
  <2>1. DepthTo(0, [n \in 1 .. 0 |-> 0])
    BY DEF DepthTo
  <2> QED BY <2>1, <1>4, <1>5
<1>6. CASE k > 0
  <2>1. k - 1 \in 0 .. Len(calls) /\ k \in Indices /\ k \in Nat
    BY <1>0, <1>4, <1>6 DEF Indices
  <2>2. k - 1 \notin T
    BY <1>3, <2>1
  <2>3. PICK g : DepthTo(k - 1, g)
    BY <2>1, <2>2
  <2> DEFINE v == IF HasDependency(k) THEN g[Dependency(k)] + 1 ELSE 0
  <2> DEFINE f == [n \in 1 .. k |-> IF n = k THEN v ELSE g[n]]
  <2>4. \A n \in 1 .. k : HasDependency(n) => Dependency(n) \in 1 .. n - 1
    <3> TAKE n \in 1 .. k
    <3>1. n \in Indices
      BY <1>0, <2>1 DEF Indices
    <3> HAVE HasDependency(n)
    <3> QED BY <1>0, <2>1, <3>1, DependencyIsEarlier DEF Indices
  <2>5. v \in Nat
    <3>1. CASE HasDependency(k)
      <4>1. Dependency(k) \in 1 .. k - 1
        BY <2>1, <2>4, <3>1
      <4>2. g[Dependency(k)] \in Nat
        BY <2>3, <4>1 DEF DepthTo
      <4> QED BY <3>1, <4>2
    <3> QED BY <3>1
  <2>6. f \in [1 .. k -> Nat]
    <3>1. \A n \in 1 .. k : n # k => g[n] \in Nat
      BY <2>1, <2>3 DEF DepthTo
    <3> QED BY <2>5, <3>1
  <2>7. ASSUME NEW n \in 1 .. k
        PROVE  f[n] = IF HasDependency(n) THEN f[Dependency(n)] + 1 ELSE 0
    <3>1. HasDependency(n) => f[Dependency(n)] = g[Dependency(n)]
      <4> HAVE HasDependency(n)
      <4>1. Dependency(n) \in 1 .. n - 1
        BY <2>4
      <4>2. Dependency(n) \in 1 .. k /\ Dependency(n) # k
        BY <2>1, <4>1
      <4> QED BY <4>2
    <3>2. CASE n = k
      BY <2>1, <3>1, <3>2
    <3>3. CASE n # k
      <4>1. n \in 1 .. k - 1
        BY <2>1, <3>3
      <4>2. f[n] = g[n]
        BY <3>3
      <4> HIDE DEF f
      <4> QED BY <2>3, <3>1, <4>1, <4>2 DEF DepthTo
    <3> QED BY <3>2, <3>3
  <2>8. DepthTo(k, f)
    <3> HIDE DEF f
    <3> QED BY <2>6, <2>7 DEF DepthTo
  <2> QED BY <1>4, <2>8
<1> QED BY <1>0, <1>4, <1>5, <1>6

\* So Depth is what its recursive definition says.
LEMMA DepthIs ==
    ASSUME BatchOK, AllValid
    PROVE  /\ Depth \in [Indices -> Nat]
           /\ \A n \in Indices :
                 Depth[n] = IF HasDependency(n) THEN Depth[Dependency(n)] + 1 ELSE 0
<1> DEFINE F(f) == [n \in Indices |-> IF HasDependency(n) THEN f[Dependency(n)] + 1 ELSE 0]
<1>1. PICK f : DepthTo(Len(calls), f)
  BY DepthsExist
<1>2. f = F(f)
  BY <1>1 DEF DepthTo, Indices
<1>3. Depth = CHOOSE d : d = F(d)
  BY DEF Depth
<1>4. Depth = F(Depth)
  <2> HIDE DEF F
  <2> QED BY <1>2, <1>3
<1>5. \A n \in Indices :
         Depth[n] = IF HasDependency(n) THEN Depth[Dependency(n)] + 1 ELSE 0
  BY <1>4
<1>6. \A n \in Indices : Depth[n] \in Nat
  <2> DEFINE T == {n \in Indices : Depth[n] \notin Nat}
  <2>1. SUFFICES ASSUME T # {} PROVE FALSE
    OBVIOUS
  <2>2. T \subseteq Nat
    BY DEF Indices, BatchOK
  <2>3. PICK n \in T : \A m \in T : n <= m
    <3> HIDE DEF T
    <3> QED BY <2>1, <2>2, LeastNatural
  <2>4. n \in Indices /\ Depth[n] \notin Nat /\ n \in Nat
    BY <2>2, <2>3
  <2>5. HasDependency(n) /\ Depth[n] = Depth[Dependency(n)] + 1
    BY <1>5, <2>4
  <2>6. Dependency(n) \in Indices /\ Dependency(n) < n /\ Dependency(n) \in Nat
    BY <2>4, <2>5, DependencyIsEarlier DEF Indices, BatchOK
  <2>7. Dependency(n) \notin T
    BY <2>3, <2>4, <2>6
  <2>8. Depth[Dependency(n)] \in Nat
    BY <2>6, <2>7
  <2> QED BY <2>4, <2>5, <2>8
<1>7. Depth \in [Indices -> Nat]
  <2>1. DOMAIN Depth = Indices /\ Depth = [n \in Indices |-> Depth[n]]
    BY <1>4
  <2> HIDE DEF F
  <2> QED BY <1>6, <2>1
<1> QED BY <1>5, <1>7

\* The layers have no gap: if the next one is empty, all calls are behind it.
LEMMA NoGap ==
    ASSUME BatchOK, AllValid, NEW d \in Nat, Layer(d) = {}
    PROVE  \A n \in Indices : Depth[n] < d
<1> DEFINE T == {n \in Indices : Depth[n] >= d}
<1>0. \A n \in Indices : Depth[n] \in Nat
  BY DepthIs
<1>1. SUFFICES ASSUME T # {} PROVE FALSE
  BY <1>0
<1>2. T \subseteq Nat
  BY DEF Indices, BatchOK
<1>3. PICK n \in T : \A m \in T : n <= m
  <2> HIDE DEF T
  <2> QED BY <1>1, <1>2, LeastNatural
<1>4. n \in Indices /\ Depth[n] \in Nat /\ Depth[n] > d /\ n \in Nat
  BY <1>0, <1>2, <1>3 DEF Layer
<1>5. HasDependency(n) /\ Depth[n] = Depth[Dependency(n)] + 1
  BY <1>4, DepthIs
<1>6. Dependency(n) \in Indices /\ Dependency(n) < n /\ Dependency(n) \in Nat
  BY <1>4, <1>5, DependencyIsEarlier DEF Indices, BatchOK
<1>7. Depth[Dependency(n)] \in Nat
  BY <1>0, <1>6
<1>8. Dependency(n) \in T
  BY <1>4, <1>5, <1>6, <1>7
<1> QED BY <1>3, <1>4, <1>6, <1>8

-----------------------------------------------------------------------------
(***************************************************************************)
(* The invariant of the Swift router.                                      *)
(***************************************************************************)

\* What may become of a call, given the outcome of its dependency.
Judged(n, o) ==
    HasDependency(n) =>
        IF outcome[Dependency(n)] = "success"
        THEN o # "dependency"
        ELSE n \notin executed /\ o \in {"dependency", "deadline"}

NothingRun ==
    /\ layer = 0 /\ running = {} /\ executed = {}
    /\ \A n \in Indices : outcome[n] = "none" /\ layerResult[n] = "none"

LayersBehind ==
    \A n \in Indices : Depth[n] < layer => outcome[n] # "none" /\ Judged(n, outcome[n])

LayersAhead ==
    \A n \in Indices :
        /\ Depth[n] >= layer => outcome[n] = "none"
        /\ Depth[n] > layer => layerResult[n] = "none" /\ n \notin executed

PresentLayer ==
    /\ \A n \in running : Depth[n] = layer /\ layerResult[n] = "none"
    /\ \A n \in Indices :
          Depth[n] = layer =>
              IF layerResult[n] = "none" THEN n \notin executed
                                         ELSE Judged(n, layerResult[n])

InLayers ==
    /\ Len(calls) <= MaxBatchSize /\ AllValid
    /\ LayersBehind /\ LayersAhead /\ PresentLayer

SwiftInv ==
    /\ BatchTypeOK
    /\ batchPc \in {"received", "rejected"} => NothingRun
    /\ batchPc \in {"running", "answered"} => InLayers
    /\ batchPc = "answered" => Layer(layer) = {}

-----------------------------------------------------------------------------
(***************************************************************************)
(* The invariant of the TypeScript router.                                 *)
(***************************************************************************)
NoRepeats(s) == \A m, n \in 1 .. Len(s) : s[m] = s[n] => m = n

DependenciesFirst ==
    \A n \in 1 .. Len(order) :
        Ts!InputFrom(order[n]) >= 0 =>
            \E m \in 1 .. n - 1 : order[m] = Ts!InputFrom(order[n])

\* The chain from the start of the walk: each call is the dependency of the
\* one before, and none of them is ordered yet.
Chain ==
    /\ path \in Seq(Ts!Known) /\ id \in Ts!Known /\ NoRepeats(path)
    /\ \A n \in 1 .. Len(path) : path[n] \notin Ts!Elems(order)
    /\ \A n \in 1 .. Len(path) - 1 :
          Ts!InputFrom(path[n]) >= 0 /\ Ts!InputFrom(path[n]) = path[n + 1]
    /\ path # <<>> =>
          IF tsPc = "walking"
          THEN Ts!InputFrom(path[Len(path)]) >= 0 /\ Ts!InputFrom(path[Len(path)]) = id
          ELSE Ts!InputFrom(path[Len(path)]) < 0

Ordering ==
    /\ order \in Seq(Ts!Known) /\ NoRepeats(order) /\ DependenciesFirst
    /\ tsPc \notin {"received", "rejected"} => Ts!WellFormed
    /\ tsPc \in {"walking", "unwinding"} => Chain
    /\ tsPc = "rejected" => ~ Ts!Valid
    /\ tsPc \in {"started", "answered"} => Ts!Known \subseteq Ts!Elems(order)

\* Promises resolve after those of their dependencies, and once.
Promises ==
    /\ \A c \in Ts!Known : tsOutcome[c] # "none" /\ Ts!InputFrom(c) >= 0
                             => tsOutcome[Ts!InputFrom(c)] # "none"
    /\ \A c \in tsExecuted : tsOutcome[c] # "none"
    /\ Ts!DependencyDecides

TsInv == Ts!TypeOK /\ Ordering /\ Promises

-----------------------------------------------------------------------------
(***************************************************************************)
(* The steps of the Swift router.                                          *)
(***************************************************************************)
USE BatchLayersAssumption

\* The batch does not change, and with it what was computed from it.
LEMMA SameBatch ==
    ASSUME calls' = calls
    PROVE  /\ Depth' = Depth /\ Indices' = Indices /\ AllValid' = AllValid
           /\ \A n : HasDependency(n)' = HasDependency(n)
           /\ \A n : Dependency(n)' = Dependency(n)
           /\ \A d : (Layer(d))' = Layer(d)
BY DEF Depth, Indices, AllValid, CallValid, HasDependency, Dependency, Refers, Layer

LEMMA SwiftInit == BatchInit => SwiftInv
<1> SUFFICES ASSUME BatchInit PROVE SwiftInv
  OBVIOUS
<1>1. PICK k \in 0 .. MaxCalls : calls \in [1 .. k -> Call]
  BY DEF BatchInit
<1>2. k \in Nat /\ calls \in Seq(Call)
  BY <1>1
<1>3. BatchTypeOK
  BY <1>2 DEF BatchInit, BatchTypeOK, Outcomes
<1>4. NothingRun
  BY DEF BatchInit, NothingRun
<1> QED BY <1>3, <1>4 DEF BatchInit, SwiftInv

LEMMA AcceptKeeps ==
    ASSUME SwiftInv, Accept
    PROVE  SwiftInv'
<1> USE SameBatch DEF Accept
<1>1. BatchOK /\ AllValid /\ NothingRun
  BY DEF SwiftInv, BatchTypeOK, BatchOK, AllValid
<1>2. \A n \in Indices : Depth[n] \in Nat
  BY <1>1, DepthIs
<1>3. BatchTypeOK'
  BY DEF SwiftInv, BatchTypeOK, Indices
<1>4. LayersBehind'
  BY <1>1, <1>2 DEF LayersBehind, NothingRun
<1>5. LayersAhead' /\ PresentLayer'
  BY <1>1, <1>2 DEF LayersAhead, PresentLayer, NothingRun
<1> QED BY <1>1, <1>3, <1>4, <1>5 DEF SwiftInv, InLayers

LEMMA RejectKeeps ==
    ASSUME SwiftInv, Reject
    PROVE  SwiftInv'
BY DEF Reject, SwiftInv, BatchTypeOK, NothingRun, Indices

\* What every step inside the layers starts from.
LEMMA LayerFacts ==
    ASSUME SwiftInv, batchPc \in {"running", "answered"}
    PROVE  /\ BatchOK /\ AllValid /\ InLayers /\ BatchTypeOK
           /\ Depth \in [Indices -> Nat] /\ layer \in Nat
           /\ \A n \in Indices : HasDependency(n) =>
                 /\ Dependency(n) \in Indices /\ Dependency(n) # n
                 /\ Depth[n] = Depth[Dependency(n)] + 1
<1>1. BatchOK /\ AllValid /\ InLayers /\ BatchTypeOK
  BY DEF SwiftInv, BatchTypeOK, BatchOK, InLayers
<1>2. Depth \in [Indices -> Nat] /\ layer \in Nat
  BY <1>1, DepthIs DEF BatchTypeOK
<1>3. ASSUME NEW n \in Indices, HasDependency(n)
      PROVE  /\ Dependency(n) \in Indices /\ Dependency(n) # n
             /\ Depth[n] = Depth[Dependency(n)] + 1
  BY <1>1, <1>3, DepthIs, DependencyIsEarlier DEF Indices, BatchOK
<1> QED BY <1>1, <1>2, <1>3

\* A layer ends, skipped or merged: its calls get outcomes that fit those of
\* their dependencies, which are behind, and all others keep theirs.
LEMMA LayerEnds ==
    ASSUME SwiftInv, batchPc = "running", running = {},
           UNCHANGED <<calls, batchPc, running, layerResult, executed>>,
           isPast' \in BOOLEAN, layer' = layer + 1,
           outcome' \in [Indices -> Outcomes],
           \A n \in Indices : Depth[n] # layer => outcome'[n] = outcome[n],
           \A n \in Indices : Depth[n] = layer =>
               outcome'[n] # "none" /\ Judged(n, outcome'[n])
    PROVE  SwiftInv'
<1>0. /\ BatchOK /\ AllValid /\ InLayers /\ BatchTypeOK
      /\ Depth \in [Indices -> Nat] /\ layer \in Nat
      /\ \A n \in Indices : HasDependency(n) =>
            /\ Dependency(n) \in Indices /\ Dependency(n) # n
            /\ Depth[n] = Depth[Dependency(n)] + 1
  BY LayerFacts
<1>a. /\ Depth' = Depth /\ Indices' = Indices /\ AllValid' = AllValid
      /\ \A n : HasDependency(n)' = HasDependency(n)
      /\ \A n : Dependency(n)' = Dependency(n)
      /\ \A d : (Layer(d))' = Layer(d)
  BY SameBatch
<1>1. BatchTypeOK'
  BY <1>0 DEF BatchTypeOK, Indices
<1>2. ASSUME NEW n \in Indices, Depth[n] < layer + 1
      PROVE  outcome'[n] # "none" /\ Judged(n, outcome[n])'
  <2>1. HasDependency(n) => outcome'[Dependency(n)] = outcome[Dependency(n)]
    BY <1>0, <1>2
  <2>2. outcome'[n] # "none" /\ Judged(n, outcome'[n])
    <3>1. CASE Depth[n] = layer
      BY <3>1
    <3>2. CASE Depth[n] # layer
      BY <1>0, <1>2, <3>2 DEF InLayers, LayersBehind
    <3> QED BY <3>1, <3>2
  <2> QED BY <1>a, <2>1, <2>2 DEF Judged
<1>3. LayersBehind'
  BY <1>a, <1>2 DEF LayersBehind
<1>4. LayersAhead'
  BY <1>0, <1>a DEF LayersAhead, InLayers
<1>5. PresentLayer'
  BY <1>0, <1>a DEF PresentLayer, LayersAhead, InLayers
<1> QED BY <1>0, <1>a, <1>1, <1>3, <1>4, <1>5 DEF SwiftInv, InLayers

LEMMA SkipLayerKeeps ==
    ASSUME SwiftInv, SkipLayer
    PROVE  SwiftInv'
<1>0. InLayers /\ BatchTypeOK /\ Depth \in [Indices -> Nat] /\ layer \in Nat
  BY LayerFacts DEF SkipLayer, AtLayer
<1>1. \A n \in Indices : Depth[n] # layer => outcome'[n] = outcome[n]
  BY DEF SkipLayer, Layer
<1>2. \A n \in Indices : Depth[n] = layer => outcome'[n] = "deadline" /\ n \notin executed
  BY <1>0 DEF SkipLayer, AtLayer, Layer, InLayers, LayersAhead, PresentLayer
<1>3. outcome' \in [Indices -> Outcomes]
  BY <1>0 DEF SkipLayer, BatchTypeOK, Outcomes
<1>4. isPast' \in BOOLEAN
  BY <1>0 DEF SkipLayer, BatchTypeOK
<1>5. \A n \in Indices : Depth[n] = layer => outcome'[n] # "none" /\ Judged(n, outcome'[n])
  BY <1>2 DEF Judged
<1> QED BY <1>1, <1>3, <1>4, <1>5, LayerEnds DEF SkipLayer, AtLayer

LEMMA MergeLayerKeeps ==
    ASSUME SwiftInv, MergeLayer
    PROVE  SwiftInv'
<1>0. InLayers /\ BatchTypeOK /\ Depth \in [Indices -> Nat] /\ layer \in Nat
  BY LayerFacts DEF MergeLayer
<1>1. \A n \in Indices : Depth[n] # layer => outcome'[n] = outcome[n]
  BY DEF MergeLayer, Layer
<1>2. \A n \in Indices : Depth[n] = layer =>
         outcome'[n] = layerResult[n] /\ layerResult[n] # "none"
  BY DEF MergeLayer, Layer
<1>3. outcome' \in [Indices -> Outcomes]
  BY <1>0 DEF MergeLayer, BatchTypeOK
<1>4. isPast' \in BOOLEAN
  BY <1>0 DEF MergeLayer, BatchTypeOK
<1>5. \A n \in Indices : Depth[n] = layer => outcome'[n] # "none" /\ Judged(n, outcome'[n])
  BY <1>0, <1>2 DEF InLayers, PresentLayer
<1> QED BY <1>1, <1>3, <1>4, <1>5, LayerEnds DEF MergeLayer

LEMMA StartLayerKeeps ==
    ASSUME SwiftInv, StartLayer
    PROVE  SwiftInv'
<1>0. InLayers /\ BatchTypeOK
  BY LayerFacts DEF StartLayer, AtLayer
<1>a. /\ Depth' = Depth /\ Indices' = Indices /\ AllValid' = AllValid
      /\ \A n : HasDependency(n)' = HasDependency(n)
      /\ \A n : Dependency(n)' = Dependency(n)
  BY SameBatch DEF StartLayer
<1>1. BatchTypeOK'
  BY <1>0 DEF StartLayer, BatchTypeOK, Layer, Indices
<1>2. LayersBehind' /\ LayersAhead'
  BY <1>0, <1>a DEF StartLayer, InLayers, LayersBehind, LayersAhead, Judged
<1>3. PresentLayer'
  <2>1. \A n \in running' : Depth[n] = layer /\ layerResult[n] = "none"
    BY DEF StartLayer, AtLayer, Layer
  <2> QED BY <1>0, <1>a, <2>1 DEF StartLayer, InLayers, PresentLayer, Judged
<1> QED BY <1>0, <1>a, <1>1, <1>2, <1>3 DEF StartLayer, AtLayer, SwiftInv, InLayers

LEMMA EndCallKeeps ==
    ASSUME SwiftInv, NEW n \in Indices, EndCall(n), batchPc = "running"
    PROVE  SwiftInv'
<1>0. /\ InLayers /\ BatchTypeOK /\ AllValid
      /\ Depth \in [Indices -> Nat] /\ layer \in Nat
      /\ \A k \in Indices : HasDependency(k) =>
            /\ Dependency(k) \in Indices /\ Dependency(k) # k
            /\ Depth[k] = Depth[Dependency(k)] + 1
  BY LayerFacts
<1>a. /\ Depth' = Depth /\ Indices' = Indices /\ AllValid' = AllValid
      /\ \A k : HasDependency(k)' = HasDependency(k)
      /\ \A k : Dependency(k)' = Dependency(k)
  BY SameBatch DEF EndCall
<1>1. PICK o \in Outcomes :
         /\ IF Invokes(n) THEN o \in {"success", "empty", "error"} ELSE o = "dependency"
         /\ layerResult' = [layerResult EXCEPT ![n] = o]
  BY DEF EndCall
<1>2. /\ n \in running /\ running' = running \ {n} /\ UNCHANGED <<calls, batchPc, layer, outcome, isPast>>
      /\ executed' = IF Invokes(n) THEN executed \cup {n} ELSE executed
  BY DEF EndCall
<1>3. Depth[n] = layer /\ layerResult[n] = "none" /\ n \notin executed
  BY <1>0, <1>2 DEF InLayers, PresentLayer
<1>4. /\ layerResult'[n] = o /\ o # "none"
      /\ \A k \in Indices : k # n => layerResult'[k] = layerResult[k]
      /\ \A k \in Indices : k # n => (k \in executed' <=> k \in executed)
  BY <1>0, <1>1, <1>2 DEF BatchTypeOK
<1>5. BatchTypeOK'
  <2>1. layerResult' \in [Indices -> Outcomes] /\ executed' \in SUBSET Indices
    BY <1>0, <1>1, <1>2 DEF BatchTypeOK
  <2> QED BY <1>0, <1>2, <1>a, <2>1 DEF BatchTypeOK
<1>6. \A k \in Indices : k # n => \A p : Judged(k, p) => Judged(k, p)'
  BY <1>2, <1>4, <1>a DEF Judged
<1>7. ASSUME HasDependency(n)
      PROVE  IF outcome[Dependency(n)] = "success" THEN o # "dependency"
             ELSE n \notin executed' /\ o = "dependency"
  BY <1>1, <1>2, <1>3, <1>7 DEF Invokes
<1>8. Judged(n, layerResult[n])'
  BY <1>2, <1>4, <1>7, <1>a DEF Judged
<1>9. LayersBehind'
  <2>1. ASSUME NEW k \in Indices, Depth[k] < layer
        PROVE  outcome'[k] # "none" /\ Judged(k, outcome[k])'
    <3>1. k # n
      BY <1>0, <1>3, <2>1
    <3>2. outcome[k] # "none" /\ Judged(k, outcome[k])
      BY <1>0, <2>1 DEF InLayers, LayersBehind
    <3> QED BY <1>2, <1>4, <1>a, <3>1, <3>2 DEF Judged
  <2> QED BY <1>2, <1>a, <2>1 DEF LayersBehind
<1>10. LayersAhead'
  BY <1>0, <1>2, <1>3, <1>4, <1>a DEF InLayers, LayersAhead
<1>11. PresentLayer'
  <2>1. \A k \in running' : Depth[k] = layer /\ layerResult'[k] = "none"
    BY <1>0, <1>2, <1>4 DEF InLayers, PresentLayer, BatchTypeOK
  <2>2. ASSUME NEW k \in Indices, Depth[k] = layer
        PROVE  IF layerResult'[k] = "none" THEN k \notin executed'
                                           ELSE Judged(k, layerResult[k])'
    <3>1. CASE k = n
      BY <1>4, <1>8, <3>1
    <3>2. CASE k # n
      <4>1. IF layerResult[k] = "none" THEN k \notin executed ELSE Judged(k, layerResult[k])
        BY <1>0, <2>2 DEF InLayers, PresentLayer
      <4> QED BY <1>2, <1>4, <1>a, <3>2, <4>1 DEF Judged
    <3> QED BY <3>1, <3>2
  <2> QED BY <1>2, <1>a, <2>1, <2>2 DEF PresentLayer
<1> QED BY <1>0, <1>2, <1>a, <1>5, <1>9, <1>10, <1>11 DEF SwiftInv, InLayers

LEMMA AnswerKeeps ==
    ASSUME SwiftInv, Answer
    PROVE  SwiftInv'
<1>0. InLayers /\ BatchTypeOK
  BY LayerFacts DEF Answer
<1>a. /\ Depth' = Depth /\ Indices' = Indices /\ AllValid' = AllValid
      /\ \A k : HasDependency(k)' = HasDependency(k)
      /\ \A k : Dependency(k)' = Dependency(k)
      /\ \A d : (Layer(d))' = Layer(d)
  BY SameBatch DEF Answer
<1>1. BatchTypeOK'
  BY <1>0, <1>a DEF Answer, BatchTypeOK
<1>2. InLayers'
  BY <1>0, <1>a DEF Answer, InLayers, LayersBehind, LayersAhead, PresentLayer, Judged
<1> QED BY <1>a, <1>1, <1>2 DEF Answer, SwiftInv

\* The deadline, and the steps of the other router.
LEMMA OthersKeep ==
    ASSUME SwiftInv, isPast' \in BOOLEAN,
           UNCHANGED <<calls, batchPc, layer, running, outcome, layerResult, executed>>
    PROVE  SwiftInv'
<1>a. /\ Depth' = Depth /\ Indices' = Indices /\ AllValid' = AllValid
      /\ \A k : HasDependency(k)' = HasDependency(k)
      /\ \A k : Dependency(k)' = Dependency(k)
      /\ \A d : (Layer(d))' = Layer(d)
  BY SameBatch
<1>1. BatchTypeOK'
  BY <1>a DEF SwiftInv, BatchTypeOK
<1>2. batchPc' \in {"received", "rejected"} => NothingRun'
  BY <1>a DEF SwiftInv, NothingRun
<1>3. batchPc' \in {"running", "answered"} => InLayers'
  BY <1>a DEF SwiftInv, InLayers, LayersBehind, LayersAhead, PresentLayer, Judged
<1>4. batchPc' = "answered" => (Layer(layer) = {})'
  BY <1>a DEF SwiftInv
<1> QED BY <1>1, <1>2, <1>3, <1>4 DEF SwiftInv

LEMMA SwiftKeeps ==
    ASSUME SwiftInv, BatchNext
    PROVE  SwiftInv'
<1>1. ASSUME NEW n \in Indices, EndCall(n)
      PROVE  SwiftInv'
  <2>1. batchPc = "running"
    <3>1. n \in running /\ batchPc \in {"received", "running", "rejected", "answered"}
      BY <1>1 DEF EndCall, SwiftInv, BatchTypeOK
    <3>2. batchPc # "answered"
      <4>1. ASSUME batchPc = "answered" PROVE Depth[n] = layer /\ Layer(layer) = {}
        BY <3>1, <4>1 DEF SwiftInv, InLayers, PresentLayer
      <4> QED BY <4>1 DEF Layer
    <3> QED BY <3>1, <3>2 DEF SwiftInv, NothingRun
  <2> QED BY <1>1, <2>1, EndCallKeeps
<1>2. CASE DeadlinePasses
  BY <1>2, OthersKeep DEF DeadlinePasses
<1> QED BY <1>1, <1>2, AcceptKeeps, RejectKeeps, SkipLayerKeeps, StartLayerKeeps,
           MergeLayerKeeps, AnswerKeeps DEF BatchNext

-----------------------------------------------------------------------------
(***************************************************************************)
(* The graph of the TypeScript router.                                     *)
(***************************************************************************)

\* The batch does not change, and with it what was computed from it.
LEMMA SameGraph ==
    ASSUME calls' = calls
    PROVE  /\ Ts!Known' = Ts!Known /\ Ts!WellFormed' = Ts!WellFormed
           /\ Ts!Valid' = Ts!Valid
           /\ \A c : Ts!InputFrom(c)' = Ts!InputFrom(c)
BY DEF Ts!Known, Ts!WellFormed, Ts!Valid, Ts!InputFrom, Ts!Indices, Ts!HasCycle, Ts!Closed

LEMMA GraphFacts ==
    ASSUME BatchOK
    PROVE  /\ Ts!Known \subseteq CallIds /\ CallIds \subseteq Int
           /\ \A c \in Ts!Known : Ts!InputFrom(c) \in CallIds
<1>1. \A n \in Ts!Indices : calls[n] \in Call
  BY DEF BatchOK, Ts!Indices
<1>2. \A n \in Ts!Indices : calls[n].callId \in CallIds /\ calls[n].inputFrom \in CallIds
  BY <1>1 DEF Call
<1>3. ASSUME NEW c \in Ts!Known PROVE Ts!InputFrom(c) \in CallIds
  <2>1. \E n \in Ts!Indices : calls[n].callId = c
    BY DEF Ts!Known
  <2>2. (CHOOSE n \in Ts!Indices : calls[n].callId = c) \in Ts!Indices
    BY <2>1
  <2> QED BY <1>2, <2>2 DEF Ts!InputFrom
<1> QED BY <1>2, <1>3 DEF Ts!Known

\* FiniteSets, which the module of the router extends, means the same there.
LEMMA SameCardinality == \A S : Ts!Cardinality(S) = Cardinality(S)
  BY DEF Ts!Cardinality, Cardinality

\* A sequence without repetitions has as many elements as places.
LEMMA PlacesAndElements ==
    ASSUME NEW S, NEW q \in Seq(S), NoRepeats(q)
    PROVE  Cardinality(Ts!Elems(q)) = Len(q)
<1> DEFINE D == 1 .. Len(q)
           f == [n \in D |-> q[n]]
<1>1. f \in [D -> Ts!Elems(q)] /\ \A t \in Ts!Elems(q) : \E n \in D : f[n] = t
  BY DEF Ts!Elems
<1>2. \A m, n \in D : f[m] = f[n] => m = n
  BY DEF NoRepeats
<1>3. IsFiniteSet(D) /\ Cardinality(D) = Len(q)
  <2>1. Len(q) \in Nat /\ (IF 1 > Len(q) THEN 0 ELSE Len(q) - 1 + 1) = Len(q)
    OBVIOUS
  <2> QED BY <2>1, FS_Interval, SMTT(30)
<1> HIDE DEF D, f
<1>4. f \in Surjection(D, Ts!Elems(q)) /\ f \in Injection(D, Ts!Elems(q))
  BY <1>1, <1>2, Fun_IsSurj, Fun_IsInj
<1> QED BY <1>3, <1>4, FS_Surjection

\* An order that has every call, dependencies first, shows the batch valid:
\* the first call of a cycle in the order would have a later dependency.
LEMMA OrderedIsValid ==
    ASSUME BatchOK, Ts!WellFormed, order \in Seq(Ts!Known), NoRepeats(order),
           DependenciesFirst, Ts!Known \subseteq Ts!Elems(order)
    PROVE  Ts!Valid /\ Ts!Elems(order) = Ts!Known /\ Len(order) = Len(calls)
<1>1. Ts!Elems(order) = Ts!Known
  BY DEF Ts!Elems
<1>2. Len(order) = Len(calls)
  BY <1>1, PlacesAndElements, SameCardinality DEF Ts!WellFormed
<1>3. ASSUME NEW c \in Ts!Known, Ts!InputFrom(c) >= 0
      PROVE  Ts!InputFrom(c) \in Ts!Known
  <2>1. PICK n \in 1 .. Len(order) : order[n] = c
    BY <1>1 DEF Ts!Elems
  <2>2. PICK m \in 1 .. n - 1 : order[m] = Ts!InputFrom(c)
    BY <1>3, <2>1 DEF DependenciesFirst
  <2>3. m \in 1 .. Len(order)
    OBVIOUS
  <2> QED BY <2>2, <2>3
<1>4. ASSUME NEW S \in SUBSET Ts!Known, S # {}, Ts!Closed(S)
      PROVE  FALSE
  <2> DEFINE T == {n \in 1 .. Len(order) : order[n] \in S}
  <2>1. T # {} /\ T \subseteq Nat
    BY <1>1, <1>4, SMTT(30) DEF Ts!Elems
  <2>2. PICK n \in T : \A m \in T : n <= m
    <3> HIDE DEF T
    <3> QED BY <2>1, LeastNatural
  <2>3. n \in 1 .. Len(order) /\ Ts!InputFrom(order[n]) >= 0 /\ Ts!InputFrom(order[n]) \in S
    BY <1>4, <2>2 DEF Ts!Closed
  <2>4. PICK m \in 1 .. n - 1 : order[m] = Ts!InputFrom(order[n])
    BY <2>3 DEF DependenciesFirst
  <2>5. m \in T /\ m < n
    BY <2>3, <2>4
  <2> QED BY <2>2, <2>3, <2>5
<1>5. Ts!Valid
  BY <1>3, <1>4 DEF Ts!Valid, Ts!HasCycle
<1> QED BY <1>1, <1>2, <1>5

\* A batch that passes the checks of buildExecutionLayers is valid there too:
\* the call with the least call_id of a cycle would have a smaller dependency.
LEMMA SwiftIsValid ==
    ASSUME BatchOK, AllValid, Len(calls) <= MaxBatchSize
    PROVE  Ts!Valid
<1> DEFINE q == [n \in 1 .. Len(calls) |-> calls[n].callId]
<1>0. \A n \in Indices : calls[n].callId \in CallIds /\ calls[n].inputFrom \in CallIds
  <2>1. \A n \in Indices : calls[n] \in Call
    BY DEF BatchOK, Indices
  <2> QED BY <2>1 DEF Call
<1>1. \A m, n \in Indices : calls[m].callId = calls[n].callId => m = n
  <2>1. \A m, n \in Indices : m < n => calls[m].callId # calls[n].callId
    <3> TAKE m, n \in Indices
    <3> HAVE m < n
    <3>1. m \in 1 .. n - 1
      BY DEF Indices, BatchOK
    <3> QED BY <3>1 DEF AllValid, CallValid
  <2> QED BY <2>1 DEF Indices, BatchOK
<1>2. Ts!WellFormed
  <2>1. q \in Seq(CallIds) /\ Len(q) = Len(calls)
    BY <1>0 DEF BatchOK, Indices
  <2>2. NoRepeats(q)
    BY <1>1, <2>1 DEF NoRepeats, Indices
  <2>3. Ts!Elems(q) = Ts!Known
    BY <2>1 DEF Ts!Elems, Ts!Known, Ts!Indices
  <2> HIDE DEF q
  <2> QED BY <2>1, <2>2, <2>3, PlacesAndElements, SameCardinality DEF Ts!WellFormed
<1>3. ASSUME NEW c \in Ts!Known
      PROVE  /\ c \in Nat
             /\ Ts!InputFrom(c) >= 0 => Ts!InputFrom(c) < c /\ Ts!InputFrom(c) \in Ts!Known
  <2>1. PICK n \in Indices : calls[n].callId = c
    BY DEF Ts!Known, Ts!Indices, Indices
  <2>2. (CHOOSE k \in Ts!Indices : calls[k].callId = c) = n
    BY <1>1, <2>1 DEF Ts!Indices, Indices
  <2>3. Ts!InputFrom(c) = calls[n].inputFrom
    BY <2>2 DEF Ts!InputFrom
  <2>4. c \in Nat
    <3>1. calls[n].callId >= 0
      BY DEF AllValid, CallValid
    <3>2. c \in Int
      BY <1>0, <2>1
    <3> QED BY <2>1, <3>1, <3>2
  <2>5. ASSUME Ts!InputFrom(c) >= 0
        PROVE  Ts!InputFrom(c) < c /\ Ts!InputFrom(c) \in Ts!Known
    <3>1. calls[n].inputFrom < calls[n].callId /\ \E m \in Indices : Refers(n, m)
      BY <2>3, <2>5 DEF AllValid, CallValid, HasDependency
    <3> QED BY <2>1, <2>3, <3>1 DEF Refers, Ts!Known, Ts!Indices, Indices
  <2> QED BY <2>4, <2>5
<1>4. ASSUME NEW S \in SUBSET Ts!Known, S # {}, Ts!Closed(S)
      PROVE  FALSE
  <2>1. PICK c \in S : \A d \in S : c <= d
    BY <1>3, <1>4, LeastNatural
  <2>2. c \in Nat /\ Ts!InputFrom(c) \in S /\ Ts!InputFrom(c) < c
    BY <1>3, <1>4 DEF Ts!Closed
  <2>3. Ts!InputFrom(c) \in Nat /\ c <= Ts!InputFrom(c)
    BY <1>3, <2>1, <2>2
  <2> QED BY <2>2, <2>3
<1> QED BY <1>2, <1>3, <1>4 DEF Ts!Valid, Ts!HasCycle

-----------------------------------------------------------------------------
(***************************************************************************)
(* The steps of the TypeScript router.                                     *)
(***************************************************************************)
USE BatchRoutersAssumption

LEMMA WiderSeq ==
    ASSUME NEW S, NEW T, S \subseteq T, NEW q \in Seq(S)
    PROVE  q \in Seq(T)
<1>1. Len(q) \in Nat /\ q \in [1 .. Len(q) -> S]
  OBVIOUS
<1>2. q \in [1 .. Len(q) -> T]
  BY <1>1
<1> QED BY <1>1, <1>2

LEMMA TsInit == ASSUME Ts!Init PROVE TsInv
<1>1. PICK k \in 0 .. MaxCalls : calls \in [1 .. k -> Ts!Call]
  BY DEF Ts!Init
<1>2. k \in Nat /\ calls \in Seq(Ts!Call)
  BY <1>1
<1>3. Ts!TypeOK
  BY <1>2 DEF Ts!Init, Ts!TypeOK, Ts!Outcomes, Ts!ConstantsOK
<1>4. Ordering
  BY DEF Ts!Init, Ordering, NoRepeats, DependenciesFirst
<1>5. Ts!Known \subseteq CallIds
  <2>1. BatchOK
    BY <1>2 DEF BatchOK, Call, Ts!Call
  <2> QED BY <2>1, GraphFacts
<1>6. Promises
  BY <1>5 DEF Ts!Init, Promises, Ts!DependencyDecides
<1> QED BY <1>3, <1>4, <1>6 DEF TsInv

LEMMA TsFacts ==
    ASSUME TsInv
    PROVE  /\ BatchOK /\ Ts!Known \subseteq CallIds /\ CallIds \subseteq Int
           /\ \A c \in Ts!Known : Ts!InputFrom(c) \in CallIds
           /\ order \in Seq(Ts!Known)
<1>1. BatchOK
  BY DEF TsInv, Ts!TypeOK, BatchOK, Call, Ts!Call
<1> QED BY <1>1, GraphFacts DEF TsInv, Ordering

\* A step before the calls are started leaves the promises alone.
LEMMA PromisesStay ==
    ASSUME TsInv, UNCHANGED <<calls, tsOutcome, tsExecuted>>
    PROVE  Promises'
BY SameGraph DEF TsInv, Promises, Ts!DependencyDecides

\* A step that leaves the order alone.
LEMMA OrderStays ==
    ASSUME TsInv, UNCHANGED <<calls, order>>
    PROVE  (order \in Seq(Ts!Known) /\ NoRepeats(order) /\ DependenciesFirst)'
BY SameGraph DEF TsInv, Ordering, NoRepeats, DependenciesFirst

LEMMA ReceiveKeeps ==
    ASSUME TsInv, Ts!Receive
    PROVE  TsInv'
<1>1. Ts!TypeOK'
  BY DEF TsInv, Ts!TypeOK, Ts!Receive, Ts!Call
<1>2. Promises' /\ (order \in Seq(Ts!Known) /\ NoRepeats(order) /\ DependenciesFirst)'
  BY PromisesStay, OrderStays DEF Ts!Receive
<1>3. tsPc' = "rejected" => ~ Ts!Valid'
  BY SameGraph DEF Ts!Receive, Ts!Valid
<1>4. tsPc' \notin {"received", "rejected"} => Ts!WellFormed'
  BY SameGraph DEF Ts!Receive
<1> QED BY <1>1, <1>2, <1>3, <1>4 DEF TsInv, Ordering, Ts!Receive

LEMMA PickStartKeeps ==
    ASSUME TsInv, Ts!PickStart
    PROVE  TsInv'
<1>0. calls' = calls /\ tsPc = "ordering" /\ tsPc' = "walking" /\ path' = <<>>
  BY DEF Ts!PickStart
<1>1. id' \in Ts!Known
  BY DEF Ts!PickStart, Ts!Known
<1>2. Ts!TypeOK'
  BY <1>0, <1>1, TsFacts DEF TsInv, Ts!TypeOK, Ts!PickStart, Ts!Call
<1>3. Promises' /\ (order \in Seq(Ts!Known) /\ NoRepeats(order) /\ DependenciesFirst)'
  BY PromisesStay, OrderStays DEF Ts!PickStart
<1>4. Chain'
  BY <1>0, <1>1, SameGraph DEF Chain, NoRepeats
<1>5. Ts!WellFormed'
  BY <1>0, SameGraph DEF TsInv, Ordering
<1> QED BY <1>0, <1>2, <1>3, <1>4, <1>5 DEF TsInv, Ordering

LEMMA PushKeeps ==
    ASSUME TsInv, Ts!Push
    PROVE  TsInv'
<1>0. /\ calls' = calls /\ tsPc = "walking" /\ path' = Append(path, id)
      /\ order' = order /\ id \notin Ts!Elems(order) /\ id \notin Ts!Elems(path)
  BY DEF Ts!Push
<1>1. Chain /\ Ts!WellFormed
  BY <1>0 DEF TsInv, Ordering
<1>a. /\ Ts!Known' = Ts!Known /\ Ts!WellFormed' = Ts!WellFormed /\ Ts!Valid' = Ts!Valid
      /\ \A c : Ts!InputFrom(c)' = Ts!InputFrom(c)
  BY <1>0, SameGraph
<1>2. /\ path \in Seq(Ts!Known) /\ id \in Ts!Known /\ Len(path) \in Nat
      /\ path' \in Seq(Ts!Known) /\ Len(path') = Len(path) + 1
      /\ path'[Len(path) + 1] = id /\ path' # <<>>
      /\ \A n \in 1 .. Len(path) : path'[n] = path[n]
  BY <1>0, <1>1 DEF Chain
<1>b. /\ Ts!Known \subseteq CallIds /\ CallIds \subseteq Int
      /\ Ts!InputFrom(id) \in CallIds
  BY <1>2, TsFacts
<1>3. \/ Ts!InputFrom(id) < 0 /\ tsPc' = "unwinding" /\ id' = id
      \/ Ts!InputFrom(id) >= 0 /\ Ts!InputFrom(id) \in Ts!Known
         /\ id' = Ts!InputFrom(id) /\ tsPc' = "walking"
      \/ Ts!InputFrom(id) >= 0 /\ Ts!InputFrom(id) \notin Ts!Known
         /\ tsPc' = "rejected" /\ id' = id
  BY <1>0 DEF Ts!Push
<1>4. Ts!TypeOK'
  <2>1. path' \in Seq(CallIds)
    <3>1. path' \in Seq(Ts!Known) /\ Ts!Known \subseteq CallIds
      BY <1>2, <1>b
    <3> QED BY <3>1, WiderSeq
  <2>2. id' \in CallIds
    BY <1>2, <1>3, <1>b
  <2>3. tsPc' \in {"walking", "unwinding", "rejected"}
    BY <1>3
  <2> QED BY <2>1, <2>2, <2>3 DEF TsInv, Ts!TypeOK, Ts!Push, Ts!Call
<1>5. Promises' /\ (order \in Seq(Ts!Known) /\ NoRepeats(order) /\ DependenciesFirst)'
  BY PromisesStay, OrderStays DEF Ts!Push
<1>6. ASSUME tsPc' \in {"walking", "unwinding"}
      PROVE  Chain'
  <2>1. NoRepeats(path')
    BY <1>0, <1>1, <1>2 DEF Chain, NoRepeats, Ts!Elems
  <2>2. \A n \in 1 .. Len(path') : path'[n] \notin Ts!Elems(order)
    BY <1>0, <1>1, <1>2 DEF Chain
  <2>3. ASSUME NEW n \in 1 .. Len(path') - 1
        PROVE  Ts!InputFrom(path'[n]) >= 0 /\ Ts!InputFrom(path'[n]) = path'[n + 1]
    <3>1. n \in 1 .. Len(path) /\ path'[n] = path[n]
      BY <1>2
    <3>2. CASE n = Len(path)
      BY <1>0, <1>1, <1>2, <3>1, <3>2 DEF Chain
    <3>3. CASE n # Len(path)
      <4>1. n \in 1 .. Len(path) - 1 /\ n + 1 \in 1 .. Len(path)
        BY <1>2, <3>1, <3>3
      <4> QED BY <1>1, <1>2, <3>1, <4>1 DEF Chain
    <3> QED BY <3>2, <3>3
  <2>4. id' \in Ts!Known
    BY <1>2, <1>3, <1>6
  <2>5. IF tsPc' = "walking"
        THEN Ts!InputFrom(path'[Len(path')]) >= 0 /\ Ts!InputFrom(path'[Len(path')]) = id'
        ELSE Ts!InputFrom(path'[Len(path')]) < 0
    BY <1>2, <1>3, <1>6
  <2>6. Ts!Elems(order)' = Ts!Elems(order)
    BY <1>0 DEF Ts!Elems
  <2> QED BY <1>2, <1>a, <2>1, <2>2, <2>3, <2>4, <2>5, <2>6 DEF Chain, NoRepeats
<1>7. tsPc' = "rejected" => ~ Ts!Valid'
  BY <1>2, <1>3, <1>a DEF Ts!Valid
<1> QED BY <1>1, <1>3, <1>4, <1>5, <1>6, <1>7, <1>a DEF TsInv, Ordering

\* The walk came back to its path: the calls of the path depend on each other
\* in a circle.
LEMMA CycleKeeps ==
    ASSUME TsInv, Ts!Cycle
    PROVE  TsInv'
<1>0. calls' = calls /\ tsPc = "walking" /\ tsPc' = "rejected" /\ id \in Ts!Elems(path)
  BY DEF Ts!Cycle
<1>1. Chain
  BY <1>0 DEF TsInv, Ordering
<1>2. Ts!TypeOK'
  BY DEF TsInv, Ts!TypeOK, Ts!Cycle, Ts!Call
<1>3. Promises' /\ (order \in Seq(Ts!Known) /\ NoRepeats(order) /\ DependenciesFirst)'
  BY PromisesStay, OrderStays DEF Ts!Cycle
<1>4. Ts!HasCycle
  <2> DEFINE S == Ts!Elems(path)
  <2>0. path \in Seq(Ts!Known) /\ Len(path) \in Nat
    BY <1>1 DEF Chain
  <2>1. S \in SUBSET Ts!Known /\ S # {}
    BY <1>0, <2>0 DEF Ts!Elems
  <2>2. ASSUME NEW c \in S PROVE Ts!InputFrom(c) >= 0 /\ Ts!InputFrom(c) \in S
    <3>1. PICK n \in 1 .. Len(path) : path[n] = c
      BY DEF Ts!Elems
    <3>2. CASE n = Len(path)
      <4>1. path # <<>>
        BY <2>0, <3>1
      <4>2. Ts!InputFrom(c) >= 0 /\ Ts!InputFrom(c) = id
        BY <1>0, <1>1, <3>1, <3>2, <4>1 DEF Chain
      <4> QED BY <1>0, <4>2
    <3>3. CASE n # Len(path)
      <4>1. n \in 1 .. Len(path) - 1 /\ n + 1 \in 1 .. Len(path)
        BY <2>0, <3>1, <3>3
      <4>2. Ts!InputFrom(c) >= 0 /\ Ts!InputFrom(c) = path[n + 1]
        BY <1>1, <3>1, <4>1 DEF Chain
      <4> QED BY <4>1, <4>2 DEF Ts!Elems
    <3> QED BY <3>2, <3>3
  <2> HIDE DEF S
  <2> QED BY <2>1, <2>2 DEF Ts!HasCycle, Ts!Closed
<1>5. ~ Ts!Valid'
  BY <1>0, <1>4, SameGraph DEF Ts!Valid
<1> QED BY <1>0, <1>2, <1>3, <1>5 DEF TsInv, Ordering

\* The reversed path after the order: what is appended is new, and each call
\* comes right after its dependency or, the first, after the order it is in.
LEMMA UnwindKeeps ==
    ASSUME TsInv, Ts!Unwind
    PROVE  TsInv'
<1> DEFINE k == Len(order)
           p == Len(path)
           back(n) == path[p + 1 - (n - k)]
<1>0. /\ calls' = calls /\ tsPc' = "ordering" /\ order' = order \o Ts!Reversed(path)
      /\ \/ tsPc = "unwinding"
         \/ tsPc = "walking" /\ id \in Ts!Elems(order)
  BY DEF Ts!Unwind
<1>1. Chain /\ Ts!WellFormed
  BY <1>0 DEF TsInv, Ordering
<1>a. /\ Ts!Known' = Ts!Known /\ Ts!WellFormed' = Ts!WellFormed
      /\ \A c : Ts!InputFrom(c)' = Ts!InputFrom(c)
  BY <1>0, SameGraph
<1>2. /\ order \in Seq(Ts!Known) /\ NoRepeats(order) /\ DependenciesFirst
      /\ path \in Seq(Ts!Known) /\ k \in Nat /\ p \in Nat
  BY <1>1 DEF TsInv, Ordering, Chain
<1>3. /\ Ts!Reversed(path) \in Seq(Ts!Known) /\ Len(Ts!Reversed(path)) = p
      /\ \A n \in 1 .. p : Ts!Reversed(path)[n] = path[p + 1 - n]
  BY <1>2 DEF Ts!Reversed
<1>4. /\ order' \in Seq(Ts!Known) /\ Len(order') = k + p
      /\ \A n \in 1 .. k : order'[n] = order[n]
      /\ \A n \in k + 1 .. k + p : order'[n] = back(n) /\ p + 1 - (n - k) \in 1 .. p
  <2>1. order' \in Seq(Ts!Known) /\ Len(order') = k + p
    <3> DEFINE r == Ts!Reversed(path)
    <3>1. r \in Seq(Ts!Known) /\ Len(r) = p /\ order' = order \o r
      BY <1>0, <1>3
    <3> HIDE DEF r
    <3>2. Len(order \o r) = Len(order) + Len(r)
      BY <1>2, <3>1
    <3>3. order \o r \in Seq(Ts!Known)
      BY <1>2, <3>1
    <3> QED BY <3>1, <3>2, <3>3
  <2>2. \A n \in 1 .. k : order'[n] = order[n]
    BY <1>0, <1>2, <1>3
  <2>3. ASSUME NEW n \in k + 1 .. k + p
        PROVE  order'[n] = back(n) /\ p + 1 - (n - k) \in 1 .. p
    <3>1. n - k \in 1 .. p /\ n \in 1 .. k + p /\ n > k
      BY <1>2
    <3>2. order'[n] = Ts!Reversed(path)[n - k]
      BY <1>0, <1>2, <1>3, <3>1
    <3> QED BY <1>2, <1>3, <3>1, <3>2
  <2> QED BY <2>1, <2>2, <2>3
<1>5. \A n \in 1 .. k + p : n \in 1 .. k \/ n \in k + 1 .. k + p
  BY <1>2
<1>6. \A n \in k + 1 .. k + p : back(n) \notin Ts!Elems(order)
  BY <1>1, <1>4 DEF Chain
<1>7. NoRepeats(order')
  <2> SUFFICES ASSUME NEW m \in 1 .. k + p, NEW n \in 1 .. k + p, order'[m] = order'[n]
               PROVE  m = n
    BY <1>4 DEF NoRepeats
  <2>1. CASE m \in 1 .. k /\ n \in 1 .. k
    BY <1>2, <1>4, <2>1 DEF NoRepeats
  <2>2. CASE m \in 1 .. k /\ n \in k + 1 .. k + p
    BY <1>4, <1>6, <2>2 DEF Ts!Elems
  <2>3. CASE m \in k + 1 .. k + p /\ n \in 1 .. k
    BY <1>4, <1>6, <2>3 DEF Ts!Elems
  <2>4. CASE m \in k + 1 .. k + p /\ n \in k + 1 .. k + p
    <3> DEFINE i == p + 1 - (m - k)
               j == p + 1 - (n - k)
    <3>1. i \in 1 .. p /\ j \in 1 .. p /\ path[i] = path[j]
      BY <1>4, <2>4
    <3>2. \A a, b \in 1 .. p : path[a] = path[b] => a = b
      BY <1>1 DEF Chain, NoRepeats
    <3>3. i = j
      <4> HIDE DEF i, j
      <4> QED BY <3>1, <3>2
    <3> QED BY <1>2, <3>3
  <2> QED BY <1>5, <2>1, <2>2, <2>3, <2>4
<1>8. ASSUME NEW n \in 1 .. k + p, Ts!InputFrom(order'[n]) >= 0
      PROVE  \E m \in 1 .. n - 1 : order'[m] = Ts!InputFrom(order'[n])
  <2>1. CASE n \in 1 .. k
    <3>1. PICK m \in 1 .. n - 1 : order[m] = Ts!InputFrom(order[n])
      BY <1>2, <1>4, <1>8, <2>1 DEF DependenciesFirst
    <3>2. m \in 1 .. k
      BY <1>2, <2>1
    <3> QED BY <1>4, <2>1, <3>1, <3>2
  <2>2. CASE n = k + 1
    <3>1. n \in k + 1 .. k + p /\ p + 1 - (n - k) = p
      BY <1>2, <2>2
    <3>2. order'[n] = path[p] /\ path # <<>>
      BY <1>2, <1>4, <3>1
    <3>3. path[p] \in Ts!Known /\ Ts!InputFrom(path[p]) \in Int
      <4>1. p \in 1 .. p
        BY <1>2, <3>1
      <4>2. path[p] \in Ts!Known
        BY <1>2, <4>1
      <4> QED BY <4>2, TsFacts
    <3>4. Ts!InputFrom(path[p]) = id /\ id \in Ts!Elems(order)
      BY <1>0, <1>1, <1>8, <3>2, <3>3 DEF Chain
    <3>5. PICK m \in 1 .. k : order[m] = id
      BY <3>4 DEF Ts!Elems
    <3>6. m \in 1 .. n - 1
      BY <1>2, <2>2
    <3> QED BY <1>4, <3>2, <3>4, <3>5, <3>6
  <2>3. CASE n \in k + 2 .. k + p
    <3>1. /\ n \in k + 1 .. k + p /\ n - 1 \in k + 1 .. k + p
          /\ p + 1 - (n - k) \in 1 .. p - 1
          /\ p + 1 - (n - k) + 1 = p + 1 - ((n - 1) - k)
          /\ n - 1 \in 1 .. n - 1
      BY <1>2, <2>3
    <3>2. Ts!InputFrom(back(n)) = path[p + 1 - (n - k) + 1]
      BY <1>1, <3>1 DEF Chain
    <3>3. order'[n] = back(n) /\ order'[n - 1] = back(n - 1)
      BY <1>4, <3>1
    <3> QED BY <3>1, <3>2, <3>3
  <2> QED BY <1>2, <2>1, <2>2, <2>3
<1>9. (order \in Seq(Ts!Known) /\ NoRepeats(order) /\ DependenciesFirst)'
  BY <1>4, <1>7, <1>8, <1>a DEF NoRepeats, DependenciesFirst
<1>10. Ts!TypeOK'
  <2>1. order' \in Seq(CallIds)
    BY <1>4, TsFacts
  <2> QED BY <1>0, <2>1 DEF TsInv, Ts!TypeOK, Ts!Unwind, Ts!Call
<1>11. Promises'
  BY PromisesStay DEF Ts!Unwind
<1> QED BY <1>0, <1>1, <1>9, <1>10, <1>11, <1>a DEF TsInv, Ordering

LEMMA StartKeeps ==
    ASSUME TsInv, Ts!Start
    PROVE  TsInv'
<1>1. Ts!TypeOK'
  BY DEF TsInv, Ts!TypeOK, Ts!Start, Ts!Call
<1>2. Promises' /\ (order \in Seq(Ts!Known) /\ NoRepeats(order) /\ DependenciesFirst)'
  BY PromisesStay, OrderStays DEF Ts!Start
<1>3. Ts!WellFormed' /\ Ts!Known' \subseteq Ts!Elems(order)'
  BY SameGraph DEF Ts!Start, Ts!Elems, TsInv, Ordering
<1> QED BY <1>1, <1>2, <1>3 DEF TsInv, Ordering, Ts!Start

LEMMA TsAnswerKeeps ==
    ASSUME TsInv, Ts!Answer
    PROVE  TsInv'
<1>1. Ts!TypeOK'
  BY DEF TsInv, Ts!TypeOK, Ts!Answer, Ts!Call
<1>2. Promises' /\ (order \in Seq(Ts!Known) /\ NoRepeats(order) /\ DependenciesFirst)'
  BY PromisesStay, OrderStays DEF Ts!Answer
<1>3. Ts!WellFormed' /\ Ts!Known' \subseteq Ts!Elems(order)'
  BY SameGraph DEF Ts!Answer, Ts!Elems, TsInv, Ordering
<1> QED BY <1>1, <1>2, <1>3 DEF TsInv, Ordering, Ts!Answer

LEMMA ResolveKeeps ==
    ASSUME TsInv, NEW c \in CallIds, Ts!Resolve(c)
    PROVE  TsInv'
<1>0. /\ UNCHANGED <<calls, tsPc, order, path, id>> /\ tsPc = "started"
      /\ c \in Ts!Known /\ tsOutcome[c] = "none"
      /\ Ts!InputFrom(c) >= 0 => tsOutcome[Ts!InputFrom(c)] # "none"
      /\ tsExecuted' = IF Ts!Invokes(c) THEN tsExecuted \cup {c} ELSE tsExecuted
  BY DEF Ts!Resolve
<1>1. PICK o \in Ts!Outcomes :
         /\ IF Ts!Invokes(c) THEN o \in {"success", "empty", "error"} ELSE o = "dependency"
         /\ tsOutcome' = [tsOutcome EXCEPT ![c] = o]
  BY DEF Ts!Resolve
<1>a. /\ Ts!Known' = Ts!Known /\ Ts!WellFormed' = Ts!WellFormed
      /\ \A d : Ts!InputFrom(d)' = Ts!InputFrom(d)
  BY <1>0, SameGraph
<1>b. /\ Ts!Known \subseteq CallIds /\ \A d \in Ts!Known : Ts!InputFrom(d) \in CallIds
      /\ tsOutcome \in [CallIds -> Ts!Outcomes] /\ tsExecuted \in SUBSET CallIds
  BY TsFacts DEF TsInv, Ts!TypeOK
<1>2. /\ tsOutcome'[c] = o /\ o # "none" /\ tsOutcome' \in [CallIds -> Ts!Outcomes]
      /\ \A d \in CallIds : d # c => tsOutcome'[d] = tsOutcome[d]
      /\ \A d \in CallIds : d # c => (d \in tsExecuted' <=> d \in tsExecuted)
      /\ tsExecuted' \in SUBSET CallIds
  BY <1>0, <1>1, <1>b
<1>3. Ts!TypeOK'
  BY <1>0, <1>2 DEF TsInv, Ts!TypeOK, Ts!Call
<1>4. \A d \in CallIds : tsOutcome[d] # "none" => d # c /\ tsOutcome'[d] = tsOutcome[d]
  BY <1>0, <1>2
<1>5. \A d \in Ts!Known : tsOutcome'[d] # "none" /\ Ts!InputFrom(d) >= 0
                            => tsOutcome'[Ts!InputFrom(d)] # "none"
  BY <1>0, <1>2, <1>4, <1>b DEF TsInv, Promises
<1>6. \A d \in tsExecuted' : tsOutcome'[d] # "none"
  BY <1>2, <1>b DEF TsInv, Promises
<1>7. ASSUME NEW d \in Ts!Known, Ts!InputFrom(d) >= 0, tsOutcome'[d] # "none"
      PROVE  d \in tsExecuted' <=> tsOutcome'[Ts!InputFrom(d)] = "success"
  <2>1. CASE d = c
    <3>1. tsOutcome'[Ts!InputFrom(c)] = tsOutcome[Ts!InputFrom(c)]
      BY <1>0, <1>4, <1>7, <1>b, <2>1
    <3>2. c \notin tsExecuted
      BY <1>0 DEF TsInv, Promises
    <3> QED BY <1>0, <1>7, <2>1, <3>1, <3>2 DEF Ts!Invokes
  <2>2. CASE d # c
    <3>1. tsOutcome[d] # "none" /\ (d \in tsExecuted' <=> d \in tsExecuted)
      BY <1>2, <1>7, <1>b, <2>2
    <3>2. tsOutcome[Ts!InputFrom(d)] # "none"
          /\ (d \in tsExecuted <=> tsOutcome[Ts!InputFrom(d)] = "success")
      BY <1>7, <3>1 DEF TsInv, Promises, Ts!DependencyDecides
    <3> QED BY <1>4, <1>b, <3>1, <3>2
  <2> QED BY <2>1, <2>2
<1>8. Promises'
  BY <1>5, <1>6, <1>7, <1>a DEF Promises, Ts!DependencyDecides
<1>9. (order \in Seq(Ts!Known) /\ NoRepeats(order) /\ DependenciesFirst)'
  BY <1>0, OrderStays
<1>10. Ts!WellFormed' /\ Ts!Known' \subseteq Ts!Elems(order)'
  BY <1>0, <1>a DEF Ts!Elems, TsInv, Ordering
<1> QED BY <1>0, <1>3, <1>8, <1>9, <1>10 DEF TsInv, Ordering

LEMMA TsKeeps ==
    ASSUME TsInv, Ts!Next
    PROVE  TsInv'
BY ReceiveKeeps, PickStartKeeps, PushKeeps, CycleKeeps, UnwindKeeps, StartKeeps,
   TsAnswerKeeps, ResolveKeeps DEF Ts!Next

\* A step of the other router.
LEMMA TsStays ==
    ASSUME TsInv, UNCHANGED <<calls, tsVars>>
    PROVE  TsInv'
<1>a. /\ Ts!Known' = Ts!Known /\ Ts!WellFormed' = Ts!WellFormed /\ Ts!Valid' = Ts!Valid
      /\ \A d : Ts!InputFrom(d)' = Ts!InputFrom(d)
  BY SameGraph
<1>1. Ts!TypeOK'
  BY DEF TsInv, Ts!TypeOK, Ts!Call, tsVars
<1>2. Promises' /\ (order \in Seq(Ts!Known) /\ NoRepeats(order) /\ DependenciesFirst)'
  BY PromisesStay, OrderStays DEF tsVars
<1>3. Chain => Chain'
  BY <1>a, SMTT(30) DEF tsVars, Chain, NoRepeats, Ts!Elems
<1>4. Ts!Elems(order)' = Ts!Elems(order)
  BY DEF tsVars, Ts!Elems
<1> QED BY <1>a, <1>1, <1>2, <1>3, <1>4 DEF tsVars, TsInv, Ordering

-----------------------------------------------------------------------------
(***************************************************************************)
(* The theorems.                                                           *)
(***************************************************************************)

\* Every step of the routers keeps both invariants.
LEMMA RoutersStep ==
    ASSUME SwiftInv, TsInv, [SwiftStep \/ TsStep]_routersVars
    PROVE  SwiftInv' /\ TsInv'
<1>1. CASE SwiftStep
  <2>1. BatchNext /\ UNCHANGED tsVars
    BY <1>1 DEF SwiftStep
  <2>2. calls' = calls
    BY <2>1 DEF BatchNext, Accept, Reject, SkipLayer, StartLayer, MergeLayer, Answer, EndCall,
                DeadlinePasses
  <2> QED BY <2>1, <2>2, SwiftKeeps, TsStays
<1>2. CASE TsStep
  <2>1. Ts!Next /\ UNCHANGED <<batchPc, layer, running, outcome, layerResult, isPast, executed>>
    BY <1>2 DEF TsStep
  <2>2. calls' = calls
    BY <2>1 DEF Ts!Next, Ts!Receive, Ts!PickStart, Ts!Push, Ts!Cycle, Ts!Unwind, Ts!Start,
                Ts!Answer, Ts!Resolve
  <2>3. isPast' \in BOOLEAN
    BY <2>1 DEF SwiftInv, BatchTypeOK
  <2> QED BY <2>1, <2>2, <2>3, TsKeeps, OthersKeep
<1>3. CASE UNCHANGED routersVars
  <2>1. isPast' \in BOOLEAN
    BY <1>3 DEF SwiftInv, BatchTypeOK, routersVars, batchVars
  <2> QED BY <1>3, <2>1, OthersKeep, TsStays DEF routersVars, batchVars
<1> QED BY <1>1, <1>2, <1>3

\* The inductive invariants of both batch handlers hold, for batches of any
\* length, any limit and any set of call ids.
THEOREM RoutersInvariance == RoutersSpec => [](SwiftInv /\ TsInv)
<1>1. RoutersInit => SwiftInv /\ TsInv
  BY SwiftInit, TsInit DEF RoutersInit
<1>2. SwiftInv /\ TsInv /\ [SwiftStep \/ TsStep]_routersVars => (SwiftInv /\ TsInv)'
  BY RoutersStep
<1> QED BY <1>1, <1>2, PTL DEF RoutersSpec

\* A failure is handed down the whole chain of a batch that executeBatch
\* answers, and every call of it has an outcome.
THEOREM FailuresHandedDown == RoutersSpec => []FailurePropagates
<1>1. SwiftInv => FailurePropagates
  <2> SUFFICES ASSUME SwiftInv, batchPc = "answered", NEW n \in Indices
               PROVE  outcome[n] # "none" /\ Judged(n, outcome[n])
    BY DEF FailurePropagates, Judged
  <2>1. BatchOK /\ AllValid /\ InLayers /\ layer \in Nat /\ Layer(layer) = {}
    BY LayerFacts DEF SwiftInv
  <2>2. Depth[n] < layer
    BY <2>1, NoGap
  <2> QED BY <2>1, <2>2 DEF InLayers, LayersBehind
<1> QED BY <1>1, RoutersInvariance, PTL

\* No step of the layers, and no passing of the deadline, changes an outcome
\* that is there.
THEOREM OutcomesStay == RoutersSpec => OutcomesAreFinal
<1> DEFINE Kept == \A n \in Indices : outcome[n] # "none" => outcome'[n] = outcome[n]
<1>1. SwiftInv /\ [SwiftStep \/ TsStep]_routersVars => [Kept]_batchVars
  <2> SUFFICES ASSUME SwiftInv, [SwiftStep \/ TsStep]_routersVars
               PROVE  Kept
    OBVIOUS
  <2>1. CASE UNCHANGED outcome
    BY <2>1
  <2>2. CASE SkipLayer
    BY <2>2 DEF SkipLayer
  <2>3. CASE MergeLayer
    <3>1. /\ InLayers /\ Depth \in [Indices -> Nat] /\ layer \in Nat
      BY <2>3, LayerFacts DEF MergeLayer
    <3>2. \A n \in Indices : Depth[n] = layer => outcome[n] = "none"
      BY <3>1 DEF InLayers, LayersAhead
    <3> QED BY <2>3, <3>2 DEF MergeLayer, Layer
  <2>4. UNCHANGED outcome \/ SkipLayer \/ MergeLayer
    BY DEF SwiftStep, TsStep, BatchNext, Accept, Reject, StartLayer, Answer, EndCall,
           DeadlinePasses, routersVars, batchVars
  <2> QED BY <2>1, <2>2, <2>3, <2>4
<1> QED BY <1>1, RoutersInvariance, PTL DEF RoutersSpec, OutcomesAreFinal

\* orderBatchDependencies puts every call once into the order, dependencies
\* first, and the promises are decided by those of the dependencies.
THEOREM TsOrderIsRight == RoutersSpec => []TsDependenciesFirst
<1>1. TsInv => TsDependenciesFirst
  <2> SUFFICES ASSUME TsInv PROVE Ts!OrderIsTopological /\ Ts!DependencyDecides
    BY DEF TsDependenciesFirst
  <2>1. Ts!DependencyDecides
    BY DEF TsInv, Promises
  <2>2. ASSUME tsPc = "started"
        PROVE  Ts!Elems(order) = Ts!Known /\ Len(order) = Len(calls) /\ DependenciesFirst
    BY <2>2, OrderedIsValid, TsFacts DEF TsInv, Ordering
  <2> QED BY <2>1, <2>2 DEF Ts!OrderIsTopological, DependenciesFirst
<1> QED BY <1>1, RoutersInvariance, PTL

\* orderBatchDependencies runs a batch exactly when no call_id repeats, every
\* dependency is a call of the batch, the size is within the limit and there
\* is no cycle.
THEOREM TsOrdersWhatCanRun == RoutersSpec => []TsRunsWhatCanRun
<1>1. TsInv => TsRunsWhatCanRun
  <2> SUFFICES ASSUME TsInv
               PROVE  (tsPc = "rejected" => ~ Ts!Valid) /\ (tsPc = "started" => Ts!Valid)
    BY DEF TsRunsWhatCanRun, Ts!RejectsExactly
  <2>1. tsPc = "rejected" => ~ Ts!Valid
    BY DEF TsInv, Ordering
  <2>2. ASSUME tsPc = "started" PROVE Ts!Valid
    BY <2>2, OrderedIsValid, TsFacts DEF TsInv, Ordering
  <2> QED BY <2>1, <2>2
<1> QED BY <1>1, RoutersInvariance, PTL

\* A batch that buildExecutionLayers lets through is one the TypeScript
\* router runs too.
THEOREM SwiftIsPortable == RoutersSpec => []SwiftBatchesArePortable
<1>1. SwiftInv => SwiftBatchesArePortable
  <2> SUFFICES ASSUME SwiftInv, batchPc \in {"running", "answered"}
               PROVE  Ts!Valid
    BY DEF SwiftBatchesArePortable
  <2> QED BY LayerFacts, SwiftIsValid DEF InLayers
<1> QED BY <1>1, RoutersInvariance, PTL
=============================================================================
