-------------------------- MODULE RecursionTheorems --------------------------
(***************************************************************************)
(* Facts about recursive definitions that the proofs of the components     *)
(* share.  A definition by recursion f[x \in D] == E is a CHOOSE: nothing  *)
(* is known of it before a function that satisfies the equation is shown   *)
(* to exist.  That, and all that is proved of such a function, is by a     *)
(* least counterexample.                                                   *)
(***************************************************************************)
EXTENDS Integers, FiniteSets, FiniteSetTheorems, WellFoundedInduction, TLAPS

\* Every non-empty set of natural numbers has a least element.
LEMMA LeastNatural ==
    ASSUME NEW T, T \subseteq Nat, T # {}
    PROVE  \E x \in T : \A y \in T : x <= y
<1> DEFINE R == OpToRel(<, Nat)
<1>1. IsWellFoundedOn(R, Nat)
  BY NatLessThanWellFounded
<1>2. \A x, y \in Nat : x < y => <<x, y>> \in R
  BY DEF OpToRel
<1> HIDE DEF R
<1>3. PICK x \in T : \A y \in T : ~ (<<y, x>> \in R)
  BY <1>1, WFMin
<1>4. ASSUME NEW y \in T PROVE x <= y
  <2>1. x \in Nat /\ y \in Nat /\ ~ (y < x)
    BY <1>2, <1>3
  <2> QED BY <2>1
<1> QED BY <1>4

\* A non-empty set with a rank for each element has one of the least rank.
LEMMA LeastRank ==
    ASSUME NEW D, NEW r \in [D -> Nat], NEW T, T \subseteq D, T # {}
    PROVE  \E x \in T : \A y \in T : r[x] <= r[y]
<1> DEFINE Ranks == {r[x] : x \in T}
<1>1. Ranks \subseteq Nat /\ Ranks # {}
  OBVIOUS
<1>2. PICK n \in Ranks : \A m \in Ranks : n <= m
  <2> HIDE DEF Ranks
  <2> QED BY <1>1, LeastNatural
<1> QED BY <1>2

-----------------------------------------------------------------------------
\* G is the body of a definition by recursion on D: G[x][f] is what f[x] is to
\* be, and it depends on f only where the rank is smaller.
Body(D, V, r, G) ==
    /\ r \in [D -> Nat] /\ G \in [D -> [[D -> V] -> V]]
    /\ \A x \in D : \A f, g \in [D -> V] :
          (\A y \in D : r[y] < r[x] => f[y] = g[y]) => G[x][f] = G[x][g]

\* f satisfies the equation below rank k.
SolvedBelow(D, r, G, k, f) == \A x \in D : r[x] < k => f[x] = G[x][f]

\* Two solutions agree as far as they go.
LEMMA SolutionsAgree ==
    ASSUME NEW D, NEW V, NEW r, NEW G, Body(D, V, r, G),
           NEW f \in [D -> V], NEW g \in [D -> V], NEW k \in Nat,
           SolvedBelow(D, r, G, k, f), SolvedBelow(D, r, G, k, g)
    PROVE  \A x \in D : r[x] < k => f[x] = g[x]
<1> DEFINE T == {x \in D : r[x] < k /\ f[x] # g[x]}
<1>1. SUFFICES ASSUME T # {} PROVE FALSE
  OBVIOUS
<1>2. PICK x \in T : \A y \in T : r[x] <= r[y]
  <2>1. T \subseteq D /\ r \in [D -> Nat]
    BY DEF Body
  <2> HIDE DEF T
  <2> QED BY <1>1, <2>1, LeastRank
<1>3. x \in D /\ r[x] < k /\ f[x] # g[x] /\ r \in [D -> Nat]
  BY <1>2 DEF Body
<1>4. ASSUME NEW y \in D, r[y] < r[x] PROVE f[y] = g[y]
  <2>1. r[x] \in Nat /\ r[y] \in Nat
    BY <1>3
  <2>2. r[y] < k /\ ~ (r[x] <= r[y])
    BY <1>3, <1>4, <2>1
  <2> QED BY <1>2, <2>2
<1>5. G[x][f] = G[x][g]
  BY <1>3, <1>4 DEF Body
<1> QED BY <1>3, <1>5 DEF SolvedBelow

\* There is one to every rank.
LEMMA SolutionBelow ==
    ASSUME NEW D, NEW V, NEW r, NEW G, Body(D, V, r, G), V # {}, NEW k \in Nat
    PROVE  \E f \in [D -> V] : SolvedBelow(D, r, G, k, f)
<1>0. r \in [D -> Nat] /\ G \in [D -> [[D -> V] -> V]]
  BY DEF Body
<1> DEFINE T == {n \in Nat : ~ \E f \in [D -> V] : SolvedBelow(D, r, G, n, f)}
<1>1. SUFFICES ASSUME T # {} PROVE FALSE
  OBVIOUS
<1>2. PICK n \in T : \A m \in T : n <= m
  <2>1. T \subseteq Nat
    OBVIOUS
  <2> HIDE DEF T
  <2> QED BY <1>1, <2>1, LeastNatural
<1>3. n \in Nat /\ ~ \E f \in [D -> V] : SolvedBelow(D, r, G, n, f)
  BY <1>2
<1>4. CASE n = 0
  <2>1. PICK v : v \in V
    OBVIOUS
  <2>2. [x \in D |-> v] \in [D -> V]
    BY <2>1
  <2>3. SolvedBelow(D, r, G, 0, [x \in D |-> v])
    BY <1>0 DEF SolvedBelow
  <2> QED BY <1>3, <1>4, <2>2, <2>3
<1>5. CASE n # 0
  <2>1. n - 1 \in Nat /\ ~ (n <= n - 1)
    BY <1>3, <1>5
  <2>2. n - 1 \notin T
    <3> HIDE DEF T
    <3> QED BY <1>2, <2>1
  <2>3. PICK f \in [D -> V] : SolvedBelow(D, r, G, n - 1, f)
    BY <2>1, <2>2
  <2> DEFINE h == [x \in D |-> IF r[x] < n - 1 THEN f[x] ELSE G[x][f]]
  <2>4. \A x \in D : G[x][f] \in V
    BY <1>0
  <2>5. h \in [D -> V]
    BY <2>4
  <2>6. ASSUME NEW x \in D, r[x] < n PROVE h[x] = G[x][h]
    <3>1. h[x] = G[x][f]
      BY <2>3 DEF SolvedBelow
    <3>2. ASSUME NEW y \in D, r[y] < r[x] PROVE f[y] = h[y]
      <4>1. r[x] \in Nat /\ r[y] \in Nat
        BY <1>0
      <4>2. r[y] < n - 1
        BY <1>3, <2>6, <3>2, <4>1
      <4> QED BY <4>2
    <3> HIDE DEF h
    <3>3. G[x][f] = G[x][h]
      BY <2>5, <3>2 DEF Body
    <3> QED BY <3>1, <3>3
  <2>7. SolvedBelow(D, r, G, n, h)
    <3> HIDE DEF h
    <3> QED BY <2>6 DEF SolvedBelow
  <2> HIDE DEF h
  <2> QED BY <1>3, <2>5, <2>7
<1> QED BY <1>4, <1>5

\* A definition by recursion over a rank defines a function.
LEMMA SolutionExists ==
    ASSUME NEW D, NEW V, NEW r, NEW G, Body(D, V, r, G), V # {}
    PROVE  \E f \in [D -> V] : \A x \in D : f[x] = G[x][f]
<1>0. r \in [D -> Nat]
  BY DEF Body
<1> DEFINE F(k) == CHOOSE f \in [D -> V] : SolvedBelow(D, r, G, k, f)
           h == [x \in D |-> F(r[x] + 1)[x]]
<1>1. \A k \in Nat : F(k) \in [D -> V] /\ SolvedBelow(D, r, G, k, F(k))
  BY SolutionBelow
<1> HIDE DEF F
<1>2. \A x \in D : r[x] \in Nat /\ r[x] + 1 \in Nat
  BY <1>0
<1>3. h \in [D -> V]
  BY <1>1, <1>2
<1>4. ASSUME NEW x \in D PROVE h[x] = G[x][h]
  <2> DEFINE f == F(r[x] + 1)
  <2>1. f \in [D -> V] /\ SolvedBelow(D, r, G, r[x] + 1, f)
    BY <1>1, <1>2
  <2>2. h[x] = f[x]
    OBVIOUS
  <2>3. f[x] = G[x][f]
    <3>1. r[x] < r[x] + 1
      BY <1>2
    <3> HIDE DEF f
    <3> QED BY <2>1, <3>1 DEF SolvedBelow
  <2>4. ASSUME NEW y \in D, r[y] < r[x] PROVE f[y] = h[y]
    <3> DEFINE g == F(r[y] + 1)
    <3>1. g \in [D -> V] /\ SolvedBelow(D, r, G, r[y] + 1, g)
      BY <1>1, <1>2
    <3>2. h[y] = g[y]
      OBVIOUS
    <3> HIDE DEF f, g, h
    <3>3. SolvedBelow(D, r, G, r[y] + 1, f)
      <4>1. \A z \in D : r[z] < r[y] + 1 => r[z] < r[x] + 1
        BY <1>2, <2>4
      <4> QED BY <2>1, <4>1 DEF SolvedBelow
    <3>4. r[y] < r[y] + 1
      BY <1>2
    <3>5. f[y] = g[y]
      BY <1>2, <2>1, <3>1, <3>3, <3>4, SolutionsAgree
    <3> QED BY <3>2, <3>5
  <2> HIDE DEF f, h
  <2>5. G[x][f] = G[x][h]
    BY <1>3, <2>1, <2>4 DEF Body
  <2> QED BY <2>2, <2>3, <2>5
<1> HIDE DEF h
<1> QED BY <1>3, <1>4

=============================================================================
