----------------------------- MODULE BuildProofs -----------------------------
(***************************************************************************)
(* Proofs about Build, for any sizes of request, response and pipes, any   *)
(* timeout, plugins, responses and failing writes.  First the generated    *)
(* files: what the build reports (ReportInv), and what the files hold      *)
(* (FilesInv).  Then one invocation of a plugin (IInv), and last the       *)
(* invocations inside a build (BuildInv).  FlattenSeq is recursive: what   *)
(* it computes is proved by the least counterexample.                      *)
(***************************************************************************)
EXTENDS Build, SequenceTheorems, RecursionTheorems, TLAPS

USE BuildAssumption

\* What was missed is in the result, or will be merged into it.
FailureKept ==
    missed # {} <=> buildResult # "ok" \/ (pass # "invoke" /\ err # "ok")

ReportInv ==
    /\ err \in {"ok", "failed"} /\ buildResult \in {"ok", "failed"}
    /\ pass \in {"invoke", "files", "inserts"}
    /\ FailureKept

LEMMA ReportStep ==
    ASSUME ReportInv, Files!Next
    PROVE  ReportInv'
<1> USE DEF ReportInv, FailureKept
<1>1. CASE Files!PluginFails
  BY <1>1 DEF Files!PluginFails
<1>2. CASE Files!PluginAnswers
  BY <1>2 DEF Files!PluginAnswers
<1>3. CASE Files!SkipEntry
  BY <1>3 DEF Files!SkipEntry, Files!Advance
<1>4. CASE Files!RefuseEntry
  BY <1>4 DEF Files!RefuseEntry, Files!Miss, Files!Advance
<1>5. CASE Files!WriteFile
  BY <1>5 DEF Files!WriteFile, Files!Miss, Files!Advance
<1>6. CASE Files!InsertText
  BY <1>6 DEF Files!InsertText, Files!Miss, Files!Advance
<1>7. CASE Files!NextPass
  BY <1>7 DEF Files!NextPass, Files!control
<1>8. CASE Files!EndPlugin
  BY <1>8 DEF Files!EndPlugin, Files!Merged
<1>9. CASE Files!Done
  BY <1>9 DEF Files!Done, Files!vars
<1> QED BY <1>1, <1>2, <1>3, <1>4, <1>5, <1>6, <1>7, <1>8, <1>9 DEF Files!Next

\* A build fails exactly when something was not applied, for any number of
\* plugins, entries and failing writes.
THEOREM FailuresReported == BuildSpec => []FailuresAreReported
<1>1. BuildInit => ReportInv
  BY DEF BuildInit, Files!Init, ReportInv, FailureKept
<1>2. ReportInv /\ [BuildNext]_allVars => ReportInv'
  <2>1. UNCHANGED filesVars => (ReportInv => ReportInv')
    BY DEF filesVars, ReportInv, FailureKept
  <2> QED BY <2>1, ReportStep DEF BuildNext, allVars
<1>3. ReportInv => FailuresAreReported
  BY DEF ReportInv, FailureKept, FailuresAreReported, Files!FailuresAreReported, Files!Finished
<1> QED BY <1>1, <1>2, <1>3, PTL DEF BuildSpec

-----------------------------------------------------------------------------
\* The initial parts of a flattened sequence of sequences, up to the k-th.
PartsTo(s, S, k, g) ==
    /\ g \in [0 .. k -> Seq(S)] /\ g[0] = <<>>
    /\ \A j \in 1 .. k : g[j] = g[j - 1] \o s[j]

\* The first k sequences agree with those of t, or are over the set R.
SameTo(s, t, k) == \A j \in 1 .. k : s[j] = t[j]
WithinTo(s, R, k) == \A j \in 1 .. k : s[j] \in Seq(R)

LEMMA PartsExist ==
    ASSUME NEW S, NEW s \in Seq(Seq(S))
    PROVE  \E g : PartsTo(s, S, Len(s), g)
<1>0. Len(s) \in Nat /\ \A j \in 1 .. Len(s) : s[j] \in Seq(S)
  OBVIOUS
<1> DEFINE T == {k \in 0 .. Len(s) : ~ \E g : PartsTo(s, S, k, g)}
<1>1. SUFFICES ASSUME T # {} PROVE FALSE
  BY <1>0
<1>2. PICK k \in T : \A j \in T : k <= j
  <2>1. T \subseteq Nat
    BY <1>0
  <2> HIDE DEF T
  <2> QED BY <1>1, <2>1, LeastNatural
<1>3. k \in 0 .. Len(s) /\ ~ \E g : PartsTo(s, S, k, g)
  BY <1>2
<1>4. CASE k = 0
  <2>1. PartsTo(s, S, 0, [j \in 0 .. 0 |-> <<>>])
    BY DEF PartsTo
  <2> QED BY <1>3, <1>4, <2>1
<1>5. CASE k > 0
  <2>1. k \in Nat /\ k - 1 \in 0 .. Len(s) /\ k \in 1 .. Len(s) /\ k - 1 \in Nat
    BY <1>0, <1>3, <1>5
  <2>2. k - 1 \notin T
    <3> HIDE DEF T
    <3>1. SUFFICES ASSUME k - 1 \in T PROVE FALSE
      OBVIOUS
    <3>2. k <= k - 1
      BY <1>2, <3>1
    <3> QED BY <2>1, <3>2
  <2>3. PICK g : PartsTo(s, S, k - 1, g)
    BY <2>1, <2>2
  <2> DEFINE v == g[k - 1] \o s[k]
             h == [j \in 0 .. k |-> IF j = k THEN v ELSE g[j]]
  <2>4. g[k - 1] \in Seq(S) /\ s[k] \in Seq(S)
    BY <1>0, <2>1, <2>3 DEF PartsTo
  <2>5. v \in Seq(S)
    BY <2>4, ConcatProperties
  <2>6. \A j \in 0 .. k : j # k => j \in 0 .. k - 1 /\ h[j] = g[j]
    BY <2>1
  <2>7. h[k] = v
    <3>1. k \in 0 .. k
      BY <2>1
    <3> HIDE DEF v
    <3> QED BY <3>1
  <2>8. h \in [0 .. k -> Seq(S)]
    BY <2>3, <2>5, <2>6 DEF PartsTo
  <2>9. h[0] = <<>>
    BY <1>5, <2>1, <2>3, <2>6 DEF PartsTo
  <2>10. ASSUME NEW j \in 1 .. k PROVE h[j] = h[j - 1] \o s[j]
    <3>1. j - 1 \in 0 .. k /\ j - 1 # k
      BY <2>1
    <3>2. h[j - 1] = g[j - 1]
      BY <2>6, <3>1
    <3>3. CASE j = k
      BY <2>7, <3>2, <3>3
    <3>4. CASE j # k
      <4>1. j \in 1 .. k - 1 /\ j \in 0 .. k
        BY <2>1, <3>4
      <4>2. g[j] = g[j - 1] \o s[j]
        BY <2>3, <4>1 DEF PartsTo
      <4> HIDE DEF h
      <4> QED BY <2>6, <3>2, <3>4, <4>1, <4>2
    <3> QED BY <3>3, <3>4
  <2>11. PartsTo(s, S, k, h)
    <3> HIDE DEF h
    <3> QED BY <2>8, <2>9, <2>10 DEF PartsTo
  <2> QED BY <1>3, <2>11
<1> QED BY <1>0, <1>3, <1>4, <1>5

\* The parts are determined by what is put together.
LEMMA PartsAgree ==
    ASSUME NEW S, NEW R, NEW s, NEW t, NEW g, NEW h,
           NEW m \in Nat, NEW n \in Nat, NEW k \in Nat, k <= m, k <= n,
           PartsTo(s, S, m, g), PartsTo(t, R, n, h), SameTo(s, t, k)
    PROVE  \A j \in 0 .. k : g[j] = h[j]
<1> DEFINE T == {j \in 0 .. k : g[j] # h[j]}
<1>1. SUFFICES ASSUME T # {} PROVE FALSE
  OBVIOUS
<1>2. PICK j \in T : \A i \in T : j <= i
  <2>1. T \subseteq Nat
    OBVIOUS
  <2> HIDE DEF T
  <2> QED BY <1>1, <2>1, LeastNatural
<1>3. j \in 0 .. k /\ g[j] # h[j]
  BY <1>2
<1>4. j # 0
  BY <1>3 DEF PartsTo
<1>5. j \in 1 .. k /\ j \in 1 .. m /\ j \in 1 .. n /\ j - 1 \in 0 .. k
  BY <1>3, <1>4
<1>6. g[j - 1] = h[j - 1]
  BY <1>2, <1>5
<1> QED BY <1>3, <1>5, <1>6 DEF PartsTo, SameTo

\* What is in none of the sequences is not in their parts.
LEMMA PartsWithin ==
    ASSUME NEW S, NEW R, NEW s, NEW g, NEW m \in Nat, NEW k \in Nat, k <= m,
           PartsTo(s, S, m, g), WithinTo(s, R, k)
    PROVE  \A j \in 0 .. k : g[j] \in Seq(R)
<1> DEFINE T == {j \in 0 .. k : g[j] \notin Seq(R)}
<1>1. SUFFICES ASSUME T # {} PROVE FALSE
  OBVIOUS
<1>2. PICK j \in T : \A i \in T : j <= i
  <2>1. T \subseteq Nat
    OBVIOUS
  <2> HIDE DEF T
  <2> QED BY <1>1, <2>1, LeastNatural
<1>3. j \in 0 .. k /\ g[j] \notin Seq(R)
  BY <1>2
<1>4. j # 0
  BY <1>3, EmptySeq DEF PartsTo
<1>5. j \in 1 .. k /\ j \in 1 .. m /\ j - 1 \in 0 .. k
  BY <1>3, <1>4
<1>6. g[j - 1] \in Seq(R)
  BY <1>2, <1>5
<1>7. g[j] = g[j - 1] \o s[j] /\ s[j] \in Seq(R)
  BY <1>5 DEF PartsTo, WithinTo
<1> QED BY <1>3, <1>6, <1>7, ConcatProperties

\* FlattenSeq is the last of the parts.
LEMMA FlattenIs ==
    ASSUME NEW S, NEW s \in Seq(Seq(S)), NEW g, PartsTo(s, S, Len(s), g)
    PROVE  Files!FlattenSeq(s) = g[Len(s)]
<1> DEFINE F(h) == [i \in 1 .. Len(s) |-> IF i = 1 THEN s[i] ELSE h[i - 1] \o s[i]]
           f == [i \in 1 .. Len(s) |-> g[i]]
<1>0. Len(s) \in Nat /\ \A j \in 1 .. Len(s) : s[j] \in Seq(S)
  OBVIOUS
<1>1. f = F(f)
  <2>1. ASSUME NEW i \in 1 .. Len(s) PROVE f[i] = F(f)[i]
    <3>1. g[i] = g[i - 1] \o s[i]
      BY DEF PartsTo
    <3>2. CASE i = 1
      <4>1. g[i - 1] = <<>> /\ s[i] \in Seq(S)
        BY <1>0, <3>2 DEF PartsTo
      <4>2. g[i] = s[i]
        BY <3>1, <4>1, ConcatEmptySeq
      <4> QED BY <3>2, <4>2
    <3>3. CASE i # 1
      <4>1. i - 1 \in 1 .. Len(s)
        BY <1>0, <3>3
      <4> QED BY <3>1, <3>3, <4>1
    <3> QED BY <3>2, <3>3
  <2> QED BY <2>1
<1> DEFINE H == CHOOSE h : h = F(h)
<1>2. Files!FlattenSeq(s) = IF Len(s) = 0 THEN s ELSE H[Len(s)]
  BY DEF Files!FlattenSeq
<1>3. H = F(H)
  <2> HIDE DEF F, f
  <2> QED BY <1>1
<1> HIDE DEF H
<1>4. CASE Len(s) = 0
  <2>1. s = <<>>
    BY <1>4
  <2> QED BY <1>2, <1>4, <2>1 DEF PartsTo
<1>5. CASE Len(s) # 0
  <2> DEFINE T == {j \in 1 .. Len(s) : H[j] # g[j]}
  <2>1. SUFFICES ASSUME T # {} PROVE FALSE
    BY <1>0, <1>2, <1>5
  <2>2. PICK j \in T : \A i \in T : j <= i
    <3>1. T \subseteq Nat
      BY <1>0
    <3> HIDE DEF T
    <3> QED BY <2>1, <3>1, LeastNatural
  <2>3. j \in 1 .. Len(s) /\ H[j] # g[j]
    BY <2>2
  <2>4. H[j] = IF j = 1 THEN s[j] ELSE H[j - 1] \o s[j]
    BY <1>3, <2>3
  <2>5. g[j] = f[j] /\ f[j] = IF j = 1 THEN s[j] ELSE f[j - 1] \o s[j]
    BY <1>1, <2>3
  <2>6. CASE j = 1
    BY <2>3, <2>4, <2>5, <2>6
  <2>7. CASE j # 1
    <3>1. j - 1 \in 1 .. Len(s) /\ j - 1 < j /\ j \in Nat
      BY <1>0, <2>3, <2>7
    <3>2. H[j - 1] = g[j - 1]
      BY <2>2, <3>1
    <3>3. f[j - 1] = g[j - 1]
      BY <3>1
    <3> HIDE DEF f
    <3> QED BY <2>3, <2>4, <2>5, <2>7, <3>2, <3>3
  <2> QED BY <2>6, <2>7
<1> QED BY <1>4, <1>5

-----------------------------------------------------------------------------
(***************************************************************************)
(* What a file should hold, and what an insertion makes of it.             *)
(***************************************************************************)
Block(b, I, i) ==
    IF b[i] \in Points /\ Files!FirstAt(b, i) THEN I[b[i]] \o <<b[i]>> ELSE <<b[i]>>
Blocks(b, I) == [i \in 1 .. Len(b) |-> Block(b, I, i)]
Whole(b, I) == Files!FlattenSeq(Blocks(b, I))

LEMMA ReferenceIsWhole == \A n : Files!Reference(n) = Whole(base[n], ins[n])
BY DEF Files!Reference, Whole, Blocks, Block

\* The blocks of a file, over a set of tokens that has all there is in them.
LEMMA BlockWithin ==
    ASSUME NEW S, NEW b \in Seq(Files!Tokens), NEW I \in [Points -> Seq(Texts)],
           Texts \subseteq S, NEW i \in 1 .. Len(b), b[i] \in S
    PROVE  Blocks(b, I)[i] \in Seq(S)
<1>1. <<b[i]>> \in Seq(S)
  OBVIOUS
<1>2. ASSUME b[i] \in Points PROVE I[b[i]] \o <<b[i]>> \in Seq(S)
  <2>1. I[b[i]] \in Seq(S)
    <3>1. I[b[i]] \in Seq(Texts)
      BY <1>2
    <3> QED BY <3>1, SeqMonotonic
  <2> QED BY <1>1, <2>1, ConcatProperties
<1> QED BY <1>1, <1>2 DEF Blocks, Block

LEMMA BlocksType ==
    ASSUME NEW b \in Seq(Files!Tokens), NEW I \in [Points -> Seq(Texts)]
    PROVE  Blocks(b, I) \in Seq(Seq(Files!Tokens)) /\ Len(Blocks(b, I)) = Len(b)
<1>1. \A i \in 1 .. Len(b) : Blocks(b, I)[i] \in Seq(Files!Tokens)
  <2> TAKE i \in 1 .. Len(b)
  <2>1. b[i] \in Files!Tokens /\ Texts \subseteq Files!Tokens
    BY DEF Files!Tokens
  <2> QED BY <2>1, BlockWithin
<1>2. Len(b) \in Nat /\ DOMAIN Blocks(b, I) = 1 .. Len(b)
      /\ Blocks(b, I) = [i \in 1 .. Len(b) |-> Blocks(b, I)[i]]
  BY DEF Blocks
<1>3. Blocks(b, I) \in [1 .. Len(b) -> Seq(Files!Tokens)]
  BY <1>1, <1>2
<1> QED BY <1>2, <1>3

\* A file that was just written is what was written.
LEMMA FreshFile ==
    ASSUME NEW b \in Seq(Files!Tokens)
    PROVE  Whole(b, [p \in Points |-> <<>>]) = b
<1> DEFINE I == [p \in Points |-> <<>>]
           s == Blocks(b, I)
           g == [k \in 0 .. Len(b) |-> SubSeq(b, 1, k)]
<1>0. I \in [Points -> Seq(Texts)] /\ Len(b) \in Nat
  OBVIOUS
<1>1. s \in Seq(Seq(Files!Tokens)) /\ Len(s) = Len(b)
  BY <1>0, BlocksType
<1>2. \A i \in 1 .. Len(b) : s[i] = <<b[i]>>
  <2> TAKE i \in 1 .. Len(b)
  <2>1. b[i] \in Files!Tokens
    OBVIOUS
  <2>2. <<b[i]>> \in Seq(Files!Tokens)
    BY <2>1
  <2>3. <<>> \o <<b[i]>> = <<b[i]>>
    BY <2>2, ConcatEmptySeq
  <2>4. b[i] \in Points => I[b[i]] = <<>>
    OBVIOUS
  <2>5. s[i] = Block(b, I, i)
    BY DEF Blocks
  <2> HIDE DEF I, s
  <2> QED BY <2>3, <2>4, <2>5 DEF Block
<1>3. \A k \in 0 .. Len(b) : SubSeq(b, 1, k) \in Seq(Files!Tokens)
  BY <1>0
<1>4. g \in [0 .. Len(b) -> Seq(Files!Tokens)]
  BY <1>3
<1>5. g[0] = <<>>
  BY <1>0
<1>6. ASSUME NEW j \in 1 .. Len(b) PROVE g[j] = g[j - 1] \o s[j]
  <2>1. 1 \in 1 .. Len(b) /\ j \in 1 .. Len(b) /\ j - 1 \in 0 .. Len(b) /\ j \in 0 .. Len(b)
    BY <1>0
  <2>2. SubSeq(b, 1, j) = SubSeq(b, 1, j - 1) \o <<b[j]>>
    BY <2>1, SubSeqRecursiveSecond
  <2> QED BY <1>2, <2>1, <2>2
<1>7. g[Len(b)] = b
  BY <1>0, SubSeqFull
<1> HIDE DEF g, s, I
<1>8. PartsTo(s, Files!Tokens, Len(s), g)
  BY <1>1, <1>4, <1>5, <1>6 DEF PartsTo
<1>9. Files!FlattenSeq(s) = b
  BY <1>1, <1>7, <1>8, FlattenIs
<1> QED BY <1>9 DEF Whole, s, I

\* The text before the first marker, the marker and the rest.
Split(S, p, A, B, c, x, y) ==
    /\ A \in Seq(S \ {p}) /\ B \in Seq(S) /\ B # <<>> /\ B[1] = p /\ c \in Seq(S)
    /\ x = A \o B /\ y = (A \o c) \o B

LEMMA InsertedAt ==
    ASSUME NEW S, NEW p, NEW A, NEW B, NEW c, NEW x, NEW y, Split(S, p, A, B, c, x, y)
    PROVE  Files!Inserted(x, p, c) = y
<1>a. /\ A \in Seq(S \ {p}) /\ B \in Seq(S) /\ B # <<>> /\ B[1] = p /\ c \in Seq(S)
      /\ x = A \o B /\ y = (A \o c) \o B
  BY DEF Split
<1> DEFINE s == A \o B
           k == Len(A) + 1
           Q == {i \in 1 .. Len(s) : s[i] = p}
<1>0. A \in Seq(S) /\ Len(A) \in Nat /\ Len(B) \in Nat \ {0}
  BY <1>a, SeqMonotonic, EmptySeq
<1>1. /\ s \in Seq(S) /\ Len(s) = Len(A) + Len(B)
      /\ \A i \in 1 .. Len(A) : s[i] = A[i]
      /\ \A i \in 1 .. Len(B) : s[Len(A) + i] = B[i]
  BY <1>0, <1>a
<1>2. k \in Q /\ k \in Nat
  BY <1>0, <1>1, <1>a
<1>3. \A i \in Q : k <= i
  <2>1. \A i \in 1 .. Len(A) : A[i] # p
    BY <1>a, ElementOfSeq
  <2>2. \A i \in 1 .. Len(s) : i < k => i \in 1 .. Len(A)
    BY <1>0, <1>1
  <2> QED BY <1>0, <1>1, <2>1, <2>2
<1>4. Files!SelectInSeq(s, LAMBDA t : t = p) = k
  <2>1. Files!Min(Q) = k
    <3>1. Q \subseteq Nat
      BY <1>0, <1>1
    <3> HIDE DEF Q, k
    <3>2. ASSUME NEW m \in Q, \A n \in Q : m <= n PROVE m = k
      <4>1. m \in Nat /\ k \in Nat /\ m <= k /\ k <= m
        BY <1>2, <1>3, <3>1, <3>2
      <4> QED BY <4>1
    <3> DEFINE L(m) == m \in Q /\ \A n \in Q : m <= n
    <3>3. L(k)
      BY <1>2, <1>3
    <3>4. \A m : L(m) => m = k
      BY <3>2
    <3>5. Files!Min(Q) = CHOOSE m : L(m)
      BY DEF Files!Min
    <3> HIDE DEF L
    <3> QED BY <3>3, <3>4, <3>5
  <2>2. Files!SelectInSeq(s, LAMBDA t : t = p) = IF Q # {} THEN Files!Min(Q) ELSE 0
    BY DEF Files!SelectInSeq
  <2> HIDE DEF Q
  <2> QED BY <1>2, <2>1, <2>2
<1>5. SubSeq(s, 1, k - 1) = A
  <2>1. k - 1 = Len(A) /\ SubSeq(s, 1, Len(A)) \in Seq(S) /\ Len(SubSeq(s, 1, Len(A))) = Len(A)
    BY <1>0, <1>1
  <2>2. \A i \in 1 .. Len(A) : SubSeq(s, 1, Len(A))[i] = A[i]
    BY <1>0, <1>1
  <2> QED BY <1>0, <1>a, <2>1, <2>2, SeqEqual
<1>6. SubSeq(s, k, Len(s)) = B
  <2>1. SubSeq(s, k, Len(s)) \in Seq(S) /\ Len(SubSeq(s, k, Len(s))) = Len(B)
    BY <1>0, <1>1
  <2>2. \A i \in 1 .. Len(B) : SubSeq(s, k, Len(s))[i] = B[i]
    BY <1>0, <1>1
  <2> QED BY <1>0, <1>a, <2>1, <2>2, SeqEqual
<1> HIDE DEF s, k
<1>7. Files!Inserted(s, p, c) = SubSeq(s, 1, k - 1) \o c \o SubSeq(s, k, Len(s))
  BY <1>4 DEF Files!Inserted
<1> QED BY <1>a, <1>5, <1>6, <1>7 DEF s

\* Concatenation is associative, under a name that the provers leave alone.
Cat(x, y) == x \o y

LEMMA CatAssociative ==
    ASSUME NEW S, NEW x \in Seq(S), NEW y \in Seq(S), NEW z \in Seq(S)
    PROVE  Cat(Cat(x, y), z) = Cat(x, Cat(y, z))
<1> DEFINE a == (x \o y) \o z
           b == x \o (y \o z)
           l == Len(x) + Len(y) + Len(z)
<1>1. /\ x \o y \in Seq(S) /\ Len(x \o y) = Len(x) + Len(y)
      /\ y \o z \in Seq(S) /\ Len(y \o z) = Len(y) + Len(z)
      /\ Len(x) \in Nat /\ Len(y) \in Nat /\ Len(z) \in Nat
  OBVIOUS
<1>2. a \in Seq(S) /\ Len(a) = l
  BY <1>1, ConcatProperties
<1>3. b \in Seq(S) /\ Len(b) = l
  BY <1>1, ConcatProperties
<1>4. \A i \in 1 .. l : a[i] = b[i]
  BY <1>1
<1>5. a = b
  <2> HIDE DEF a, b, l
  <2> QED BY <1>2, <1>3, <1>4, SeqEqual
<1> QED BY <1>5 DEF Cat

\* Two files that differ in one block, at the end of which the marker is.
Differ(S, p, A, c, x, y) ==
    \E B \in Seq(S) : B # <<>> /\ B[1] = p /\ x = A \o B /\ y = (A \o c) \o B

LEMMA DifferOn ==
    ASSUME NEW S, NEW p, NEW A \in Seq(S), NEW c \in Seq(S), NEW x, NEW y,
           Differ(S, p, A, c, x, y), NEW u \in Seq(S)
    PROVE  Differ(S, p, A, c, x \o u, y \o u)
<1>1. PICK B \in Seq(S) : B # <<>> /\ B[1] = p /\ x = A \o B /\ y = (A \o c) \o B
  BY DEF Differ
<1>2. A \o c \in Seq(S) /\ B \o u \in Seq(S)
  BY ConcatProperties
<1>3. B \o u # <<>> /\ (B \o u)[1] = p
  <2>1. Len(B) \in Nat \ {0} /\ Len(u) \in Nat
    BY <1>1, EmptySeq
  <2>2. Len(B \o u) = Len(B) + Len(u) /\ (B \o u)[1] = B[1]
    BY <2>1
  <2>3. Len(B \o u) # 0
    BY <2>1, <2>2
  <2> QED BY <1>1, <2>2, <2>3, EmptySeq
<1>4. x \o u = A \o (B \o u)
  <2>1. Cat(Cat(A, B), u) = Cat(A, Cat(B, u))
    BY CatAssociative
  <2> QED BY <1>1, <2>1 DEF Cat
<1>5. y \o u = (A \o c) \o (B \o u)
  <2> DEFINE D == A \o c
  <2>1. D \in Seq(S) /\ y = D \o B
    BY <1>1, <1>2
  <2> HIDE DEF D
  <2>2. Cat(Cat(D, B), u) = Cat(D, Cat(B, u))
    BY <2>1, CatAssociative
  <2>3. y \o u = D \o (B \o u)
    BY <2>1, <2>2 DEF Cat
  <2> QED BY <2>3 DEF D
<1> QED BY <1>2, <1>3, <1>4, <1>5 DEF Differ

\* What was inserted at each point, with c inserted at p.
Extended(I, p, c) == [I EXCEPT ![p] = @ \o c]

\* Text without markers that is inserted at a point comes after all that was
\* inserted there before, and in front of the marker.
LEMMA InsertedInto ==
    ASSUME NEW b \in Seq(Files!Tokens), NEW I \in [Points -> Seq(Texts)],
           NEW p \in Points, NEW c \in Seq(Texts), Files!HasPoint(Whole(b, I), p)
    PROVE  Files!Inserted(Whole(b, I), p, c) = Whole(b, Extended(I, p, c))
<1> DEFINE J == Extended(I, p, c)
           S == Files!Tokens
           s == Blocks(b, I)
           t == Blocks(b, J)
           N == Len(b)
<1>0. /\ N \in Nat /\ p \in S /\ p \notin Texts /\ Texts \subseteq S \ {p} /\ Texts \subseteq S
      /\ \A i \in 1 .. N : b[i] \in S
  <2>1. Points \cap Texts = {}
    BY DEF Files!ConstantsOK
  <2> QED BY <2>1 DEF Files!Tokens
<1>1. c \in Seq(S) /\ I[p] \in Seq(Texts) /\ I[p] \in Seq(S) /\ I[p] \in Seq(S \ {p})
  <2>1. I[p] \in Seq(Texts)
    OBVIOUS
  <2> HIDE DEF S
  <2> QED BY <1>0, <2>1, SeqMonotonic
<1>2. J \in [Points -> Seq(Texts)] /\ J[p] = I[p] \o c /\ \A q \in Points : q # p => J[q] = I[q]
  <2>1. I[p] \o c \in Seq(Texts)
    BY <1>1, ConcatProperties
  <2> QED BY <2>1 DEF Extended
<1>3. s \in Seq(Seq(S)) /\ t \in Seq(Seq(S)) /\ Len(s) = N /\ Len(t) = N
  <2> HIDE DEF J
  <2> QED BY <1>2, BlocksType
<1>4. PICK g : PartsTo(s, S, N, g)
  <2> HIDE DEF s, S, N
  <2> QED BY <1>3, PartsExist
<1>5. PICK h : PartsTo(t, S, N, h)
  <2> HIDE DEF t, S, N
  <2> QED BY <1>3, PartsExist
<1>6. Whole(b, I) = g[N] /\ Whole(b, J) = h[N]
  <2> HIDE DEF J, S, N
  <2>1. Files!FlattenSeq(s) = g[Len(s)]
    <3> HIDE DEF s
    <3> QED BY <1>3, <1>4, FlattenIs
  <2>2. Files!FlattenSeq(t) = h[Len(t)]
    <3> HIDE DEF t
    <3> QED BY <1>3, <1>5, FlattenIs
  <2> QED BY <1>3, <2>1, <2>2 DEF Whole
\* The marker comes from the complete file.
<1>7. \A j \in 1 .. N : b[j] # p => s[j] \in Seq(S \ {p})
  <2> TAKE j \in 1 .. N
  <2> HAVE b[j] # p
  <2>1. b[j] \in S \ {p}
    BY <1>0
  <2> HIDE DEF S
  <2>2. b \in Seq(Files!Tokens)
    OBVIOUS
  <2> QED BY <1>0, <2>1, <2>2, BlockWithin
<1>8. \E i \in 1 .. N : b[i] = p
  <2> SUFFICES ASSUME \A i \in 1 .. N : b[i] # p PROVE FALSE
    OBVIOUS
  <2>1. \A j \in 0 .. N : g[j] \in Seq(S \ {p})
    <3>1. WithinTo(s, S \ {p}, N) /\ N <= N
      BY <1>0, <1>7 DEF WithinTo
    <3> HIDE DEF s, S, N
    <3> QED BY <1>0, <1>4, <3>1, PartsWithin
  <2>2. g[N] \in Seq(S \ {p})
    BY <1>0, <2>1
  <2> HIDE DEF S, N
  <2>3. {i \in 1 .. Len(g[N]) : g[N][i] = p} = {}
    BY <2>2, ElementOfSeq
  <2>4. Files!SelectInSeq(g[N], LAMBDA v : v = p) = 0
    BY <2>3 DEF Files!SelectInSeq
  <2> QED BY <1>6, <2>4 DEF Files!HasPoint
<1>9. PICK i \in 1 .. N : b[i] = p /\ \A j \in 1 .. N : b[j] = p => i <= j
  <2> DEFINE T == {i \in 1 .. N : b[i] = p}
  <2>1. T # {} /\ T \subseteq Nat
    <3>1. T # {}
      BY <1>8
    <3>2. \A j \in T : j \in 1 .. N
      OBVIOUS
    <3> HIDE DEF T
    <3> QED BY <1>0, <3>1, <3>2
  <2>2. PICK i \in T : \A j \in T : i <= j
    <3> HIDE DEF T
    <3> QED BY <2>1, LeastNatural
  <2> QED BY <2>2
<1>10. i \in Nat /\ i >= 1 /\ i <= N /\ i - 1 \in Nat /\ i \in 1 .. N
  BY <1>0
<1>11. s[i] = I[p] \o <<p>> /\ t[i] = (I[p] \o c) \o <<p>>
  <2>1. Files!FirstAt(b, i)
    BY <1>0, <1>9, <1>10 DEF Files!FirstAt
  <2> QED BY <1>2, <1>9, <2>1 DEF Blocks, Block
<1>12. \A j \in 1 .. N : j # i => s[j] = t[j]
  <2> TAKE j \in 1 .. N
  <2> HAVE j # i
  <2>1. CASE b[j] = p
    <3>1. i \in 1 .. j - 1 /\ b[i] = b[j]
      BY <1>0, <1>9, <1>10, <2>1
    <3>2. ~ Files!FirstAt(b, j)
      BY <3>1 DEF Files!FirstAt
    <3> QED BY <3>2 DEF Blocks, Block
  <2>2. CASE b[j] # p
    BY <1>2, <2>2 DEF Blocks, Block
  <2> QED BY <2>1, <2>2
<1> HIDE DEF s, t, J
<1>13. \A j \in 0 .. i - 1 : g[j] = h[j]
  <2>1. SameTo(s, t, i - 1) /\ i - 1 <= N
    <3>1. \A j \in 1 .. i - 1 : j \in 1 .. N /\ j # i
      BY <1>0, <1>10
    <3>2. i - 1 <= N
      BY <1>0, <1>10
    <3> HIDE DEF N
    <3> QED BY <1>12, <3>1, <3>2 DEF SameTo
  <2> HIDE DEF S, N
  <2> QED BY <1>0, <1>4, <1>5, <1>10, <2>1, PartsAgree
<1> DEFINE A == g[i - 1] \o I[p]
<1>14. g[i - 1] \in Seq(S \ {p}) /\ g[i - 1] \in Seq(S)
  <2>1. WithinTo(s, S \ {p}, i - 1) /\ i - 1 <= N
    BY <1>0, <1>7, <1>9, <1>10 DEF WithinTo
  <2>2. \A j \in 0 .. i - 1 : g[j] \in Seq(S \ {p})
    <3> HIDE DEF S, N
    <3> QED BY <1>0, <1>4, <1>10, <2>1, PartsWithin
  <2>3. g[i - 1] \in Seq(S \ {p})
    BY <1>10, <2>2
  <2> HIDE DEF S
  <2> QED BY <2>3, SeqMonotonic
<1>15. A \in Seq(S \ {p}) /\ A \in Seq(S) /\ <<p>> \in Seq(S)
  <2>1. A \in Seq(S \ {p}) /\ A \in Seq(S)
    <3> HIDE DEF S
    <3> QED BY <1>1, <1>14, ConcatProperties
  <2> QED BY <1>0, <2>1
<1> HIDE DEF S
<1>16. Differ(S, p, A, c, g[i], h[i])
  <2>0. g[i - 1] = h[i - 1]
    BY <1>10, <1>13
  <2>1. g[i] = g[i - 1] \o s[i] /\ h[i] = h[i - 1] \o t[i] /\ g[i - 1] = h[i - 1]
    BY <1>4, <1>5, <1>10, <2>0 DEF PartsTo
  <2> DEFINE X == g[i - 1]
             Y == I[p]
             P == <<p>>
  <2>a. X \in Seq(S) /\ Y \in Seq(S) /\ P \in Seq(S) /\ A = X \o Y
    BY <1>1, <1>14, <1>15
  <2>b. g[i] = X \o (Y \o P) /\ h[i] = X \o ((Y \o c) \o P)
    BY <1>11, <2>1
  <2> HIDE DEF X, Y, P
  <2>2. g[i] = A \o P
    <3>1. Cat(Cat(X, Y), P) = Cat(X, Cat(Y, P))
      BY <2>a, CatAssociative
    <3> QED BY <2>a, <2>b, <3>1 DEF Cat
  <2>3. h[i] = (A \o c) \o P
    <3> DEFINE Z == Y \o c
    <3>1. Z \in Seq(S)
      BY <1>1, <2>a, ConcatProperties
    <3>2. Cat(Cat(X, Y), c) = Cat(X, Z)
      <4>1. Cat(Cat(X, Y), c) = Cat(X, Cat(Y, c))
        BY <1>1, <2>a, CatAssociative
      <4> QED BY <4>1 DEF Cat
    <3> HIDE DEF Z
    <3>3. Cat(Cat(X, Z), P) = Cat(X, Cat(Z, P))
      BY <2>a, <3>1, CatAssociative
    <3>4. h[i] = (X \o Z) \o P
      BY <2>b, <3>3 DEF Z, Cat
    <3> QED BY <2>a, <3>2, <3>4 DEF Cat
  <2>4. P # <<>> /\ P[1] = p
    BY DEF P
  <2> HIDE DEF A
  <2> QED BY <2>a, <2>2, <2>3, <2>4 DEF Differ
<1> HIDE DEF A
<1>17. \A k \in i .. N : Differ(S, p, A, c, g[k], h[k])
  <2> DEFINE T == {k \in i .. N : ~ Differ(S, p, A, c, g[k], h[k])}
  <2>1. SUFFICES ASSUME T # {} PROVE FALSE
    OBVIOUS
  <2>2. PICK k \in T : \A j \in T : k <= j
    <3>1. T \subseteq Nat
      BY <1>0, <1>10
    <3> HIDE DEF T
    <3> QED BY <2>1, <3>1, LeastNatural
  <2>3. k \in i .. N /\ ~ Differ(S, p, A, c, g[k], h[k])
    BY <2>2
  <2>4. k # i
    BY <1>16, <2>3
  <2>5. k - 1 \in i .. N /\ k \in 1 .. N /\ k \in Nat
    BY <1>0, <1>10, <2>3, <2>4
  <2>6. k - 1 \notin T
    <3> HIDE DEF T
    <3>1. SUFFICES ASSUME k - 1 \in T PROVE FALSE
      OBVIOUS
    <3>2. k <= k - 1
      BY <2>2, <3>1
    <3> QED BY <2>5, <3>2
  <2>7. Differ(S, p, A, c, g[k - 1], h[k - 1])
    BY <2>5, <2>6
  <2>8. g[k] = g[k - 1] \o s[k] /\ h[k] = h[k - 1] \o s[k] /\ s[k] \in Seq(S)
    <3>1. s[k] = t[k]
      BY <1>12, <2>4, <2>5
    <3>2. s[k] \in Seq(S)
      BY <1>3, <2>5
    <3> QED BY <1>4, <1>5, <2>5, <3>1, <3>2 DEF PartsTo
  <2>9. Differ(S, p, A, c, g[k], h[k])
    BY <1>1, <1>15, <2>7, <2>8, DifferOn
  <2> QED BY <2>3, <2>9
<1>18. N \in i .. N
  BY <1>0, <1>10
<1>19. PICK B \in Seq(S) : B # <<>> /\ B[1] = p /\ g[N] = A \o B /\ h[N] = (A \o c) \o B
  BY <1>17, <1>18 DEF Differ
<1>20. Files!Inserted(g[N], p, c) = h[N]
  <2>1. Split(S, p, A, B, c, g[N], h[N])
    BY <1>1, <1>15, <1>19 DEF Split
  <2> QED BY <2>1, InsertedAt
<1> QED BY <1>6, <1>20 DEF J

-----------------------------------------------------------------------------
(***************************************************************************)
(* The files in the output directory.                                      *)
(***************************************************************************)

\* What is inserted has no markers of its own: a later insertion would go in
\* front of the first of those.
PlainInsertions ==
    \A r \in Responses : \A i \in 1 .. Len(r) :
        r[i].point # NoPoint => r[i].content \in Seq(Texts)

FilesInv ==
    /\ base \in [Names -> Seq(Files!Tokens)]
    /\ ins \in [Names -> [Points -> Seq(Texts)]]
    /\ DOMAIN disk = Names /\ present \subseteq Names
    /\ idx \in Nat \ {0}
    /\ resp \in Seq(Files!Entries)
    /\ \A i \in 1 .. Len(resp) : resp[i].point # NoPoint => resp[i].content \in Seq(Texts)
    /\ Files!InsertionsInOrder

\* The entry that is applied.
LEMMA EntryIs ==
    ASSUME FilesInv, idx <= Len(resp)
    PROVE  /\ Files!Entry.content \in Seq(Files!Tokens)
           /\ ~ Files!IsFile(Files!Entry) =>
                 Files!Entry.point \in Points /\ Files!Entry.content \in Seq(Texts)
<1>1. idx \in 1 .. Len(resp)
  BY DEF FilesInv
<1>2. resp[idx] \in Files!Entries
  BY <1>1, ElementOfSeq DEF FilesInv
<1>3. resp[idx].content \in Seq(Files!Tokens) /\ resp[idx].point \in Points \cup {NoPoint}
  BY <1>2 DEF Files!Entries
<1>4. resp[idx].point # NoPoint => resp[idx].content \in Seq(Texts)
  BY <1>1 DEF FilesInv
<1> QED BY <1>3, <1>4 DEF Files!Entry, Files!IsFile

\* A step that leaves the files alone.
LEMMA FilesAlone ==
    ASSUME FilesInv, UNCHANGED Files!files
    PROVE  /\ base' \in [Names -> Seq(Files!Tokens)]
           /\ ins' \in [Names -> [Points -> Seq(Texts)]]
           /\ DOMAIN disk' = Names /\ present' \subseteq Names
           /\ Files!InsertionsInOrder'
<1>1. \A n : Files!Reference(n)' = Files!Reference(n)
  BY DEF Files!files, Files!Reference, Files!FirstAt
<1> QED BY <1>1 DEF FilesInv, Files!files, Files!InsertionsInOrder

\* A step that writes one file: the others stay what they were.
LEMMA FileWritten ==
    ASSUME FilesInv, NEW n \in Names, NEW v,
           disk' = [disk EXCEPT ![n] = v], present' = present \cup {n},
           \A m \in Names : m # n => base'[m] = base[m] /\ ins'[m] = ins[m],
           \A m \in Names : m # n => (m \in damaged' <=> m \in damaged),
           n \in damaged' \/ v = Whole(base'[n], ins'[n])
    PROVE  DOMAIN disk' = Names /\ present' \subseteq Names /\ Files!InsertionsInOrder'
<1>1. DOMAIN disk' = Names /\ disk'[n] = v /\ \A m \in Names : m # n => disk'[m] = disk[m]
  BY DEF FilesInv
<1>2. present' \subseteq Names
  BY DEF FilesInv
<1>3. \A m : Files!Reference(m)' = Whole(base'[m], ins'[m])
  BY DEF Files!Reference, Whole, Blocks, Block, Files!FirstAt
<1>4. ASSUME NEW m \in present' \ damaged' PROVE disk'[m] = Whole(base'[m], ins'[m])
  <2>1. CASE m = n
    BY <1>1, <2>1
  <2>2. CASE m # n
    <3>1. m \in present \ damaged /\ m \in Names
      BY <1>2, <2>2
    <3>2. disk[m] = Whole(base[m], ins[m])
      BY <3>1, ReferenceIsWhole DEF FilesInv, Files!InsertionsInOrder
    <3> QED BY <1>1, <2>2, <3>1, <3>2
  <2> QED BY <2>1, <2>2
<1> QED BY <1>1, <1>2, <1>3, <1>4 DEF Files!InsertionsInOrder

\* The end of an entry, whatever became of it.
LEMMA AdvanceKeeps ==
    ASSUME FilesInv, Files!Advance
    PROVE  /\ idx' \in Nat \ {0} /\ resp' \in Seq(Files!Entries)
           /\ \A i \in 1 .. Len(resp') : resp'[i].point # NoPoint => resp'[i].content \in Seq(Texts)
BY DEF FilesInv, Files!Advance

\* A failing write leaves the file alone, or marks it as damaged.
LEMMA WriteFailsKeeps ==
    ASSUME FilesInv, NEW n \in Names, NEW c, Files!WriteFails(n, c)
    PROVE  /\ base' \in [Names -> Seq(Files!Tokens)]
           /\ ins' \in [Names -> [Points -> Seq(Texts)]]
           /\ DOMAIN disk' = Names /\ present' \subseteq Names
           /\ Files!InsertionsInOrder'
<1>1. CASE UNCHANGED Files!files
  BY <1>1, FilesAlone
<1>2. ASSUME NEW k \in 0 .. Len(c) - 1,
             disk' = [disk EXCEPT ![n] = SubSeq(c, 1, k)],
             present' = present \cup {n} /\ damaged' = damaged \cup {n},
             UNCHANGED <<base, ins>>
      PROVE  /\ base' \in [Names -> Seq(Files!Tokens)]
             /\ ins' \in [Names -> [Points -> Seq(Texts)]]
             /\ DOMAIN disk' = Names /\ present' \subseteq Names
             /\ Files!InsertionsInOrder'
  <2>1. DOMAIN disk' = Names /\ present' \subseteq Names /\ Files!InsertionsInOrder'
    <3> DEFINE v == SubSeq(c, 1, k)
    <3>1. disk' = [disk EXCEPT ![n] = v]
      BY <1>2
    <3> HIDE DEF v
    <3> QED BY <1>2, <3>1, FileWritten
  <2> QED BY <1>2, <2>1 DEF FilesInv
<1> QED BY <1>1, <1>2 DEF Files!WriteFails

LEMMA WriteFileKeeps ==
    ASSUME FilesInv, Files!WriteFile
    PROVE  FilesInv'
<1> DEFINE n == Files!Entry.name
           c == Files!Entry.content
<1>0. n \in Names /\ c \in Seq(Files!Tokens)
  BY EntryIs DEF Files!WriteFile
<1>1. CASE /\ Files!WriteOk(n, c)
           /\ base' = [base EXCEPT ![n] = c]
           /\ ins' = [ins EXCEPT ![n] = [p \in Points |-> <<>>]]
           /\ damaged' = damaged \ {n}
           /\ Files!Advance
  <2> DEFINE none == [p \in Points |-> <<>>]
  <2> HIDE DEF n, c
  <2>1. none \in [Points -> Seq(Texts)] /\ Whole(c, none) = c
    BY <1>0, FreshFile
  <2> HIDE DEF none
  <2>2. ins' = [ins EXCEPT ![n] = none]
    BY <1>1 DEF none
  <2>3. base' \in [Names -> Seq(Files!Tokens)] /\ ins' \in [Names -> [Points -> Seq(Texts)]]
    BY <1>0, <1>1, <2>1, <2>2 DEF FilesInv
  <2>4. /\ base'[n] = c /\ ins'[n] = none
        /\ \A m \in Names : m # n => base'[m] = base[m] /\ ins'[m] = ins[m]
        /\ \A m \in Names : m # n => (m \in damaged' <=> m \in damaged)
    BY <1>0, <1>1, <2>2 DEF FilesInv
  <2>5. DOMAIN disk' = Names /\ present' \subseteq Names /\ Files!InsertionsInOrder'
    BY <1>0, <1>1, <2>1, <2>4, FileWritten DEF Files!WriteOk
  <2> QED BY <1>1, <2>3, <2>5, AdvanceKeeps DEF FilesInv
<1>2. CASE Files!WriteFails(n, c) /\ Files!Advance
  <2> HIDE DEF n, c
  <2> QED BY <1>0, <1>2, WriteFailsKeeps, AdvanceKeeps DEF FilesInv
<1> QED BY <1>1, <1>2 DEF Files!WriteFile, Files!Miss

LEMMA InsertTextKeeps ==
    ASSUME FilesInv, Files!InsertText
    PROVE  FilesInv'
<1> DEFINE n == Files!Entry.name
           p == Files!Entry.point
           c == Files!Entry.content
           new == Files!Inserted(disk[n], p, c)
<1>0. n \in Names /\ p \in Points /\ c \in Seq(Texts)
  BY EntryIs DEF Files!InsertText
<1>1. CASE UNCHANGED Files!files /\ Files!Advance
  BY <1>1, FilesAlone, AdvanceKeeps DEF FilesInv
<1>2. CASE /\ n \in present /\ Files!HasPoint(disk[n], p)
           /\ Files!WriteOk(n, new)
           /\ ins' = [ins EXCEPT ![n][p] = @ \o c]
           /\ Files!Advance /\ UNCHANGED <<base, damaged>>
  <2> HIDE DEF n, p, c, new
  <2>1. ins[n] \in [Points -> Seq(Texts)] /\ base[n] \in Seq(Files!Tokens)
    BY <1>0 DEF FilesInv
  <2> DEFINE J == Extended(ins[n], p, c)
  <2>2. ins' = [ins EXCEPT ![n] = J]
    BY <1>0, <1>2, <2>1 DEF FilesInv, Extended
  <2>3. J \in [Points -> Seq(Texts)]
    <3>1. ins[n][p] \in Seq(Texts)
      BY <1>0, <2>1
    <3>2. ins[n][p] \o c \in Seq(Texts)
      BY <1>0, <3>1, ConcatProperties
    <3> QED BY <1>0, <2>1, <3>2 DEF Extended
  <2>4. n \in damaged \/ new = Whole(base[n], J)
    <3> SUFFICES ASSUME n \notin damaged PROVE new = Whole(base[n], J)
      OBVIOUS
    <3>1. disk[n] = Whole(base[n], ins[n])
      BY <1>2, ReferenceIsWhole DEF FilesInv, Files!InsertionsInOrder
    <3>2. Files!Inserted(Whole(base[n], ins[n]), p, c) = Whole(base[n], J)
      <4> DEFINE b == base[n]
                 I == ins[n]
      <4>1. /\ b \in Seq(Files!Tokens) /\ I \in [Points -> Seq(Texts)]
            /\ Files!HasPoint(Whole(b, I), p) /\ J = Extended(I, p, c)
        BY <1>2, <2>1, <3>1
      <4> HIDE DEF b, I, J
      <4>2. Files!Inserted(Whole(b, I), p, c) = Whole(b, J)
        BY <1>0, <4>1, InsertedInto
      <4> QED BY <4>2 DEF b, I
    <3> QED BY <3>1, <3>2 DEF new
  <2> HIDE DEF J
  <2>5. ins' \in [Names -> [Points -> Seq(Texts)]] /\ base' \in [Names -> Seq(Files!Tokens)]
    BY <1>0, <1>2, <2>2, <2>3 DEF FilesInv
  <2>6. /\ ins'[n] = J /\ base'[n] = base[n]
        /\ \A m \in Names : m # n => base'[m] = base[m] /\ ins'[m] = ins[m]
        /\ \A m \in Names : m # n => (m \in damaged' <=> m \in damaged)
    BY <1>0, <1>2, <2>2 DEF FilesInv
  <2>7. DOMAIN disk' = Names /\ present' \subseteq Names /\ Files!InsertionsInOrder'
    BY <1>0, <1>2, <2>4, <2>6, FileWritten DEF Files!WriteOk
  <2> QED BY <1>2, <2>5, <2>7, AdvanceKeeps DEF FilesInv
<1>3. CASE Files!WriteFails(n, new) /\ Files!Advance
  <2> HIDE DEF n, new
  <2> QED BY <1>0, <1>3, WriteFailsKeeps, AdvanceKeeps DEF FilesInv
<1> QED BY <1>1, <1>2, <1>3 DEF Files!InsertText, Files!Miss

LEMMA FilesStep ==
    ASSUME PlainInsertions, FilesInv, Files!Next
    PROVE  FilesInv'
<1>1. CASE Files!PluginAnswers
  <2>1. resp' \in Responses /\ idx' = 1 /\ UNCHANGED Files!files
    BY <1>1 DEF Files!PluginAnswers
  <2>2. resp' \in Seq(Files!Entries)
    BY <2>1 DEF Files!ConstantsOK
  <2>3. \A i \in 1 .. Len(resp') : resp'[i].point # NoPoint => resp'[i].content \in Seq(Texts)
    BY <2>1 DEF PlainInsertions
  <2> QED BY <2>1, <2>2, <2>3, FilesAlone DEF FilesInv
<1>2. CASE Files!SkipEntry
  BY <1>2, FilesAlone, AdvanceKeeps DEF Files!SkipEntry, FilesInv
<1>3. CASE Files!RefuseEntry
  BY <1>3, FilesAlone, AdvanceKeeps DEF Files!RefuseEntry, Files!Miss, FilesInv
<1>4. ASSUME UNCHANGED <<Files!files, resp>>, idx' \in Nat \ {0}
      PROVE  FilesInv'
  BY <1>4, FilesAlone DEF FilesInv
<1>5. CASE Files!PluginFails
  BY <1>4, <1>5 DEF Files!PluginFails, FilesInv
<1>6. CASE Files!NextPass
  BY <1>4, <1>6 DEF Files!NextPass, Files!control
<1>7. CASE Files!EndPlugin
  BY <1>4, <1>7 DEF Files!EndPlugin
<1>8. CASE Files!Done
  BY <1>4, <1>8 DEF Files!Done, Files!vars, Files!files, FilesInv
<1> QED BY <1>1, <1>2, <1>3, <1>5, <1>6, <1>7, <1>8, WriteFileKeeps, InsertTextKeeps
        DEF Files!Next

\* Whatever plugins, responses and failing writes there are, a file written
\* without a disk error is its last complete version with every later
\* insertion in front of its marker, in order: for all responses whose
\* insertions carry no markers of their own.
THEOREM InsertionsKept ==
    ASSUME PlainInsertions
    PROVE  BuildSpec => []InsertionsInOrder
<1>1. BuildInit => FilesInv
  <2> SUFFICES ASSUME BuildInit PROVE FilesInv
    OBVIOUS
  <2>1. Files!Init
    BY DEF BuildInit
  <2>2. <<>> \in Seq(Files!Tokens) /\ <<>> \in Seq(Texts) /\ <<>> \in Seq(Files!Entries)
    BY EmptySeq
  <2>3. base \in [Names -> Seq(Files!Tokens)] /\ ins \in [Names -> [Points -> Seq(Texts)]]
    BY <2>1, <2>2 DEF Files!Init
  <2>4. DOMAIN disk = Names /\ present = {} /\ idx = 1 /\ resp = <<>>
    BY <2>1 DEF Files!Init
  <2>5. Files!InsertionsInOrder
    BY <2>4 DEF Files!InsertionsInOrder
  <2> QED BY <2>2, <2>3, <2>4, <2>5 DEF FilesInv
<1>2. FilesInv /\ [BuildNext]_allVars => FilesInv'
  <2>1. ASSUME FilesInv, UNCHANGED filesVars PROVE FilesInv'
    BY <2>1, FilesAlone DEF FilesInv, filesVars, Files!files
  <2> QED BY <2>1, FilesStep DEF BuildNext, allVars
<1>3. FilesInv => InsertionsInOrder
  BY DEF FilesInv, InsertionsInOrder
<1> QED BY <1>1, <1>2, <1>3, PTL DEF BuildSpec
-----------------------------------------------------------------------------
(***************************************************************************)
(* The first half, one invocation of a plugin, for every size of request,  *)
(* response and pipe, every timeout and every plugin: the inductive        *)
(* invariant IInv is the type invariant with the accounts of the two       *)
(* pipes, what each phase knows of the process, and where the clock is.    *)
(***************************************************************************)
Loop == {"top", "poll", "write", "read"}

\* Every chunk is in one place: read, in the pipe, or not yet written.
Accounts ==
    /\ plugin.read + inPipe = written
    /\ got + outPipe = plugin.wrote

\* What the compiler knows of the process where it is.
Phases ==
    /\ pc = "spawn" => plugin.status = "none" /\ fds = {}
    /\ pc \in Loop \cup {"wait"} => plugin.status \in {"running", "zombie"}
    /\ pc \in {"wait", "judge"} => outPipe = 0 /\ "out" \notin plugin.ends
    /\ pc = "judge" => plugin.status = "reaped" /\ exitCode = plugin.code
    /\ result = "ok_files" => pc = "done" /\ plugin.status = "reaped"

\* Where the clock is: each phase ends by its own deadline.
Clock ==
    Timeout > 0 =>
        /\ pc = "spawn" => now = 0
        /\ pc \in Loop => now <= deadline /\ deadline = Timeout
        /\ pc = "wait" => now <= deadline /\ deadline <= 2 * Timeout
        /\ now <= 2 * Timeout

IInv == TypeOK /\ Accounts /\ Phases /\ Clock /\ GeneratedFromWholeOutput /\ NothingLeftBehind

USE SizesAssumption, StylesAssumption

\* The initial states satisfy the invariant.
LEMMA InitIInv == Init => IInv
<1> SUFFICES ASSUME Init PROVE IInv
  OBVIOUS
<1> USE DEF Init
<1>1. plugin.status = "none" /\ plugin.read = 0 /\ plugin.wrote = 0
  OBVIOUS
<1>2. plugin \in [style : AllStyles, status : Statuses, code : ExitCodes,
                  ends : SUBSET {"in", "out"}, read : 0 .. ReqLen, wrote : 0 .. RespLen]
  BY DEF Statuses, ExitCodes
<1>3. TypeOK
  BY <1>2 DEF TypeOK, Pcs, ExitCodes
<1>4. Accounts /\ Phases /\ Clock /\ GeneratedFromWholeOutput /\ NothingLeftBehind
  BY <1>1 DEF Accounts, Phases, Clock, GeneratedFromWholeOutput, NothingLeftBehind, Loop
<1> QED BY <1>3, <1>4 DEF IInv

\* A failed exchange: the process is reaped and everything closed.
LEMMA FailureStep ==
    ASSUME IInv, ExchangeFails, pc \in Loop
    PROVE  IInv'
BY DEF IInv, ExchangeFails, KillAndReap, TypeOK, Accounts, Phases, Clock,
       GeneratedFromWholeOutput, NothingLeftBehind, Loop, Pcs, Statuses, ExitCodes,
       ErrorCodes, Killed, pipes, time

\* Every step keeps the invariant.
LEMMA NextIInv == IInv /\ [Next]_vars => IInv'
<1> SUFFICES ASSUME IInv, [Next]_vars PROVE IInv'
  OBVIOUS
<1> USE DEF IInv, TypeOK, Accounts, Phases, Clock, GeneratedFromWholeOutput,
            NothingLeftBehind, Loop, Pcs, Statuses, ExitCodes, ErrorCodes, pipes, time, host
<1>1. CASE Refuse
  BY <1>1 DEF Refuse
<1>2. CASE Spawn
  <2>1. /\ pc = "spawn" /\ pc' = "top" /\ fds' \subseteq {"stdin", "stdout"}
        /\ plugin' = [plugin EXCEPT !.status = "running", !.ends = {"in", "out"}]
        /\ deadline' = now + Timeout
        /\ UNCHANGED <<written, got, revents, exitCode, result, now, inPipe, outPipe>>
    BY <1>2 DEF Spawn
  <2>2. /\ plugin'.status = "running"
        /\ plugin'.read = plugin.read /\ plugin'.wrote = plugin.wrote
        /\ plugin'.code = plugin.code
    BY <2>1
  <2>3. TypeOK'
    <3>1. {"in", "out"} \in SUBSET {"in", "out"}
      OBVIOUS
    <3>2. plugin' \in [style : AllStyles, status : Statuses, code : ExitCodes,
                       ends : SUBSET {"in", "out"}, read : 0 .. ReqLen, wrote : 0 .. RespLen]
      BY <2>1, <3>1
    <3>3. deadline' \in Nat /\ pc' \in Pcs
      BY <2>1
    <3> QED BY <2>1, <3>2, <3>3
  <2>4. result # "ok_files"
    BY <2>1
  <2>5. Clock'
    BY <2>1
  <2> QED BY <2>1, <2>2, <2>3, <2>4, <2>5
<1>3. CASE Top
  <2>1. CASE Expired
    BY <1>3, <2>1, FailureStep DEF Top
  <2>2. CASE ~Expired
    BY <1>3, <2>2 DEF Top
  <2> QED BY <2>1, <2>2
<1>4. CASE Poll
  BY <1>4 DEF Poll, Ready
<1>5. CASE PollTimesOut
  BY <1>5, FailureStep DEF PollTimesOut
<1>6. CASE PollFails
  BY <1>6, FailureStep DEF PollFails
<1>7. CASE WriteRequest
  <2>1. /\ pc = "write" /\ pc' = "read"
        /\ UNCHANGED <<got, revents, exitCode, result, plugin, outPipe, now, deadline>>
    BY <1>7 DEF WriteRequest
  <2>2. fds' \subseteq fds
    BY <1>7 DEF WriteRequest, FeedStdin
  <2>3. /\ written' \in 0 .. ReqLen /\ inPipe' \in 0 .. PipeCap
        /\ plugin.read + inPipe' = written'
    BY <1>7 DEF WriteRequest, FeedStdin, Remaining
  <2> QED BY <2>1, <2>2, <2>3
<1>8. CASE ReadResponse
  <2>1. CASE NotReported
    BY <1>8, <2>1 DEF ReadResponse, NotReported
  <2>2. CASE ReadSome
    BY <1>8, <2>2 DEF ReadResponse, ReadSome
  <2>3. CASE ReadEof
    BY <1>8, <2>3 DEF ReadResponse, ReadEof
  <2> QED BY <1>8, <2>1, <2>2, <2>3 DEF ReadResponse
<1>9. CASE WaitReaps
  BY <1>9 DEF WaitReaps
<1>10. CASE WaitKills
  BY <1>10 DEF WaitKills, KillAndReap, Killed
<1>11. CASE Judge
  BY <1>11 DEF Judge, Decoded, Verdict
<1>12. CASE PluginReads
  BY <1>12 DEF PluginReads, Answered
<1>13. CASE PluginWrites
  BY <1>13 DEF PluginWrites, Answered
<1>14. CASE PluginExits
  <2>1. PICK c \in Codes \cup {0, Killed}, held \in {{}, {"out"}} :
            plugin' = [plugin EXCEPT !.status = "zombie", !.code = c, !.ends = @ \cap held]
    BY <1>14 DEF PluginExits
  <2>2. UNCHANGED <<pc, written, got, fds, revents, exitCode, result, inPipe, outPipe, now,
                    deadline>> /\ plugin.status = "running"
    BY <1>14 DEF PluginExits
  <2>3. /\ plugin'.ends \subseteq plugin.ends /\ plugin'.status = "zombie"
        /\ plugin'.read = plugin.read /\ plugin'.wrote = plugin.wrote
    BY <2>1
  <2>4. TypeOK'
    BY <2>1, <2>2, <2>3
  <2> QED BY <2>2, <2>3, <2>4
<1>15. CASE PluginCloses
  BY <1>15 DEF PluginCloses
<1>16. CASE Tick
  BY <1>16 DEF Tick, Blocked, Expired
<1>17. CASE UNCHANGED vars
  BY <1>17 DEF vars
<1> QED
  BY <1>1, <1>2, <1>3, <1>4, <1>5, <1>6, <1>7, <1>8, <1>9, <1>10, <1>11, <1>12, <1>13,
     <1>14, <1>15, <1>16, <1>17 DEF Next, Host, Plugin, Done

\* The invariant holds in every reachable state.
THEOREM Invariance == Spec => []IInv
BY InitIInv, NextIInv, PTL DEF Spec

\* The variables keep their types.
THEOREM TypeCorrect == Spec => []TypeOK
BY Invariance, PTL DEF IInv

\* Files come only from the whole output of a plugin that exited with 0, whatever the sizes
\* of the response and the pipes and however the plugin times its writes.
THEOREM WholeOutput == Spec => []GeneratedFromWholeOutput
BY Invariance, PTL DEF IInv

\* Whatever the plugin does and wherever the exchange fails, the process is reaped and the
\* descriptors are closed when _invoke_plugin returns.
THEOREM CleanedUp == Spec => []NothingLeftBehind
BY Invariance, PTL DEF IInv

\* For every timeout, the exchange takes at most that long, and an invocation at most twice.
THEOREM InTime == Spec => []EachPhaseInTime
<1>1. IInv => EachPhaseInTime
  BY DEF IInv, TypeOK, Clock, EachPhaseInTime, Loop
<1> QED BY <1>1, Invariance, PTL

-----------------------------------------------------------------------------
(***************************************************************************)
(* The whole of Build: an invocation with deadlines, one without, or the   *)
(* generated files.  Without deadlines the clock stands still, and what    *)
(* the compiler knows of the process is the same.                          *)
(***************************************************************************)
PatientInv ==
    TypeOK /\ Accounts /\ Phases /\ now = 0 /\ GeneratedFromWholeOutput /\ NothingLeftBehind

\* Every step of an exchange without deadlines keeps the invariant.
LEMMA PatientStep == PatientInv /\ Patient!Next => PatientInv'
<1> SUFFICES ASSUME PatientInv, Patient!Next PROVE PatientInv'
  OBVIOUS
<1> USE DEF PatientInv, TypeOK, Accounts, Phases, GeneratedFromWholeOutput, NothingLeftBehind, Loop,
            Pcs, Statuses, ExitCodes, ErrorCodes, Patient!pipes, Patient!time, Patient!host
<1>1. CASE Patient!Refuse
  BY <1>1 DEF Patient!Refuse
<1>2. CASE Patient!Spawn
  <2>1. /\ pc = "spawn" /\ pc' = "top" /\ fds' \subseteq {"stdin", "stdout"}
        /\ plugin' = [plugin EXCEPT !.status = "running", !.ends = {"in", "out"}]
        /\ deadline' = now + 0
        /\ UNCHANGED <<written, got, revents, exitCode, result, now, inPipe, outPipe>>
    BY <1>2 DEF Patient!Spawn
  <2>2. /\ plugin'.status = "running"
        /\ plugin'.read = plugin.read /\ plugin'.wrote = plugin.wrote
        /\ plugin'.code = plugin.code
    BY <2>1
  <2>3. TypeOK'
    <3>1. {"in", "out"} \in SUBSET {"in", "out"}
      OBVIOUS
    <3>2. plugin' \in [style : AllStyles, status : Statuses, code : ExitCodes,
                       ends : SUBSET {"in", "out"}, read : 0 .. ReqLen, wrote : 0 .. RespLen]
      BY <2>1, <3>1
    <3>3. deadline' \in Nat /\ pc' \in Pcs
      BY <2>1
    <3> QED BY <2>1, <3>2, <3>3
  <2>4. result # "ok_files"
    BY <2>1
  <2> QED BY <2>1, <2>2, <2>3, <2>4
<1>3. CASE Patient!Top
  <2>1. ~ Patient!Expired
    BY DEF Patient!Expired
  <2>2. /\ pc = "top" /\ pc' = "poll"
        /\ UNCHANGED <<written, got, fds, revents, exitCode, result, plugin, inPipe, outPipe, now, deadline>>
    BY <1>3, <2>1 DEF Patient!Top
  <2> QED BY <2>2
<1>4. CASE Patient!Poll
  BY <1>4 DEF Patient!Poll, Patient!Ready
<1>5. CASE Patient!PollTimesOut \/ Patient!PollFails \/ Patient!WaitKills \/ Patient!Tick
  BY <1>5 DEF Patient!PollTimesOut, Patient!PollFails, Patient!WaitKills, Patient!Tick, Patient!Expired
<1>6. CASE Patient!WriteRequest
  <2>1. /\ pc = "write" /\ pc' = "read"
        /\ UNCHANGED <<got, revents, exitCode, result, plugin, outPipe, now, deadline>>
    BY <1>6 DEF Patient!WriteRequest
  <2>2. fds' \subseteq fds
    BY <1>6 DEF Patient!WriteRequest, Patient!FeedStdin
  <2>3. /\ written' \in 0 .. ReqLen /\ inPipe' \in 0 .. PipeCap
        /\ plugin.read + inPipe' = written'
    BY <1>6 DEF Patient!WriteRequest, Patient!FeedStdin, Patient!Remaining
  <2> QED BY <2>1, <2>2, <2>3
<1>7. CASE Patient!ReadResponse
  <2>1. CASE Patient!NotReported
    BY <1>7, <2>1 DEF Patient!ReadResponse, Patient!NotReported
  <2>2. CASE Patient!ReadSome
    BY <1>7, <2>2 DEF Patient!ReadResponse, Patient!ReadSome
  <2>3. CASE Patient!ReadEof
    BY <1>7, <2>3 DEF Patient!ReadResponse, Patient!ReadEof
  <2> QED BY <1>7, <2>1, <2>2, <2>3 DEF Patient!ReadResponse
<1>8. CASE Patient!WaitReaps
  BY <1>8 DEF Patient!WaitReaps
<1>9. CASE Patient!Judge
  BY <1>9 DEF Patient!Judge, Patient!Decoded, Patient!Verdict
<1>10. CASE Patient!PluginReads
  BY <1>10 DEF Patient!PluginReads, Patient!Answered
<1>11. CASE Patient!PluginWrites
  BY <1>11 DEF Patient!PluginWrites, Patient!Answered
<1>12. CASE Patient!PluginExits
  <2>1. PICK c \in Codes \cup {0, Killed}, held \in {{}, {"out"}} :
            plugin' = [plugin EXCEPT !.status = "zombie", !.code = c, !.ends = @ \cap held]
    BY <1>12 DEF Patient!PluginExits, Patient!Killed, Killed
  <2>2. UNCHANGED <<pc, written, got, fds, revents, exitCode, result, inPipe, outPipe, now,
                    deadline>> /\ plugin.status = "running"
    BY <1>12 DEF Patient!PluginExits
  <2>3. /\ plugin'.ends \subseteq plugin.ends /\ plugin'.status = "zombie"
        /\ plugin'.read = plugin.read /\ plugin'.wrote = plugin.wrote
    BY <2>1
  <2>4. TypeOK'
    BY <2>1, <2>2, <2>3
  <2> QED BY <2>2, <2>3, <2>4
<1>13. CASE Patient!PluginCloses
  BY <1>13 DEF Patient!PluginCloses
<1>14. CASE Patient!Done
  BY <1>14 DEF Patient!Done, Patient!vars
<1> QED
  BY <1>1, <1>2, <1>3, <1>4, <1>5, <1>6, <1>7, <1>8, <1>9, <1>10, <1>11, <1>12, <1>13, <1>14
  DEF Patient!Next, Patient!Host, Patient!Plugin

BuildInv ==
    /\ half = "patient" => PatientInv
    /\ half # "patient" => IInv

\* What was proved of one invocation holds in every behaviour of bebopc_runner_generate, also where
\* BEBOPC_PLUGIN_TIMEOUT_MS=0 disables the deadlines: files come only from the whole output of a
\* plugin that exited with 0, nothing is left behind, and each phase ends in time.
THEOREM InvocationsAreSafe ==
    BuildSpec => [](GeneratedFromWholeOutput /\ NothingLeftBehind /\ EachPhaseInTime)
<1>1. BuildInit => BuildInv
  <2> SUFFICES ASSUME BuildInit PROVE BuildInv
    OBVIOUS
  <2>1. IInv /\ now = 0
    BY InitIInv DEF BuildInit, Init
  <2> QED BY <2>1 DEF BuildInv, PatientInv, IInv
<1>2. BuildInv /\ [BuildNext]_allVars => BuildInv'
  <2> SUFFICES ASSUME BuildInv, [BuildNext]_allVars PROVE BuildInv'
    OBVIOUS
  <2>1. CASE half = "exchange" /\ Next /\ UNCHANGED <<half, filesVars>>
    BY <2>1, NextIInv DEF BuildInv
  <2>2. CASE half = "patient" /\ Patient!Next /\ UNCHANGED <<half, filesVars>>
    BY <2>2, PatientStep DEF BuildInv
  <2>3. CASE UNCHANGED <<half, vars>>
    <3>1. IInv => IInv'
      BY <2>3, NextIInv
    <3>2. PatientInv => PatientInv'
      BY <2>3 DEF vars, PatientInv, TypeOK, Accounts, Phases, GeneratedFromWholeOutput, NothingLeftBehind
    <3> QED BY <2>3, <3>1, <3>2 DEF BuildInv
  <2> QED BY <2>1, <2>2, <2>3 DEF BuildNext, allVars
<1>3. BuildInv => GeneratedFromWholeOutput /\ NothingLeftBehind /\ EachPhaseInTime
  <2>1. IInv => GeneratedFromWholeOutput /\ NothingLeftBehind /\ EachPhaseInTime
    BY DEF IInv, TypeOK, Clock, EachPhaseInTime, Loop
  <2>2. PatientInv => GeneratedFromWholeOutput /\ NothingLeftBehind /\ EachPhaseInTime
    BY DEF PatientInv, EachPhaseInTime
  <2> QED BY <2>1, <2>2 DEF BuildInv
<1> QED BY <1>1, <1>2, <1>3, PTL DEF BuildSpec
=============================================================================
