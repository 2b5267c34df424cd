---------------------------- MODULE LibraryProofs ----------------------------
(***************************************************************************)
(* Proofs about five components that keep to themselves: the arena, the    *)
(* hash map and the wire arena of the C library, the language server and   *)
(* the watcher.  Each has a part of its own below: the operators the       *)
(* component is built from, its inductive invariant, one lemma per action  *)
(* or kind of step, and the theorems.                                      *)
(***************************************************************************)
EXTENDS Arena, SwissMap, WireArena, LanguageServer, Watch, RecursionTheorems, SequenceTheorems

-----------------------------------------------------------------------------
(***************************************************************************)
(* bebop_arena: the chunks of the C library's arena and what was handed out. *)
(***************************************************************************)
\* What bebop__align_up returns: the first multiple of the alignment that is not below the value.
LEMMA AlignUpIs ==
    ASSUME NEW v \in Nat, NEW a \in Nat \ {0}
    PROVE  /\ AlignUp(v, a) \in Nat /\ v <= AlignUp(v, a) /\ AlignUp(v, a) <= v + a - 1
           /\ AlignUp(v, a) % a = 0
<1> DEFINE q == (v + a - 1) \div a
<1>1. q \in Nat /\ q * a <= v + a - 1 /\ v + a - 1 < q * a + a
  OBVIOUS
<1> HIDE DEF q
<1>2. q * a \in Nat /\ v <= q * a
  BY <1>1
<1>3. (q * a) % a = 0
  BY <1>1
<1> QED BY <1>1, <1>2, <1>3 DEF AlignUp, q

\* bebop__chunk_header_size: the aligned size of the structure.
LEMMA ChunkHeaderIs == ChunkHeader \in Nat /\ StructSize <= ChunkHeader /\ 0 < ChunkHeader
<1>1. StructSize \in Nat /\ MinAlign \in Nat \ {0} /\ 0 < StructSize
  BY ArenaAssumption
<1>2. AlignUp(StructSize, MinAlign) \in Nat /\ StructSize <= AlignUp(StructSize, MinAlign)
  BY <1>1, AlignUpIs
<1> QED BY <1>1, <1>2 DEF ChunkHeader

Host(c) == [mem |-> c.mem, total |-> ChunkHeader + c.capacity]
HostOf(cs) == {Host(cs[i]) : i \in 1 .. Len(cs)}

ChunkPair(c, d) == Apart(c.mem, ChunkHeader + c.capacity, d.mem, ChunkHeader + d.capacity)
ChunksApart(cs) == \A i, j \in 1 .. Len(cs) : i # j => ChunkPair(cs[i], cs[j])

UsedWithin(cs) == \A i \in 1 .. Len(cs) : cs[i].used <= cs[i].capacity

BlockWithin(b, c) == Data(c) <= b.addr /\ b.addr + b.size <= Data(c) + c.used
BlockSound(b) == b.size > 0 /\ b.align > 0 /\ b.addr % b.align = 0
Carved(bs, cs) == \A b \in bs : BlockSound(b) /\ \E i \in 1 .. Len(cs) : BlockWithin(b, cs[i])

BlockPair(b, d) == Apart(b.addr, b.size, d.addr, d.size)
PairsApart(bs) == \A b, d \in bs : b # d => BlockPair(b, d)

\* What holds of an arena between two calls.  A block lies in the part of a chunk that is in use,
\* which is why the next one, carved behind it, cannot touch it; and chunks are apart as the host
\* allocator's memory is.
ArenaInv ==
    /\ chunks \in Seq(Chunk) /\ UsedWithin(chunks) /\ ChunksApart(chunks)
    /\ hosted = HostOf(chunks)
    /\ blocks \subseteq Block /\ Carved(blocks, chunks) /\ PairsApart(blocks)

\* What a chunk of the list is made of.
LEMMA ChunkTypes ==
    ASSUME NEW cs \in Seq(Chunk), UsedWithin(cs), NEW i \in 1 .. Len(cs)
    PROVE  /\ cs[i] \in Chunk /\ cs[i].mem \in Nat /\ cs[i].capacity \in Nat /\ cs[i].used \in Nat
           /\ cs[i].used <= cs[i].capacity
<1>1. cs[i] \in Chunk
  OBVIOUS
<1>2. cs[i].mem \in Nat /\ cs[i].capacity \in Nat /\ cs[i].used \in Nat
  BY <1>1 DEF Chunk
<1>3. cs[i].used <= cs[i].capacity
  BY DEF UsedWithin
<1> QED BY <1>1, <1>2, <1>3

\* A block of a chunk lies between the chunk's header and its end.
LEMMA WithinMemory ==
    ASSUME NEW cs \in Seq(Chunk), UsedWithin(cs), NEW i \in 1 .. Len(cs),
           NEW b, b.addr \in Nat, b.size \in Nat, BlockWithin(b, cs[i])
    PROVE  /\ cs[i].mem + StructSize <= b.addr
           /\ b.addr + b.size <= cs[i].mem + ChunkHeader + cs[i].capacity
<1> DEFINE a == b.addr
           z == b.size
           m == cs[i].mem
           u == cs[i].used
           c == cs[i].capacity
<1>1. a \in Nat /\ z \in Nat /\ m \in Nat /\ u \in Nat /\ c \in Nat /\ u <= c
  BY ChunkTypes
<1>2. m + StructSize <= a /\ a + z <= m + StructSize + u
  BY DEF BlockWithin, Data
<1>3. ChunkHeader \in Nat /\ StructSize \in Nat /\ StructSize <= ChunkHeader
  BY ChunkHeaderIs, ArenaAssumption
<1> HIDE DEF a, z, m, u, c
<1>4. a + z <= m + ChunkHeader + c
  BY <1>1, <1>2, <1>3
<1> QED BY <1>2, <1>4 DEF a, z, m, c

\* The invariant says what the run checks.
LEMMA ArenaInvImplies == ASSUME ArenaInv PROVE ArenaTypeOK /\ ArenaConsistent
<1>0. ChunkHeader \in Nat /\ StructSize \in Nat /\ StructSize <= ChunkHeader /\ 0 < ChunkHeader
  BY ChunkHeaderIs, ArenaAssumption
<1>1. \A i \in 1 .. Len(chunks) :
        chunks[i] \in Chunk /\ chunks[i].mem \in Nat /\ chunks[i].capacity \in Nat
          /\ chunks[i].used \in Nat /\ chunks[i].used <= chunks[i].capacity
  BY ChunkTypes DEF ArenaInv
<1>2. \A b \in blocks : b.addr \in Nat /\ b.size \in Nat
  BY DEF ArenaInv, Block
<1>3. ArenaTypeOK
  <2>1. \A i \in 1 .. Len(chunks) : Host(chunks[i]) \in [mem : Nat, total : Nat]
    BY <1>0, <1>1 DEF Host
  <2>2. hosted \subseteq [mem : Nat, total : Nat]
    BY <2>1 DEF ArenaInv, HostOf
  <2> QED BY <2>2 DEF ArenaInv, ArenaTypeOK, UsedWithin
<1>4. BlocksInChunks
  <2> SUFFICES ASSUME NEW b \in blocks
               PROVE  /\ b.addr % b.align = 0
                      /\ \E i \in 1 .. Len(chunks) :
                            /\ chunks[i].mem + StructSize <= b.addr
                            /\ b.addr + b.size <= chunks[i].mem + ChunkHeader + chunks[i].capacity
    BY DEF BlocksInChunks
  <2>1. b.addr % b.align = 0
    BY DEF ArenaInv, Carved, BlockSound
  <2>2. PICK i \in 1 .. Len(chunks) : BlockWithin(b, chunks[i])
    BY DEF ArenaInv, Carved
  <2>3. b.addr \in Nat /\ b.size \in Nat
    BY <1>2
  <2>4. /\ chunks[i].mem + StructSize <= b.addr
        /\ b.addr + b.size <= chunks[i].mem + ChunkHeader + chunks[i].capacity
    BY <2>2, <2>3, WithinMemory DEF ArenaInv
  <2> QED BY <2>1, <2>4
<1>5. BlocksDisjoint
  BY DEF ArenaInv, PairsApart, BlockPair, BlocksDisjoint
<1>6. HeapIsTheChunks
  <2>1. hosted = {[mem |-> chunks[i].mem, total |-> ChunkHeader + chunks[i].capacity] :
                    i \in 1 .. Len(chunks)}
    BY DEF ArenaInv, HostOf, Host
  <2>2. ASSUME NEW i \in 1 .. Len(chunks), NEW j \in 1 .. Len(chunks),
               chunks[i].mem = chunks[j].mem, i # j
        PROVE  FALSE
    <3>1. \/ chunks[i].mem + (ChunkHeader + chunks[i].capacity) <= chunks[j].mem
          \/ chunks[j].mem + (ChunkHeader + chunks[j].capacity) <= chunks[i].mem
      BY <2>2 DEF ArenaInv, ChunksApart, ChunkPair, Apart
    <3> QED BY <1>0, <1>1, <2>2, <3>1
  <2> QED BY <2>1, <2>2 DEF HeapIsTheChunks
<1> QED BY <1>3, <1>4, <1>5, <1>6 DEF ArenaConsistent

\* A block put into the used part of chunk n, apart from the blocks that lie there, is apart from
\* all the others.
LEMMA BlockAdded ==
    ASSUME NEW cs \in Seq(Chunk), UsedWithin(cs), ChunksApart(cs),
           NEW held \in SUBSET Block, Carved(held, cs), PairsApart(held),
           NEW n \in 1 .. Len(cs), NEW b \in Block, BlockSound(b), BlockWithin(b, cs[n]),
           \A d \in held : BlockPair(b, d) \/ \E i \in 1 .. Len(cs) : i # n /\ BlockWithin(d, cs[i])
    PROVE  Carved(held \cup {b}, cs) /\ PairsApart(held \cup {b})
<1>0. ChunkHeader \in Nat /\ StructSize \in Nat /\ StructSize <= ChunkHeader
  BY ChunkHeaderIs, ArenaAssumption
<1>1. \A i \in 1 .. Len(cs) : cs[i].mem \in Nat /\ cs[i].capacity \in Nat
          /\ cs[i].used \in Nat /\ cs[i].used <= cs[i].capacity
  BY ChunkTypes
<1>2. \A d \in held : d.addr \in Nat /\ d.size \in Nat
  BY DEF Block
<1>3. b.addr \in Nat /\ b.size \in Nat
  BY DEF Block
<1>4. ASSUME NEW d \in held
      PROVE  BlockPair(b, d) /\ BlockPair(d, b)
  <2>1. CASE BlockPair(b, d)
    BY <1>2, <1>3, <2>1 DEF BlockPair, Apart
  <2>2. CASE \E i \in 1 .. Len(cs) : i # n /\ BlockWithin(d, cs[i])
    <3>1. PICK i \in 1 .. Len(cs) : i # n /\ BlockWithin(d, cs[i])
      BY <2>2
    <3>2. \/ cs[i].mem + (ChunkHeader + cs[i].capacity) <= cs[n].mem
          \/ cs[n].mem + (ChunkHeader + cs[n].capacity) <= cs[i].mem
      BY <3>1 DEF ChunksApart, ChunkPair, Apart
    <3>3. /\ cs[i].mem + StructSize <= d.addr
          /\ d.addr + d.size <= cs[i].mem + ChunkHeader + cs[i].capacity
          /\ cs[n].mem + StructSize <= b.addr
          /\ b.addr + b.size <= cs[n].mem + ChunkHeader + cs[n].capacity
      BY <1>2, <1>3, <3>1, WithinMemory
    <3> DEFINE a == b.addr
               z == b.size
               a2 == d.addr
               z2 == d.size
               m == cs[n].mem
               c == cs[n].capacity
               m2 == cs[i].mem
               c2 == cs[i].capacity
    <3>4. a \in Nat /\ z \in Nat /\ a2 \in Nat /\ z2 \in Nat /\ m \in Nat /\ c \in Nat
          /\ m2 \in Nat /\ c2 \in Nat
      BY <1>1, <1>2, <1>3
    <3>5. /\ m2 + (ChunkHeader + c2) <= m \/ m + (ChunkHeader + c) <= m2
          /\ m2 + StructSize <= a2 /\ a2 + z2 <= m2 + ChunkHeader + c2
          /\ m + StructSize <= a /\ a + z <= m + ChunkHeader + c
      BY <3>2, <3>3
    <3> HIDE DEF a, z, a2, z2, m, c, m2, c2
    <3>6. a + z <= a2 \/ a2 + z2 <= a
      BY <1>0, <3>4, <3>5
    <3> QED BY <3>6 DEF BlockPair, Apart, a, z, a2, z2
  <2> QED BY <2>1, <2>2
<1>5. Carved(held \cup {b}, cs)
  BY DEF Carved
<1>6. PairsApart(held \cup {b})
  BY <1>4 DEF PairsApart
<1> QED BY <1>5, <1>6

WithUsed(cs, u) == [cs EXCEPT ![Len(cs)].used = u]

\* Another number of bytes in use in the last chunk: its memory is what it was.
LEMMA UsedChanges ==
    ASSUME NEW cs \in Seq(Chunk), cs # <<>>, UsedWithin(cs), ChunksApart(cs),
           NEW u \in Nat, u <= cs[Len(cs)].capacity
    PROVE  /\ WithUsed(cs, u) \in Seq(Chunk) /\ Len(WithUsed(cs, u)) = Len(cs)
           /\ Len(cs) \in 1 .. Len(cs)
           /\ UsedWithin(WithUsed(cs, u)) /\ ChunksApart(WithUsed(cs, u))
           /\ HostOf(WithUsed(cs, u)) = HostOf(cs)
           /\ \A i \in 1 .. Len(cs) :
                 /\ Data(WithUsed(cs, u)[i]) = Data(cs[i])
                 /\ WithUsed(cs, u)[i].used = IF i = Len(cs) THEN u ELSE cs[i].used
<1> DEFINE ds == WithUsed(cs, u)
<1>1. Len(cs) \in Nat /\ Len(cs) \in 1 .. Len(cs)
  BY EmptySeq
<1>2. \A i \in 1 .. Len(cs) : cs[i] \in Chunk
  OBVIOUS
<1>3. /\ ds \in Seq(Chunk) /\ Len(ds) = Len(cs)
      /\ \A i \in 1 .. Len(cs) : ds[i] = IF i = Len(cs) THEN [cs[i] EXCEPT !.used = u] ELSE cs[i]
  <2>1. [cs[Len(cs)] EXCEPT !.used = u] \in Chunk
    BY <1>1, <1>2 DEF Chunk
  <2>2. ds = [cs EXCEPT ![Len(cs)] = [cs[Len(cs)] EXCEPT !.used = u]]
    BY DEF WithUsed
  <2> QED BY <1>1, <2>1, <2>2
<1> HIDE DEF ds
<1>4. \A i \in 1 .. Len(cs) : /\ ds[i].mem = cs[i].mem /\ ds[i].capacity = cs[i].capacity
                             /\ ds[i].used = IF i = Len(cs) THEN u ELSE cs[i].used
  BY <1>2, <1>3 DEF Chunk
<1>5. UsedWithin(ds)
  BY <1>1, <1>3, <1>4 DEF UsedWithin
<1>6. ChunksApart(ds)
  BY <1>3, <1>4 DEF ChunksApart, ChunkPair
<1>7. HostOf(ds) = HostOf(cs)
  <2>1. \A i \in 1 .. Len(cs) : Host(ds[i]) = Host(cs[i])
    BY <1>4 DEF Host
  <2> QED BY <1>3, <2>1 DEF HostOf
<1>8. \A i \in 1 .. Len(cs) : Data(ds[i]) = Data(cs[i])
  BY <1>4 DEF Data
<1> QED BY <1>1, <1>3, <1>4, <1>5, <1>6, <1>7, <1>8 DEF ds

\* A chunk of memory that the host had not handed out.
LEMMA ChunkAdded ==
    ASSUME ArenaInv, NEW mem \in Nat, NEW c \in Chunk, c.mem = mem, c.used <= c.capacity,
           HostAlloc(mem, ChunkHeader + c.capacity), chunks' = Append(chunks, c)
    PROVE  /\ chunks' \in Seq(Chunk) /\ Len(chunks') = Len(chunks) + 1 /\ Len(chunks) \in Nat
           /\ UsedWithin(chunks') /\ ChunksApart(chunks') /\ hosted' = HostOf(chunks')
           /\ chunks'[Len(chunks')] = c
           /\ \A i \in 1 .. Len(chunks) : chunks'[i] = chunks[i]
<1> DEFINE n == Len(chunks)
<1>1. chunks \in Seq(Chunk) /\ n \in Nat /\ UsedWithin(chunks) /\ ChunksApart(chunks)
      /\ hosted = HostOf(chunks)
  BY DEF ArenaInv
<1>2. /\ chunks' \in Seq(Chunk) /\ Len(chunks') = n + 1 /\ chunks'[n + 1] = c
      /\ \A i \in 1 .. n : chunks'[i] = chunks[i]
  BY <1>1, AppendProperties
<1>3. \A i \in 1 .. n : /\ chunks[i].mem \in Nat /\ chunks[i].capacity \in Nat
                       /\ chunks[i].used <= chunks[i].capacity
  BY <1>1, ChunkTypes
<1>4. c.mem \in Nat /\ c.capacity \in Nat /\ ChunkHeader \in Nat
  BY ChunkHeaderIs DEF Chunk
<1>5. \A h \in hosted : Apart(c.mem, ChunkHeader + c.capacity, h.mem, h.total)
  BY DEF HostAlloc
<1>6. hosted' = hosted \cup {Host(c)}
  BY DEF HostAlloc, Host
<1>7. \A i \in 1 .. n : Host(chunks[i]) \in hosted
  BY <1>1 DEF HostOf
<1>8. \A i \in 1 .. n : ChunkPair(c, chunks[i])
  BY <1>5, <1>7 DEF Host, ChunkPair
<1>9. \A i \in 1 .. n : ChunkPair(chunks[i], c)
  BY <1>8 DEF ChunkPair, Apart
<1> HIDE DEF n
<1>10. \A i \in 1 .. n + 1 : i \in 1 .. n \/ i = n + 1
  BY <1>1
<1>11. UsedWithin(chunks')
  BY <1>2, <1>3, <1>10 DEF UsedWithin
<1>12. ChunksApart(chunks')
  <2> SUFFICES ASSUME NEW i \in 1 .. n + 1, NEW j \in 1 .. n + 1, i # j
               PROVE  ChunkPair(chunks'[i], chunks'[j])
    BY <1>2 DEF ChunksApart
  <2>1. CASE i \in 1 .. n /\ j \in 1 .. n
    BY <1>1, <1>2, <2>1 DEF ChunksApart, n
  <2>2. CASE i \in 1 .. n /\ j = n + 1
    BY <1>2, <1>9, <2>2
  <2>3. CASE i = n + 1 /\ j \in 1 .. n
    BY <1>2, <1>8, <2>3
  <2> QED BY <1>10, <2>1, <2>2, <2>3
<1>13. hosted' = HostOf(chunks')
  <2>1. \A i \in 1 .. n : Host(chunks'[i]) = Host(chunks[i]) /\ i \in 1 .. n + 1
    BY <1>1, <1>2
  <2>2. Host(chunks'[n + 1]) = Host(c) /\ n + 1 \in 1 .. n + 1
    BY <1>1, <1>2
  <2>3. \A h \in hosted' : h \in HostOf(chunks')
    BY <1>1, <1>2, <1>6, <2>1, <2>2 DEF HostOf, n
  <2>4. \A h \in HostOf(chunks') : h \in hosted'
    BY <1>1, <1>2, <1>6, <1>7, <1>10, <2>1, <2>2 DEF HostOf
  <2> QED BY <2>3, <2>4
<1> QED BY <1>1, <1>2, <1>11, <1>12, <1>13 DEF n

\* Where bebop_arena_alloc puts a block in a chunk whose data starts at d.
LEMMA OffsetIs ==
    ASSUME NEW d \in Nat, NEW u \in Nat, NEW a \in Nat \ {0}
    PROVE  /\ Offset(d, u, a) \in Nat /\ u <= Offset(d, u, a) /\ Offset(d, u, a) <= u + a - 1
           /\ (d + Offset(d, u, a)) % a = 0
<1> DEFINE x == AlignUp(d + u, a)
<1>1. d + u \in Nat
  OBVIOUS
<1>2. x \in Nat /\ d + u <= x /\ x <= d + u + a - 1 /\ x % a = 0
  BY <1>1, AlignUpIs
<1>3. Offset(d, u, a) = x - d
  BY DEF Offset
<1> HIDE DEF x
<1>4. x - d \in Nat /\ u <= x - d /\ x - d <= u + a - 1 /\ d + (x - d) = x
  BY <1>2
<1> QED BY <1>2, <1>3, <1>4

\* The blocks of held lie in the chunks before and, where those hold, in the chunks after.
LEMMA StillCarved ==
    ASSUME NEW cs, NEW ds, NEW held, Carved(held, cs),
           \A b \in held, i \in 1 .. Len(cs) :
              BlockWithin(b, cs[i]) => i \in 1 .. Len(ds) /\ BlockWithin(b, ds[i])
    PROVE  Carved(held, ds)
BY DEF Carved

\* bebop_arena_alloc from the current chunk keeps the invariant.
LEMMA FromCurrentKeeps ==
    ASSUME ArenaInv, chunks # <<>>, NEW size \in Nat \ {0}, NEW align \in Nat \ {0},
           NEW held \in SUBSET blocks, FromCurrent(size, align, held)
    PROVE  ArenaInv'
<1> DEFINE n == Len(chunks)
           data == Data(Current)
           used == Current.used
           cap == Current.capacity
           off == Offset(data, used, align)
           b == NewBlock(data + off, size, align)
<1>1. chunks \in Seq(Chunk) /\ n \in Nat /\ n \in 1 .. n /\ UsedWithin(chunks) /\ ChunksApart(chunks)
      /\ hosted = HostOf(chunks) /\ blocks \subseteq Block /\ Carved(blocks, chunks) /\ PairsApart(blocks)
  BY EmptySeq DEF ArenaInv
<1>2. StructSize \in Nat
  BY ArenaAssumption
<1>3. data \in Nat /\ used \in Nat /\ cap \in Nat /\ used <= cap
  <2>1. Current.mem \in Nat /\ used \in Nat /\ cap \in Nat /\ used <= cap
    BY <1>1, ChunkTypes DEF Current
  <2> QED BY <1>2, <2>1 DEF Data
<1>4. off \in Nat /\ used <= off /\ (data + off) % align = 0
  BY <1>3, OffsetIs
<1>5. /\ off <= cap /\ size <= cap - off
      /\ chunks' = WithUsed(chunks, off + size) /\ blocks' = held \cup {b} /\ hosted' = hosted
  BY DEF FromCurrent, FitsIn, WithUsed
<1>6. b \in Block /\ b.addr = data + off /\ b.size = size /\ b.align = align
  BY <1>3, <1>4 DEF NewBlock, Block
<1>7. cap = chunks[n].capacity /\ data = Data(chunks[n]) /\ used = chunks[n].used
  BY DEF Current
<1> HIDE DEF n, data, used, cap, off, b
<1>8. off + size \in Nat /\ off + size <= cap
  BY <1>3, <1>4, <1>5
<1>9. /\ chunks' \in Seq(Chunk) /\ Len(chunks') = n
      /\ UsedWithin(chunks') /\ ChunksApart(chunks') /\ HostOf(chunks') = HostOf(chunks)
      /\ \A i \in 1 .. n : /\ Data(chunks'[i]) = Data(chunks[i])
                          /\ chunks'[i].used = IF i = n THEN off + size ELSE chunks[i].used
  BY <1>1, <1>5, <1>7, <1>8, UsedChanges DEF n
<1>10. held \in SUBSET Block /\ Carved(held, chunks) /\ PairsApart(held)
  BY <1>1 DEF Carved, PairsApart
<1>11. \A d \in held : d.addr \in Nat /\ d.size \in Nat
  BY <1>10 DEF Block
<1>12. ASSUME NEW d \in held, BlockWithin(d, chunks[n])
       PROVE  BlockPair(b, d) /\ BlockWithin(d, chunks'[n])
  <2> DEFINE da == d.addr
             ds == d.size
  <2>1. data <= da /\ da + ds <= data + used /\ da \in Nat /\ ds \in Nat
    BY <1>7, <1>11, <1>12 DEF BlockWithin
  <2> HIDE DEF da, ds
  <2>2. da + ds <= data + off /\ da + ds <= data + (off + size)
    BY <1>3, <1>4, <1>8, <2>1
  <2>3. Data(chunks'[n]) = data /\ chunks'[n].used = off + size
    BY <1>1, <1>7, <1>9
  <2>4. BlockWithin(d, chunks'[n])
    BY <2>1, <2>2, <2>3 DEF BlockWithin, da, ds
  <2>5. BlockPair(b, d)
    BY <1>6, <2>2 DEF BlockPair, Apart, da, ds
  <2> QED BY <2>4, <2>5
<1>13. ASSUME NEW d \in held, NEW i \in 1 .. n, i # n, BlockWithin(d, chunks[i])
       PROVE  BlockWithin(d, chunks'[i])
  BY <1>9, <1>13 DEF BlockWithin
<1>14. Carved(held, chunks')
  BY <1>9, <1>10, <1>12, <1>13, StillCarved DEF n
<1>15. \A d \in held : BlockPair(b, d) \/ \E i \in 1 .. Len(chunks') : i # n /\ BlockWithin(d, chunks'[i])
  <2> SUFFICES ASSUME NEW d \in held
               PROVE  BlockPair(b, d) \/ \E i \in 1 .. n : i # n /\ BlockWithin(d, chunks'[i])
    BY <1>9
  <2>1. PICK i \in 1 .. n : BlockWithin(d, chunks[i])
    BY <1>10 DEF Carved, n
  <2> QED BY <1>12, <1>13, <2>1
<1>16. BlockSound(b) /\ BlockWithin(b, chunks'[n])
  <2>1. Data(chunks'[n]) = data /\ chunks'[n].used = off + size
    BY <1>1, <1>7, <1>9
  <2>2. data <= data + off /\ data + off + size <= data + (off + size)
    BY <1>3, <1>4
  <2>3. BlockWithin(b, chunks'[n])
    BY <1>6, <2>1, <2>2 DEF BlockWithin
  <2>4. BlockSound(b)
    BY <1>4, <1>6 DEF BlockSound
  <2> QED BY <2>3, <2>4
<1>17. Carved(held \cup {b}, chunks') /\ PairsApart(held \cup {b})
  <2>1. n \in 1 .. Len(chunks')
    BY <1>1, <1>9
  <2> QED BY <1>6, <1>9, <1>10, <1>14, <1>15, <1>16, <2>1, BlockAdded
<1>18. blocks' \subseteq Block
  BY <1>5, <1>6, <1>10
<1> QED BY <1>1, <1>5, <1>9, <1>17, <1>18 DEF ArenaInv

\* Arithmetic modulo SIZE_MAX + 1 is exact on the addresses of the memory.
LEMMA WrapSmall == ASSUME NEW n \in Nat, n <= SizeMax PROVE Wrap(n) = n
<1>1. SizeMax \in Nat
  BY ArenaAssumption
<1> QED BY <1>1 DEF Wrap

\* bebop_arena_alloc from a chunk of its own keeps the invariant.
LEMMA FromNewChunkKeeps ==
    ASSUME ArenaInv, NEW size \in Nat, NEW align \in Nat \ {0}, InRange(size, align),
           NEW held \in SUBSET blocks, FromNewChunk(size, align, held)
    PROVE  ArenaInv'
<1>0. StructSize \in Nat /\ SizeMax \in Nat /\ MemTop \in Nat /\ ChunkSize \in Nat /\ ChunkHeader \in Nat
      /\ ChunkHeader <= ChunkSize
  BY ArenaAssumption, ChunkHeaderIs
<1>1. size # 0 /\ size + align \in Nat /\ size + align <= SizeMax
  BY <1>0 DEF InRange
<1>2. Needed(size, align) = size + align
  BY <1>1, WrapSmall DEF Needed
<1>3. PICK mem \in 0 .. MemTop :
        LET off == Offset(mem + StructSize, 0, align)
        IN  /\ ChunkAlloc(mem, size + align, TRUE, off + size)
            /\ blocks' = held \cup {NewBlock(mem + StructSize + off, size, align)}
  BY <1>2 DEF FromNewChunk
<1> DEFINE data == mem + StructSize
           off == Offset(data, 0, align)
           cap == DataSize(size + align, TRUE)
           b == NewBlock(data + off, size, align)
           c == [mem |-> mem, capacity |-> cap, used |-> off + size]
           n == Len(chunks) + 1
<1>4. mem \in Nat /\ data \in Nat
  BY <1>0
<1>5. off \in Nat /\ off <= 0 + align - 1 /\ (data + off) % align = 0
  BY <1>4, OffsetIs
<1>6. cap \in Nat /\ size + align <= cap
  BY <1>0, <1>1 DEF DataSize
<1>7. /\ HostAlloc(mem, ChunkHeader + cap) /\ chunks' = Append(chunks, c)
      /\ blocks' = held \cup {b}
  BY <1>3 DEF ChunkAlloc
<1> HIDE DEF off, cap
<1>8. off + size \in Nat /\ off + size <= cap
  BY <1>1, <1>5, <1>6
<1>9. b \in Block /\ b.addr = data + off /\ b.size = size /\ b.align = align
  BY <1>4, <1>5 DEF NewBlock, Block
<1> HIDE DEF b
<1>10. c \in Chunk /\ c.mem = mem /\ c.capacity = cap /\ c.used = off + size /\ Data(c) = data
  BY <1>4, <1>6, <1>8 DEF Chunk, Data
<1> HIDE DEF data, c
<1>11. /\ chunks' \in Seq(Chunk) /\ Len(chunks') = n /\ Len(chunks) \in Nat
       /\ UsedWithin(chunks') /\ ChunksApart(chunks') /\ hosted' = HostOf(chunks')
       /\ chunks'[n] = c
       /\ \A i \in 1 .. Len(chunks) : chunks'[i] = chunks[i]
  BY <1>4, <1>7, <1>8, <1>10, ChunkAdded
<1>12. n \in 1 .. Len(chunks') /\ \A i \in 1 .. Len(chunks) : i # n /\ i \in 1 .. Len(chunks')
  BY <1>11
<1>13. held \in SUBSET Block /\ Carved(held, chunks) /\ PairsApart(held)
  BY DEF ArenaInv, Carved, PairsApart
<1>14. \A d \in held, i \in 1 .. Len(chunks) :
          BlockWithin(d, chunks[i]) => i # n /\ i \in 1 .. Len(chunks') /\ BlockWithin(d, chunks'[i])
  BY <1>11, <1>12
<1> HIDE DEF n
<1>15. Carved(held, chunks')
  BY <1>13, <1>14, StillCarved
<1>16. \A d \in held : \E i \in 1 .. Len(chunks') : i # n /\ BlockWithin(d, chunks'[i])
  BY <1>13, <1>14 DEF Carved
<1>17. BlockSound(b) /\ BlockWithin(b, chunks'[n])
  <2>1. data <= data + off /\ data + off + size <= data + (off + size)
    BY <1>4, <1>5
  <2>2. BlockWithin(b, chunks'[n])
    BY <1>9, <1>10, <1>11, <2>1 DEF BlockWithin
  <2>3. BlockSound(b)
    BY <1>1, <1>5, <1>9 DEF BlockSound
  <2> QED BY <2>2, <2>3
<1>18. Carved(held \cup {b}, chunks') /\ PairsApart(held \cup {b})
  BY <1>9, <1>11, <1>12, <1>13, <1>15, <1>16, <1>17, BlockAdded
<1>19. blocks' \subseteq Block
  BY <1>7, <1>9, <1>13
<1> QED BY <1>7, <1>11, <1>18, <1>19 DEF ArenaInv

\* Both paths of bebop_arena_alloc.
LEMMA AllocKeeps ==
    ASSUME ArenaInv, NEW size \in Nat, NEW align \in Nat \ {0}, NEW held \in SUBSET blocks,
           AllocInto(size, align, held)
    PROVE  ArenaInv'
<1>1. chunks # <<>> /\ InRange(size, align) /\ size # 0
  BY DEF AllocInto, InRange
<1>2. CASE FromCurrent(size, align, held)
  BY <1>1, <1>2, FromCurrentKeeps
<1>3. CASE FromNewChunk(size, align, held)
  BY <1>1, <1>3, FromNewChunkKeeps
<1> QED BY <1>2, <1>3 DEF AllocInto

\* bebop_arena_init has one chunk with nothing in it.
LEMMA ArenaInitKeeps == ASSUME ArenaInv, ArenaInit PROVE ArenaInv'
<1>0. MemTop \in Nat /\ ChunkSize \in Nat /\ ChunkHeader \in Nat /\ ChunkHeader <= ChunkSize
      /\ Initials \subseteq Nat
  BY ArenaAssumption, ChunkHeaderIs
<1>1. PICK mem \in 0 .. MemTop, initial \in Initials :
         ChunkAlloc(mem, IF initial > 0 THEN initial ELSE ChunkSize, initial = 0, 0)
  BY DEF ArenaInit
<1> DEFINE min == IF initial > 0 THEN initial ELSE ChunkSize
           cap == DataSize(min, initial = 0)
           c == [mem |-> mem, capacity |-> cap, used |-> 0]
<1>2. min \in Nat
  BY <1>0
<1> HIDE DEF min
<1>3. cap \in Nat
  BY <1>0, <1>2 DEF DataSize
<1>4. HostAlloc(mem, ChunkHeader + cap) /\ chunks' = Append(chunks, c)
  BY <1>1 DEF ChunkAlloc, min
<1> HIDE DEF cap
<1>5. mem \in Nat /\ c \in Chunk /\ c.mem = mem /\ c.capacity = cap /\ c.used <= c.capacity
  BY <1>0, <1>3 DEF Chunk
<1> HIDE DEF c
<1>6. chunks' \in Seq(Chunk) /\ UsedWithin(chunks') /\ ChunksApart(chunks') /\ hosted' = HostOf(chunks')
  BY <1>4, <1>5, ChunkAdded
<1>7. chunks = <<>> /\ blocks' = blocks
  BY DEF ArenaInit
<1>8. blocks' = {}
  BY <1>7 DEF ArenaInv, Carved
<1> QED BY <1>6, <1>8 DEF ArenaInv, Carved, PairsApart

\* bebop_arena_destroy gives every chunk back and leaves no block behind.
LEMMA EmptiedKeeps == ASSUME ArenaInv, ArenaDestroy PROVE ArenaInv'
<1>1. chunks' = <<>> /\ blocks' = {} /\ hosted' = Freed(chunks)
  BY DEF ArenaDestroy
<1>2. Freed(chunks) = {}
  BY DEF ArenaInv, Freed, HostOf, Host
<1>3. HostOf(<<>>) = {} /\ ChunksApart(<<>>) /\ UsedWithin(<<>>) /\ <<>> \in Seq(Chunk)
  BY EmptySeq DEF HostOf, ChunksApart, UsedWithin
<1> QED BY <1>1, <1>2, <1>3 DEF ArenaInv, Carved, PairsApart

\* Reset frees all chunks but the first; the host's record of the first is not the record of
\* another, whose memory lies apart.
LEMMA ResetKeeps == ASSUME ArenaInv, ArenaReset PROVE ArenaInv'
<1> DEFINE c == [chunks[1] EXCEPT !.used = 0]
           n == Len(chunks)
<1>0. ChunkHeader \in Nat /\ 0 < ChunkHeader
  BY ChunkHeaderIs
<1>1. chunks \in Seq(Chunk) /\ chunks # <<>> /\ n \in Nat /\ n >= 1 /\ 1 \in 1 .. n
      /\ UsedWithin(chunks) /\ ChunksApart(chunks) /\ hosted = HostOf(chunks)
  BY EmptySeq DEF ArenaInv, ArenaReset
<1>2. chunks' = <<c>> /\ blocks' = {} /\ hosted' = Freed(Tail(chunks))
  BY <1>1 DEF ArenaReset
<1>3. \A i \in 1 .. n : chunks[i] \in Chunk /\ chunks[i].mem \in Nat /\ chunks[i].capacity \in Nat
  BY <1>1, ChunkTypes
<1>4. c \in Chunk /\ c.mem = chunks[1].mem /\ c.capacity = chunks[1].capacity /\ c.used = 0
      /\ c.capacity \in Nat
  BY <1>1, <1>3 DEF Chunk
<1> HIDE DEF c
<1>5. /\ <<c>> \in Seq(Chunk) /\ Len(<<c>>) = 1 /\ <<c>>[1] = c
  BY <1>4
<1>6. UsedWithin(<<c>>) /\ ChunksApart(<<c>>) /\ HostOf(<<c>>) = {Host(c)}
  <2>1. \A i \in 1 .. 1 : i = 1
    OBVIOUS
  <2>2. \A i \in 1 .. Len(<<c>>) : i = 1 /\ <<c>>[i] = c
    BY <1>5, <2>1
  <2>3. 1 \in 1 .. Len(<<c>>)
    BY <1>5
  <2>4. UsedWithin(<<c>>)
    BY <1>4, <2>2 DEF UsedWithin
  <2>5. ChunksApart(<<c>>)
    BY <2>2 DEF ChunksApart
  <2>6. HostOf(<<c>>) = {Host(c)}
    BY <2>2, <2>3 DEF HostOf
  <2> QED BY <2>4, <2>5, <2>6
<1>7. Host(c) = Host(chunks[1])
  BY <1>4 DEF Host
<1>8. /\ Len(Tail(chunks)) = n - 1
      /\ \A i \in 1 .. Len(Tail(chunks)) : Tail(chunks)[i] = chunks[i + 1] /\ i + 1 \in 2 .. n
  BY <1>1
<1>9. \A j \in 2 .. n : j - 1 \in 1 .. Len(Tail(chunks)) /\ Tail(chunks)[j - 1] = chunks[j]
  BY <1>1, <1>8
<1>10. \A j \in 2 .. n : j \in 1 .. n /\ j # 1
  BY <1>1
<1>11. \A j \in 1 .. n : j = 1 \/ j \in 2 .. n
  BY <1>1
<1>12. Freed(Tail(chunks)) = hosted \ {Host(chunks[j]) : j \in 2 .. n}
  <2>1. {Host(Tail(chunks)[i]) : i \in 1 .. Len(Tail(chunks))} = {Host(chunks[j]) : j \in 2 .. n}
    BY <1>8, <1>9
  <2> QED BY <2>1 DEF Freed, Host
<1>13. \A j \in 2 .. n : chunks[j].mem # chunks[1].mem
  <2> SUFFICES ASSUME NEW j \in 2 .. n, chunks[j].mem = chunks[1].mem
               PROVE  FALSE
    OBVIOUS
  <2>1. ChunkPair(chunks[1], chunks[j])
    BY <1>1, <1>10 DEF ChunksApart
  <2> DEFINE m == chunks[1].mem
             d == chunks[1].capacity
             e == chunks[j].capacity
  <2>2. m \in Nat /\ d \in Nat /\ e \in Nat
    BY <1>1, <1>3, <1>10
  <2>3. m + (ChunkHeader + d) <= m \/ m + (ChunkHeader + e) <= m
    BY <2>1 DEF ChunkPair, Apart
  <2> HIDE DEF m, d, e
  <2> QED BY <1>0, <2>2, <2>3
<1>14. \A j \in 2 .. n : Host(chunks[j]) # Host(chunks[1])
  BY <1>13 DEF Host
<1>15. hosted \ {Host(chunks[j]) : j \in 2 .. n} = {Host(chunks[1])}
  BY <1>1, <1>11, <1>14 DEF HostOf
<1> QED BY <1>2, <1>5, <1>6, <1>7, <1>12, <1>15 DEF ArenaInv, Carved, PairsApart

\* Growing or shrinking the newest block: no block of its chunk lies behind it.
LEMMA InPlaceKeeps == ASSUME ArenaInv, ReallocInPlace PROVE ArenaInv'
<1> DEFINE n == Len(chunks)
           data == Data(Current)
           used == Current.used
           cap == Current.capacity
<1>1. chunks \in Seq(Chunk) /\ chunks # <<>> /\ n \in Nat /\ n \in 1 .. n
      /\ UsedWithin(chunks) /\ ChunksApart(chunks)
      /\ hosted = HostOf(chunks) /\ blocks \subseteq Block /\ Carved(blocks, chunks) /\ PairsApart(blocks)
  BY EmptySeq DEF ArenaInv, ReallocInPlace
<1>2. PICK b \in blocks, new \in Sizes \ {0} :
         /\ InPlace(b, new)
         /\ chunks' = WithUsed(chunks, b.addr - data + new)
         /\ blocks' = (blocks \ {b}) \cup {[b EXCEPT !.size = new]}
         /\ hosted' = hosted
  BY DEF ReallocInPlace, WithUsed
<1> DEFINE held == blocks \ {b}
           e == [b EXCEPT !.size = new]
           addr == b.addr
           size == b.size
           upto == addr - data + new
<1>3. StructSize \in Nat /\ new \in Nat /\ new > 0
  BY ArenaAssumption
<1>4. data \in Nat /\ used \in Nat /\ cap \in Nat /\ used <= cap
  <2>1. Current.mem \in Nat /\ used \in Nat /\ cap \in Nat /\ used <= cap
    BY <1>1, ChunkTypes DEF Current
  <2> QED BY <1>3, <2>1 DEF Data
<1>5. b \in Block /\ addr \in Nat /\ size \in Nat /\ size > 0 /\ b.align > 0 /\ addr % b.align = 0
  <2>1. b \in Block /\ BlockSound(b)
    BY <1>1 DEF Carved
  <2> QED BY <2>1 DEF Block, BlockSound
<1>6. addr >= data /\ addr - data <= cap /\ size <= used /\ addr - data = used - size
      /\ new <= cap - (addr - data)
  BY <1>2 DEF InPlace
<1>7. e \in Block /\ e.addr = addr /\ e.size = new /\ e.align = b.align
  BY <1>3, <1>5 DEF Block
<1>8. chunks' = WithUsed(chunks, upto) /\ blocks' = held \cup {e} /\ hosted' = hosted
  BY <1>2
<1>9. cap = chunks[n].capacity /\ data = Data(chunks[n]) /\ used = chunks[n].used
  BY DEF Current
<1>10. \A d \in held : d \in blocks /\ d # b /\ d \in Block
  BY <1>1
<1> HIDE DEF n, data, used, cap, e, addr, size
<1>11. upto \in Nat /\ upto <= cap /\ data + upto = addr + new /\ data + used = addr + size
  BY <1>3, <1>4, <1>5, <1>6
<1> HIDE DEF upto
<1>12. /\ chunks' \in Seq(Chunk) /\ Len(chunks') = n
       /\ UsedWithin(chunks') /\ ChunksApart(chunks') /\ HostOf(chunks') = HostOf(chunks)
       /\ \A i \in 1 .. n : /\ Data(chunks'[i]) = Data(chunks[i])
                           /\ chunks'[i].used = IF i = n THEN upto ELSE chunks[i].used
  BY <1>1, <1>8, <1>9, <1>11, UsedChanges DEF n
<1>13. held \in SUBSET Block /\ Carved(held, chunks) /\ PairsApart(held)
  BY <1>1 DEF Carved, PairsApart
<1>14. Data(chunks'[n]) = data /\ chunks'[n].used = upto
  BY <1>1, <1>9, <1>12
<1>15. ASSUME NEW d \in held, BlockWithin(d, chunks[n])
       PROVE  BlockPair(e, d) /\ BlockWithin(d, chunks'[n])
  <2> DEFINE da == d.addr
             ds == d.size
  <2>1. data <= da /\ da + ds <= data + used
    BY <1>9, <1>15 DEF BlockWithin
  <2>2. da \in Nat /\ ds \in Nat /\ ds > 0
    <3>1. d \in Block /\ BlockSound(d)
      BY <1>13 DEF Carved
    <3> QED BY <3>1 DEF Block, BlockSound
  <2>3. addr + size <= da \/ da + ds <= addr
    BY <1>1, <1>10 DEF PairsApart, BlockPair, Apart, addr, size
  <2> HIDE DEF da, ds
  <2>4. da + ds <= addr /\ da + ds <= data + upto
    BY <1>3, <1>4, <1>5, <1>11, <2>1, <2>2, <2>3
  <2>5. BlockWithin(d, chunks'[n])
    BY <1>14, <2>1, <2>4 DEF BlockWithin, da, ds
  <2>6. BlockPair(e, d)
    BY <1>7, <2>4 DEF BlockPair, Apart, da, ds
  <2> QED BY <2>5, <2>6
<1>16. ASSUME NEW d \in held, NEW i \in 1 .. n, i # n, BlockWithin(d, chunks[i])
       PROVE  BlockWithin(d, chunks'[i])
  BY <1>12, <1>16 DEF BlockWithin
<1> HIDE DEF held
<1>17. Carved(held, chunks')
  BY <1>12, <1>13, <1>15, <1>16, StillCarved DEF n
<1>18. \A d \in held : BlockPair(e, d) \/ \E i \in 1 .. Len(chunks') : i # n /\ BlockWithin(d, chunks'[i])
  <2> SUFFICES ASSUME NEW d \in held
               PROVE  BlockPair(e, d) \/ \E i \in 1 .. n : i # n /\ BlockWithin(d, chunks'[i])
    BY <1>12
  <2>1. PICK i \in 1 .. n : BlockWithin(d, chunks[i])
    BY <1>13 DEF Carved, n
  <2> QED BY <1>15, <1>16, <2>1
<1>19. BlockSound(e) /\ BlockWithin(e, chunks'[n])
  <2>1. BlockSound(e)
    BY <1>3, <1>5, <1>7 DEF BlockSound
  <2>2. data <= addr /\ addr + new <= data + upto
    BY <1>3, <1>4, <1>5, <1>6, <1>11
  <2>3. BlockWithin(e, chunks'[n])
    BY <1>7, <1>14, <2>2 DEF BlockWithin
  <2> QED BY <2>1, <2>3
<1>20. n \in 1 .. Len(chunks')
  BY <1>1, <1>12
<1>21. Carved(held \cup {e}, chunks') /\ PairsApart(held \cup {e})
  BY <1>7, <1>12, <1>13, <1>17, <1>18, <1>19, <1>20, BlockAdded
<1>22. blocks' \subseteq Block
  BY <1>7, <1>8, <1>13
<1> QED BY <1>1, <1>8, <1>12, <1>21, <1>22 DEF ArenaInv

\* Every call of the arena's interface keeps the invariant.
LEMMA ArenaStep == ASSUME ArenaInv, [ArenaNext]_arenaVars PROVE ArenaInv'
<1>0. MinAlign \in Nat \ {0} /\ SizeMax \in Nat /\ Sizes \subseteq Nat /\ Aligns \subseteq Nat \ {0}
      /\ \A size \in Sizes : size <= SizeMax
  BY ArenaAssumption
<1>1. CASE Alloc
  <2>1. PICK size \in Sizes, align \in Aligns : AllocInto(size, AtLeastMin(align), blocks)
    BY <1>1 DEF Alloc
  <2>2. AtLeastMin(align) \in Nat \ {0} /\ size \in Nat
    BY <1>0 DEF AtLeastMin
  <2> QED BY <2>1, <2>2, AllocKeeps
<1>2. CASE Strndup
  <2>1. PICK len \in Sizes : len # SizeMax /\ AllocInto(Wrap(len + 1), AtLeastMin(1), blocks)
    BY <1>2 DEF Strndup
  <2>2. AtLeastMin(1) \in Nat \ {0} /\ len + 1 \in Nat /\ len + 1 <= SizeMax
    BY <1>0, <2>1 DEF AtLeastMin
  <2>3. Wrap(len + 1) \in Nat
    BY <2>2, WrapSmall
  <2> QED BY <2>1, <2>2, <2>3, AllocKeeps
<1>3. CASE ReallocMoves
  <2>1. PICK b \in blocks, new \in Sizes \ {0} : AllocInto(new, MinAlign, blocks \ {b})
    BY <1>3 DEF ReallocMoves
  <2>2. new \in Nat /\ blocks \ {b} \in SUBSET blocks
    BY <1>0
  <2> QED BY <1>0, <2>1, <2>2, AllocKeeps
<1>4. CASE UNCHANGED arenaVars
  BY <1>4 DEF ArenaInv, arenaVars
<1> QED BY <1>1, <1>2, <1>3, <1>4, ArenaInitKeeps, EmptiedKeeps, ResetKeeps, InPlaceKeeps DEF ArenaNext

\* Before bebop_arena_init there is nothing.
LEMMA ArenaStarts == ASSUME NoArena PROVE ArenaInv
<1>1. HostOf(<<>>) = {} /\ ChunksApart(<<>>) /\ UsedWithin(<<>>) /\ <<>> \in Seq(Chunk)
  BY EmptySeq DEF HostOf, ChunksApart, UsedWithin
<1> QED BY <1>1 DEF NoArena, ArenaInv, Carved, PairsApart

\* The invariant of bebop_arena_alloc, realloc, reset and destroy: chunks of the host's memory lie
\* apart, and the blocks are cut from below the mark of their chunk, apart from each other.
THEOREM ArenaInvariance == ArenaSpec => []ArenaInv
<1>1. NoArena => ArenaInv
  BY ArenaStarts
<1>2. ArenaInv /\ [ArenaNext]_arenaVars => ArenaInv'
  BY ArenaStep
<1> QED BY <1>1, <1>2, PTL DEF ArenaSpec

\* For every size of the chunks, of the address space and of the requests: no two blocks that
\* callers of bebop_arena_alloc and bebop_arena_realloc hold share a byte, each is aligned and lies
\* inside a chunk, and the host's live memory is the list of chunks.
THEOREM ArenaStaysConsistent == ArenaSpec => [](ArenaTypeOK /\ ArenaConsistent)
<1>1. ArenaInv => ArenaTypeOK /\ ArenaConsistent
  BY ArenaInvImplies
<1> QED BY <1>1, ArenaInvariance, PTL

-----------------------------------------------------------------------------
(***************************************************************************)
(* bebop_map: the open-addressing table behind Bebop_Map.                  *)
(***************************************************************************)
\* A group lies in the table: the capacity is a multiple of its size.
LEMMA AlignedInside ==
    ASSUME NEW cap \in Nat, NEW at \in Nat, at < cap, NEW g \in Nat \ {0}, cap % g = 0
    PROVE  at - (at % g) \in Nat /\ at - (at % g) + g <= cap
<1> DEFINE q == at \div g
           r == at % g
           c == cap \div g
<1>1. q \in Nat /\ r \in Nat /\ r < g /\ at = g * q + r
  OBVIOUS
<1>2. c \in Nat /\ cap = g * c
  OBVIOUS
<1> HIDE DEF q, r, c
<1>3. q < c
  <2>1. SUFFICES ASSUME c <= q PROVE FALSE
    BY <1>1, <1>2
  <2>2. g * c <= g * q
    BY <1>1, <1>2, <2>1
  <2> QED BY <1>1, <1>2, <2>2
<1>4. g * q + g <= g * c
  <2>1. q + 1 <= c
    BY <1>1, <1>2, <1>3
  <2>2. g * (q + 1) <= g * c
    BY <1>1, <1>2, <2>1
  <2>3. g * (q + 1) = g * q + g
    BY <1>1
  <2> QED BY <2>2, <2>3
<1>5. at - r = g * q /\ g * q \in Nat
  BY <1>1
<1> QED BY <1>2, <1>4, <1>5 DEF r

\* The group that a probe looks at lies in the table.
LEMMA GroupInside ==
    ASSUME NEW m, m.capacity \in Nat \ {0}, m.capacity % GroupSize = 0, NEW k \in Keys, NEW p \in Nat
    PROVE  Group(m, k, p) \subseteq 0 .. m.capacity - 1
<1> DEFINE cap == m.capacity
           at == (H1(k) + ProbeOffset(p)) % cap
<1>0. GroupSize \in Nat \ {0} /\ Hash[k] \in Nat
  BY MapAssumption
<1>1. H1(k) \in Nat
  BY <1>0 DEF H1
<1>2. ProbeOffset(p) \in Nat
  <2>1. p * (p + 1) \in Nat
    OBVIOUS
  <2> QED BY <2>1 DEF ProbeOffset
<1>3. at \in Nat /\ at < cap
  <2>1. cap \in Nat \ {0} /\ H1(k) + ProbeOffset(p) \in Nat
    BY <1>1, <1>2
  <2> HIDE DEF cap
  <2> QED BY <2>1
<1>4. cap \in Nat /\ cap % GroupSize = 0
  OBVIOUS
<1> DEFINE start == at - (at % GroupSize)
<1>5. GroupStart(m, k, p) = start
  BY DEF GroupStart
<1> HIDE DEF at, cap
<1>6. start \in Nat /\ start + GroupSize <= cap
  BY <1>0, <1>3, <1>4, AlignedInside
<1> HIDE DEF start
<1>7. start .. start + GroupSize - 1 \subseteq 0 .. cap - 1
  BY <1>0, <1>4, <1>6
<1> QED BY <1>5, <1>7 DEF Group, cap

\* The groups are a matter of the capacity only.
LEMMA SameGroups ==
    ASSUME NEW m, NEW n, m.capacity = n.capacity, NEW k, NEW p
    PROVE  Group(m, k, p) = Group(n, k, p) /\ MaxProbes(m) = MaxProbes(n)
BY DEF Group, GroupStart, MaxProbes

\* The least of a set of numbers.
LEMMA MinIs ==
    ASSUME NEW S, S \subseteq Nat, S # {}
    PROVE  Min(S) \in S /\ \A x \in S : Min(S) <= x
<1>1. \E x \in S : \A y \in S : x <= y
  BY LeastNatural
<1> QED BY <1>1 DEF Min

HasEmpty(m, k, p) == \E i \in Group(m, k, p) : m.ctrl[i] = CtrlEmpty
NoEmptyBefore(m, k, p) == \A q \in 0 .. p - 1 : ~ HasEmpty(m, k, q)

\* A search visits the groups before the first that has an empty slot, and that one.
LEMMA ProbesAre ==
    ASSUME NEW m, m.capacity \in Nat \ {0}, NEW k
    PROVE  /\ MaxProbes(m) \in Nat \ {0}
           /\ \A p : p \in Probes(m, k) <=> p \in 0 .. MaxProbes(m) - 1 /\ NoEmptyBefore(m, k, p)
<1> DEFINE cap == m.capacity
           last == MaxProbes(m) - 1
           stops == {p \in 0 .. last : HasEmpty(m, k, p)}
<1>0. GroupSize \in Nat \ {0} /\ cap \in Nat
  BY MapAssumption
<1>1. MaxProbes(m) \in Nat \ {0}
  <2> HIDE DEF cap
  <2>1. cap \div GroupSize \in Nat
    BY <1>0
  <2>2. MaxProbes(m) = cap \div GroupSize + 2
    BY DEF MaxProbes, cap
  <2> QED BY <2>1, <2>2
<1>2. Probes(m, k) = 0 .. (IF stops = {} THEN last ELSE Min(stops))
  BY DEF Probes, HasEmpty
<1>3. last \in Nat
  BY <1>1
<1> HIDE DEF last
<1>4. CASE stops = {}
  <2>1. \A p \in 0 .. last : ~ HasEmpty(m, k, p)
    BY <1>4
  <2>2. Probes(m, k) = 0 .. last
    BY <1>2, <1>4
  <2>3. \A p \in 0 .. last : NoEmptyBefore(m, k, p)
    <3>1. \A p \in 0 .. last : \A q \in 0 .. p - 1 : q \in 0 .. last
      BY <1>3
    <3> QED BY <2>1, <3>1 DEF NoEmptyBefore
  <2> QED BY <1>1, <2>2, <2>3 DEF last
<1>5. CASE stops # {}
  <2> DEFINE f == Min(stops)
  <2>0. stops \subseteq Nat
    BY <1>3
  <2>1. f \in stops /\ \A x \in stops : f <= x
    <3> HIDE DEF stops
    <3> QED BY <1>5, <2>0, MinIs
  <2>2. Probes(m, k) = 0 .. f
    BY <1>2, <1>5
  <2> HIDE DEF f
  <2>3. f \in 0 .. last /\ HasEmpty(m, k, f) /\ f \in Nat
    BY <1>3, <2>1
  <2>4. ASSUME NEW p \in 0 .. f PROVE p \in 0 .. last /\ NoEmptyBefore(m, k, p)
    <3>1. \A q \in 0 .. p - 1 : q \in 0 .. last /\ ~ (f <= q)
      BY <1>3, <2>3
    <3>2. \A q \in 0 .. p - 1 : ~ HasEmpty(m, k, q)
      BY <2>1, <3>1
    <3>3. p \in 0 .. last
      BY <1>3, <2>3
    <3> QED BY <3>2, <3>3 DEF NoEmptyBefore
  <2>5. ASSUME NEW p \in 0 .. last, NoEmptyBefore(m, k, p) PROVE p \in 0 .. f
    <3>1. SUFFICES ASSUME ~ (p <= f) PROVE FALSE
      BY <1>3, <2>3
    <3>2. f \in 0 .. p - 1
      BY <1>3, <2>3, <3>1
    <3> QED BY <2>3, <2>5, <3>2 DEF NoEmptyBefore
  <2> QED BY <1>1, <2>2, <2>4, <2>5 DEF last
<1> QED BY <1>4, <1>5
-----------------------------------------------------------------------------
Slot == [key : Keys, value : Values]

Control == {CtrlEmpty, CtrlDeleted} \cup 0 .. 127

\* The tables of capacity c.
Tables(c) ==
    [capacity : {c}, ctrl : [0 .. c - 1 -> Control], slots : [0 .. c - 1 -> Slot \cup {<<>>}],
     length : Nat, growth_left : Int]

Full(m) == {i \in 0 .. m.capacity - 1 : IsFull(m.ctrl[i])}
KeyAt(m, i) == m.slots[i].key
EntryAt(m, i) == <<m.slots[i].key, m.slots[i].value>>

\* The search for the key of a slot comes to the slot.
Reachable(m, i) ==
    \E p \in 0 .. MaxProbes(m) - 1 :
        i \in Group(m, KeyAt(m, i), p) /\ NoEmptyBefore(m, KeyAt(m, i), p)

SlotSound(m, i) == m.slots[i] \in Slot /\ m.ctrl[i] = H2(KeyAt(m, i)) /\ Reachable(m, i)

\* What makes a table a map: a key is in one slot, and no group that its search visits before has an
\* empty slot.  A removal leaves a tombstone for the sake of the second.
Sound(m) ==
    /\ m.capacity \in Nat \ {0} /\ m.capacity % GroupSize = 0 /\ m \in Tables(m.capacity)
    /\ \A i \in Full(m) : SlotSound(m, i)
    /\ \A i, j \in Full(m) : KeyAt(m, i) = KeyAt(m, j) => i = j
    /\ IsFiniteSet(Iterated(m)) /\ m.length = Cardinality(Iterated(m))

\* What the arrays of a table hold.
LEMMA TableTypes ==
    ASSUME NEW c, NEW m \in Tables(c)
    PROVE  /\ m.capacity = c /\ m.ctrl \in [0 .. c - 1 -> Control]
           /\ m.slots \in [0 .. c - 1 -> Slot \cup {<<>>}] /\ m.length \in Nat /\ m.growth_left \in Int
BY DEF Tables

\* An entry is iterated if some slot has it.
LEMMA IteratedIs ==
    ASSUME NEW m, m.ctrl \in [0 .. m.capacity - 1 -> Control]
    PROVE  Iterated(m) = {EntryAt(m, i) : i \in Full(m)}
<1>1. DOMAIN m.ctrl = 0 .. m.capacity - 1
  OBVIOUS
<1> QED BY <1>1 DEF Iterated, EntryAt, Full

\* The control byte of a key marks a full slot, and the two others do not.
LEMMA FullIs ==
    ASSUME NEW k \in Keys
    PROVE  H2(k) \in 0 .. 127 /\ IsFull(H2(k)) /\ H2(k) # CtrlEmpty /\ H2(k) \in Control
           /\ ~ IsFull(CtrlEmpty) /\ ~ IsFull(CtrlDeleted) /\ CtrlEmpty # CtrlDeleted
<1>1. Hash[k] \in Nat
  BY MapAssumption
<1>2. H2(k) \in 0 .. 127
  BY <1>1 DEF H2
<1> QED BY <1>2 DEF IsFull, CtrlEmpty, CtrlDeleted, Control

\* A search finds the slot of its key and no other.
LEMMA MatchesAre ==
    ASSUME NEW m, Sound(m), NEW k \in Keys
    PROVE  Matches(m, k) = {i \in Full(m) : KeyAt(m, i) = k}
<1>0. m.capacity \in Nat \ {0} /\ m.capacity % GroupSize = 0
  BY DEF Sound
<1>1. ASSUME NEW i \in Matches(m, k) PROVE i \in Full(m) /\ KeyAt(m, i) = k
  <2>1. PICK p \in Probes(m, k) : i \in Group(m, k, p)
    BY DEF Matches
  <2>2. p \in Nat
    <3>1. p \in 0 .. MaxProbes(m) - 1 /\ MaxProbes(m) \in Nat
      BY <1>0, <2>1, ProbesAre
    <3> QED BY <3>1
  <2>3. i \in 0 .. m.capacity - 1
    BY <1>0, <2>1, <2>2, GroupInside
  <2>4. m.ctrl[i] = H2(k) /\ m.slots[i].key = k
    BY DEF Matches
  <2> QED BY <2>3, <2>4, FullIs DEF Full, KeyAt
<1>2. ASSUME NEW i \in Full(m), KeyAt(m, i) = k PROVE i \in Matches(m, k)
  <2>1. SlotSound(m, i)
    BY DEF Sound
  <2>2. m.ctrl[i] = H2(k) /\ m.slots[i].key = k
    BY <1>2, <2>1 DEF SlotSound, KeyAt
  <2>3. PICK p \in 0 .. MaxProbes(m) - 1 : i \in Group(m, k, p) /\ NoEmptyBefore(m, k, p)
    BY <1>2, <2>1 DEF SlotSound, Reachable
  <2>4. p \in Probes(m, k)
    BY <1>0, <2>3, ProbesAre
  <2> QED BY <2>2, <2>3, <2>4 DEF Matches
<1> QED BY <1>1, <1>2

\* The slot that bebop_map_set finds is empty or deleted, and on the key's way.
LEMMA InsertSlotIs ==
    ASSUME NEW m, Sound(m), NEW k \in Keys, InsertSlot(m, k) # {}
    PROVE  /\ Min(InsertSlot(m, k)) \in 0 .. m.capacity - 1 /\ ~ IsFull(m.ctrl[Min(InsertSlot(m, k))])
           /\ \E p \in 0 .. MaxProbes(m) - 1 :
                 Min(InsertSlot(m, k)) \in Group(m, k, p) /\ NoEmptyBefore(m, k, p)
<1> DEFINE withRoom == {p \in Probes(m, k) : FreeIn(m, k, p) # {}}
           p == Min(withRoom)
           i == Min(FreeIn(m, k, p))
<1>0. m.capacity \in Nat \ {0} /\ m.capacity % GroupSize = 0
  BY DEF Sound
<1>1. withRoom # {} /\ InsertSlot(m, k) = {i}
  BY DEF InsertSlot
<1>2. \A q \in Probes(m, k) : q \in 0 .. MaxProbes(m) - 1 /\ NoEmptyBefore(m, k, q) /\ q \in Nat
  <2>1. MaxProbes(m) \in Nat
    BY <1>0, ProbesAre
  <2> QED BY <1>0, <2>1, ProbesAre
<1>3. p \in withRoom
  <2>1. withRoom \subseteq Nat
    BY <1>2
  <2> HIDE DEF withRoom
  <2> QED BY <1>1, <2>1, MinIs
<1>4. p \in Probes(m, k) /\ FreeIn(m, k, p) # {}
  <2> HIDE DEF p
  <2> QED BY <1>3
<1> HIDE DEF p
<1>5. i \in FreeIn(m, k, p) /\ i \in Nat
  <2>1. FreeIn(m, k, p) \subseteq Nat
    <3>1. Group(m, k, p) \subseteq 0 .. m.capacity - 1
      BY <1>0, <1>2, <1>4, GroupInside
    <3> QED BY <1>0, <3>1 DEF FreeIn
  <2> QED BY <1>4, <2>1, MinIs
<1> HIDE DEF i
<1>6. Min({i}) = i
  <2>1. {i} \subseteq Nat /\ {i} # {}
    BY <1>5
  <2> QED BY <2>1, MinIs
<1>7. i \in Group(m, k, p) /\ ~ IsFull(m.ctrl[i])
  BY <1>5 DEF FreeIn
<1>8. i \in 0 .. m.capacity - 1
  BY <1>0, <1>2, <1>4, <1>7, GroupInside
<1>9. Min(InsertSlot(m, k)) = i
  BY <1>1, <1>6
<1> QED BY <1>2, <1>4, <1>7, <1>8, <1>9

\* An entry is the key and the value of its slot.
LEMMA EntryParts ==
    ASSUME NEW m, NEW i
    PROVE  EntryAt(m, i)[1] = KeyAt(m, i) /\ EntryAt(m, i)[2] = m.slots[i].value
BY DEF EntryAt, KeyAt

\* bebop_map_get returns the value of the entry of the key, or nothing.
LEMMA GetIs ==
    ASSUME NEW m, Sound(m), NEW k \in Keys
    PROVE  Get(m, k) = {e[2] : e \in {f \in Iterated(m) : f[1] = k}}
<1>1. Iterated(m) = {EntryAt(m, i) : i \in Full(m)}
  <2>1. m \in Tables(m.capacity)
    BY DEF Sound
  <2>2. m.ctrl \in [0 .. m.capacity - 1 -> Control]
    BY <2>1, TableTypes
  <2> QED BY <2>2, IteratedIs
<1>2. CASE m.length = 0
  <2>1. Iterated(m) = {}
    BY <1>2, FS_EmptySet DEF Sound
  <2> QED BY <1>2, <2>1 DEF Get
<1>3. CASE m.length # 0
  <2>1. Get(m, k) = {m.slots[i].value : i \in {j \in Full(m) : KeyAt(m, j) = k}}
    BY <1>3, MatchesAre DEF Get
  <2>2. ASSUME NEW x \in Get(m, k) PROVE x \in {e[2] : e \in {f \in Iterated(m) : f[1] = k}}
    <3>1. PICK i \in Full(m) : KeyAt(m, i) = k /\ x = m.slots[i].value
      BY <2>1
    <3>2. EntryAt(m, i) \in Iterated(m) /\ EntryAt(m, i)[1] = k /\ EntryAt(m, i)[2] = x
      BY <1>1, <3>1, EntryParts
    <3> QED BY <3>2
  <2>3. ASSUME NEW e \in Iterated(m), e[1] = k PROVE e[2] \in Get(m, k)
    <3>1. PICK i \in Full(m) : e = EntryAt(m, i)
      BY <1>1
    <3>2. KeyAt(m, i) = k /\ e[2] = m.slots[i].value
      BY <2>3, <3>1, EntryParts
    <3> QED BY <2>1, <3>2
  <2> QED BY <2>2, <2>3
<1> QED BY <1>2, <1>3
-----------------------------------------------------------------------------
\* The search for k comes to slot i.
LeadsTo(m, k, i) == \E p \in 0 .. MaxProbes(m) - 1 : i \in Group(m, k, p) /\ NoEmptyBefore(m, k, p)

NoNewEmpty(m, n) == \A j \in 0 .. m.capacity - 1 : n.ctrl[j] = CtrlEmpty => m.ctrl[j] = CtrlEmpty

\* As long as no slot becomes empty, a search that led to a slot leads to it still.
LEMMA StillLeads ==
    ASSUME NEW m, NEW n, m.capacity \in Nat \ {0}, m.capacity % GroupSize = 0, n.capacity = m.capacity,
           NoNewEmpty(m, n), NEW k \in Keys, NEW i, LeadsTo(m, k, i)
    PROVE  LeadsTo(n, k, i)
<1>1. MaxProbes(m) \in Nat /\ MaxProbes(n) = MaxProbes(m) /\ \A p : Group(n, k, p) = Group(m, k, p)
  BY ProbesAre, SameGroups
<1>2. PICK p \in 0 .. MaxProbes(m) - 1 : i \in Group(m, k, p) /\ NoEmptyBefore(m, k, p)
  BY DEF LeadsTo
<1>3. ASSUME NEW q \in 0 .. p - 1 PROVE ~ HasEmpty(n, k, q)
  <2>1. q \in Nat
    BY <1>1
  <2>2. Group(m, k, q) \subseteq 0 .. m.capacity - 1
    BY <2>1, GroupInside
  <2>3. ~ HasEmpty(m, k, q)
    BY <1>2 DEF NoEmptyBefore
  <2> QED BY <1>1, <2>2, <2>3 DEF HasEmpty, NoNewEmpty
<1>4. NoEmptyBefore(n, k, p)
  BY <1>3 DEF NoEmptyBefore
<1> QED BY <1>1, <1>2, <1>4 DEF LeadsTo

\* Slot i of n is new or gone, or its value is; the others are as in m.
SlotsButOne(m, n, i) ==
    \A j \in Full(n) : j # i => j \in Full(m) /\ n.slots[j] = m.slots[j] /\ n.ctrl[j] = m.ctrl[j]

SlotFor(m, n, k, i) ==
    /\ n.slots[i] \in Slot /\ KeyAt(n, i) = k /\ n.ctrl[i] = H2(k) /\ LeadsTo(m, k, i)
    /\ \A j \in Full(m) : KeyAt(m, j) = k => j = i

\* Writing one slot keeps the structure of the table.
LEMMA StructureKept ==
    ASSUME NEW m, Sound(m), NEW n \in Tables(m.capacity), NoNewEmpty(m, n), NEW k \in Keys, NEW i,
           SlotsButOne(m, n, i), i \in Full(n) => SlotFor(m, n, k, i)
    PROVE  /\ \A j \in Full(n) : SlotSound(n, j)
           /\ \A j, l \in Full(n) : KeyAt(n, j) = KeyAt(n, l) => j = l
<1>0. m.capacity \in Nat \ {0} /\ m.capacity % GroupSize = 0 /\ n.capacity = m.capacity
  BY TableTypes DEF Sound
<1>1. ASSUME NEW j \in Full(n), j # i
      PROVE  /\ SlotSound(n, j) /\ KeyAt(n, j) = KeyAt(m, j) /\ j \in Full(m)
             /\ (i \in Full(n) => KeyAt(n, j) # k)
  <2>1. j \in Full(m) /\ n.slots[j] = m.slots[j] /\ n.ctrl[j] = m.ctrl[j]
    BY <1>1 DEF SlotsButOne
  <2>2. SlotSound(m, j)
    BY <2>1 DEF Sound
  <2>3. KeyAt(n, j) = KeyAt(m, j)
    BY <2>1 DEF KeyAt
  <2>4. KeyAt(m, j) \in Keys
    BY <2>2 DEF SlotSound, KeyAt, Slot
  <2>5. LeadsTo(m, KeyAt(m, j), j)
    BY <2>2 DEF SlotSound, Reachable, LeadsTo
  <2>6. LeadsTo(n, KeyAt(m, j), j)
    BY <1>0, <2>4, <2>5, StillLeads
  <2>7. Reachable(n, j)
    BY <2>3, <2>6 DEF Reachable, LeadsTo
  <2>8. SlotSound(n, j)
    BY <2>1, <2>2, <2>3, <2>7 DEF SlotSound
  <2>9. i \in Full(n) => KeyAt(n, j) # k
    BY <1>1, <2>1, <2>3 DEF SlotFor
  <2> QED BY <2>1, <2>3, <2>8, <2>9
<1>2. ASSUME i \in Full(n) PROVE SlotSound(n, i) /\ KeyAt(n, i) = k
  <2>1. SlotFor(m, n, k, i)
    BY <1>2
  <2>2. LeadsTo(n, k, i)
    BY <1>0, <2>1, StillLeads DEF SlotFor
  <2>3. Reachable(n, i)
    BY <2>1, <2>2 DEF SlotFor, Reachable, LeadsTo
  <2> QED BY <2>1, <2>3 DEF SlotFor, SlotSound
<1>3. \A j, l \in Full(m) : KeyAt(m, j) = KeyAt(m, l) => j = l
  BY DEF Sound
<1>4. \A j \in Full(n) : SlotSound(n, j)
  BY <1>1, <1>2
<1>5. ASSUME NEW j \in Full(n), NEW l \in Full(n), KeyAt(n, j) = KeyAt(n, l) PROVE j = l
  BY <1>1, <1>2, <1>3, <1>5
<1> QED BY <1>4, <1>5

OthersOf(m, k) == {e \in Iterated(m) : e[1] # k}

\* The entries of the other keys are those of the other slots.
LEMMA OthersAre ==
    ASSUME NEW m, Sound(m), NEW k, NEW i,
           \A j \in Full(m) : KeyAt(m, j) = k <=> j = i
    PROVE  OthersOf(m, k) = {EntryAt(m, j) : j \in Full(m) \ {i}}
<1>1. Iterated(m) = {EntryAt(m, j) : j \in Full(m)}
  <2>1. m \in Tables(m.capacity)
    BY DEF Sound
  <2>2. m.ctrl \in [0 .. m.capacity - 1 -> Control]
    BY <2>1, TableTypes
  <2> QED BY <2>2, IteratedIs
<1>2. \A j \in Full(m) : EntryAt(m, j)[1] = KeyAt(m, j)
  BY EntryParts
<1> QED BY <1>1, <1>2 DEF OthersOf

\* The entries with other keys, counted.
LEMMA OthersCounted ==
    ASSUME NEW m, Sound(m), NEW k, NEW i \in Full(m), \A j \in Full(m) : KeyAt(m, j) = k <=> j = i
    PROVE  /\ IsFiniteSet(OthersOf(m, k)) /\ Cardinality(OthersOf(m, k)) = m.length - 1
           /\ Cardinality(OthersOf(m, k)) \in Nat /\ m.length \in Nat
<1> DEFINE S == Iterated(m)
           e == EntryAt(m, i)
<1>1. Iterated(m) = {EntryAt(m, j) : j \in Full(m)}
  <2>1. m \in Tables(m.capacity)
    BY DEF Sound
  <2>2. m.ctrl \in [0 .. m.capacity - 1 -> Control]
    BY <2>1, TableTypes
  <2> QED BY <2>2, IteratedIs
<1>2. e \in S
  BY <1>1
<1>3. \A j \in Full(m) : EntryAt(m, j)[1] = KeyAt(m, j)
  BY EntryParts
<1>4. \A f \in S : f[1] # k <=> f # e
  BY <1>1, <1>3
<1>5. OthersOf(m, k) = S \ {e}
  BY <1>4 DEF OthersOf
<1>6. IsFiniteSet(S) /\ m.length = Cardinality(S)
  BY DEF Sound
<1> HIDE DEF S, e
<1>7. IsFiniteSet(S \ {e}) /\ Cardinality(S \ {e}) = Cardinality(S) - 1
  BY <1>2, <1>6, FS_RemoveElement
<1>8. Cardinality(S \ {e}) \in Nat /\ Cardinality(S) \in Nat
  BY <1>6, <1>7, FS_CardinalityType
<1> QED BY <1>5, <1>6, <1>7, <1>8

\* The slot a search finds.
LEMMA FoundIs ==
    ASSUME NEW m, Sound(m), NEW k \in Keys, Matches(m, k) # {}
    PROVE  /\ Min(Matches(m, k)) \in Full(m)
           /\ \A j \in Full(m) : KeyAt(m, j) = k <=> j = Min(Matches(m, k))
<1> DEFINE i == Min(Matches(m, k))
<1>1. Matches(m, k) = {j \in Full(m) : KeyAt(m, j) = k}
  BY MatchesAre
<1>2. Matches(m, k) \subseteq Nat
  <2>1. m.capacity \in Nat
    BY DEF Sound
  <2> QED BY <1>1, <2>1 DEF Full
<1>3. i \in Matches(m, k)
  BY <1>2, MinIs
<1>4. \A j, l \in Full(m) : KeyAt(m, j) = KeyAt(m, l) => j = l
  BY DEF Sound
<1> HIDE DEF i
<1> QED BY <1>1, <1>3, <1>4 DEF i

WithValue(m, i, v) == [m EXCEPT !.slots[i].value = v]
Tombstone(m, i) == [m EXCEPT !.ctrl[i] = CtrlDeleted, !.slots[i] = <<>>, !.length = @ - 1]

\* bebop_map_set of a key that is there.
LEMMA ReplaceSound ==
    ASSUME NEW m, Sound(m), NEW k \in Keys, NEW v \in Values, NEW i \in Full(m),
           \A j \in Full(m) : KeyAt(m, j) = k <=> j = i,
           NEW n, n = WithValue(m, i, v)
    PROVE  Sound(n) /\ n.capacity = m.capacity /\ Iterated(n) = OthersOf(m, k) \cup {<<k, v>>}
<1> DEFINE c == m.capacity
<1>0. c \in Nat \ {0} /\ c % GroupSize = 0 /\ m \in Tables(c)
  BY DEF Sound
<1>1. /\ m.ctrl \in [0 .. c - 1 -> Control] /\ m.slots \in [0 .. c - 1 -> Slot \cup {<<>>}]
      /\ m.length \in Nat /\ m.growth_left \in Int
  BY <1>0, TableTypes
<1>2. SlotSound(m, i) /\ i \in 0 .. c - 1 /\ KeyAt(m, i) = k
  BY DEF Sound, Full
<1>3. m.slots[i] \in Slot
  BY <1>2 DEF SlotSound
<1> DEFINE s == [m.slots[i] EXCEPT !.value = v]
<1>4. s \in Slot /\ s.key = k /\ s.value = v
  BY <1>2, <1>3 DEF Slot, KeyAt
<1>5. n = [m EXCEPT !.slots = [m.slots EXCEPT ![i] = s]]
  BY DEF WithValue
<1> HIDE DEF s
<1>6. /\ n.capacity = c /\ n.ctrl = m.ctrl /\ n.length = m.length /\ n.growth_left = m.growth_left
      /\ n.slots = [m.slots EXCEPT ![i] = s] /\ n \in Tables(c)
  <2>1. [m.slots EXCEPT ![i] = s] \in [0 .. c - 1 -> Slot \cup {<<>>}]
    BY <1>1, <1>4
  <2> QED BY <1>0, <1>5, <2>1 DEF Tables
<1>7. n.slots[i] = s /\ \A j \in 0 .. c - 1 : j # i => n.slots[j] = m.slots[j]
  BY <1>1, <1>2, <1>6
<1>8. Full(n) = Full(m) /\ NoNewEmpty(m, n)
  BY <1>6 DEF Full, NoNewEmpty
<1>9. SlotsButOne(m, n, i)
  BY <1>6, <1>7, <1>8 DEF SlotsButOne, Full
<1>10. SlotFor(m, n, k, i)
  BY <1>2, <1>4, <1>6, <1>7 DEF SlotFor, KeyAt, SlotSound, Reachable, LeadsTo
<1>11. /\ \A j \in Full(n) : SlotSound(n, j)
       /\ \A j, l \in Full(n) : KeyAt(n, j) = KeyAt(n, l) => j = l
  BY <1>6, <1>8, <1>9, <1>10, StructureKept
<1>12. Iterated(n) = {EntryAt(n, j) : j \in Full(n)}
  <2>1. n.ctrl \in [0 .. n.capacity - 1 -> Control]
    BY <1>6, TableTypes
  <2> QED BY <2>1, IteratedIs
<1>13. EntryAt(n, i) = <<k, v>> /\ \A j \in Full(m) \ {i} : EntryAt(n, j) = EntryAt(m, j)
  BY <1>4, <1>7 DEF EntryAt, Full
<1>14. OthersOf(m, k) = {EntryAt(m, j) : j \in Full(m) \ {i}}
  BY OthersAre
<1>15. Iterated(n) = OthersOf(m, k) \cup {<<k, v>>}
  BY <1>8, <1>12, <1>13, <1>14
<1>16. /\ IsFiniteSet(OthersOf(m, k)) /\ Cardinality(OthersOf(m, k)) = m.length - 1
  BY OthersCounted
<1>17. <<k, v>> \notin OthersOf(m, k)
  BY DEF OthersOf
<1>18. IsFiniteSet(Iterated(n)) /\ Cardinality(Iterated(n)) = n.length
  <2>1. /\ IsFiniteSet(OthersOf(m, k) \cup {<<k, v>>})
        /\ Cardinality(OthersOf(m, k) \cup {<<k, v>>}) = Cardinality(OthersOf(m, k)) + 1
    BY <1>16, <1>17, FS_AddElement
  <2> DEFINE a == m.length
             b == Cardinality(OthersOf(m, k))
  <2>2. a \in Nat /\ b = a - 1 /\ n.length = a
    BY <1>1, <1>6, <1>16
  <2> HIDE DEF a, b
  <2>3. b + 1 = n.length
    BY <2>2
  <2> QED BY <1>15, <2>1, <2>3 DEF b
<1> QED BY <1>0, <1>6, <1>11, <1>15, <1>18 DEF Sound

\* bebop_map_set of a new key, into a slot that its search comes to.
LEMMA FillSound ==
    ASSUME NEW m, Sound(m), NEW k \in Keys, NEW v \in Values, NEW i \in 0 .. m.capacity - 1,
           ~ IsFull(m.ctrl[i]), LeadsTo(m, k, i), \A j \in Full(m) : KeyAt(m, j) # k,
           NEW n, n = Fill(m, i, k, v)
    PROVE  Sound(n) /\ n.capacity = m.capacity /\ Iterated(n) = OthersOf(m, k) \cup {<<k, v>>}
<1> DEFINE c == m.capacity
           s == [key |-> k, value |-> v]
           g == IF m.ctrl[i] = CtrlEmpty THEN m.growth_left - 1 ELSE m.growth_left
<1>0. c \in Nat \ {0} /\ c % GroupSize = 0 /\ m \in Tables(c)
  BY DEF Sound
<1>1. /\ m.ctrl \in [0 .. c - 1 -> Control] /\ m.slots \in [0 .. c - 1 -> Slot \cup {<<>>}]
      /\ m.length \in Nat /\ m.growth_left \in Int
  BY <1>0, TableTypes
<1>2. i \in 0 .. c - 1 /\ i \notin Full(m) /\ g \in Int
  BY <1>1 DEF Full
<1>3. H2(k) \in Control /\ IsFull(H2(k)) /\ H2(k) # CtrlEmpty
  BY FullIs
<1>4. s \in Slot /\ s.key = k /\ s.value = v
  BY DEF Slot
<1>5. n = [m EXCEPT !.growth_left = g, !.ctrl = [m.ctrl EXCEPT ![i] = H2(k)],
                    !.slots = [m.slots EXCEPT ![i] = s], !.length = m.length + 1]
  BY DEF Fill
<1> HIDE DEF s, g
<1>6. /\ n.capacity = c /\ n.ctrl = [m.ctrl EXCEPT ![i] = H2(k)] /\ n.length = m.length + 1
      /\ n.slots = [m.slots EXCEPT ![i] = s] /\ n \in Tables(c)
  <2>1. /\ [m.slots EXCEPT ![i] = s] \in [0 .. c - 1 -> Slot \cup {<<>>}]
        /\ [m.ctrl EXCEPT ![i] = H2(k)] \in [0 .. c - 1 -> Control] /\ m.length + 1 \in Nat
    BY <1>1, <1>3, <1>4
  <2> QED BY <1>0, <1>2, <1>5, <2>1 DEF Tables
<1>7. /\ n.slots[i] = s /\ \A j \in 0 .. c - 1 : j # i => n.slots[j] = m.slots[j]
      /\ n.ctrl[i] = H2(k) /\ \A j \in 0 .. c - 1 : j # i => n.ctrl[j] = m.ctrl[j]
  BY <1>1, <1>2, <1>6
<1>8. Full(n) = Full(m) \cup {i}
  BY <1>2, <1>3, <1>6, <1>7 DEF Full
<1>9. NoNewEmpty(m, n)
  BY <1>3, <1>7 DEF NoNewEmpty
<1>10. SlotsButOne(m, n, i)
  BY <1>7, <1>8 DEF SlotsButOne, Full
<1>11. SlotFor(m, n, k, i)
  BY <1>4, <1>7 DEF SlotFor, KeyAt
<1>12. /\ \A j \in Full(n) : SlotSound(n, j)
       /\ \A j, l \in Full(n) : KeyAt(n, j) = KeyAt(n, l) => j = l
  BY <1>6, <1>9, <1>10, <1>11, StructureKept
<1>13. n.ctrl \in [0 .. n.capacity - 1 -> Control]
  BY <1>6, TableTypes
<1>14. Iterated(n) = {EntryAt(n, j) : j \in Full(n)}
  BY <1>13, IteratedIs
<1>15. EntryAt(n, i) = <<k, v>> /\ \A j \in Full(m) \ {i} : EntryAt(n, j) = EntryAt(m, j)
  BY <1>4, <1>7 DEF EntryAt, Full
<1>16. OthersOf(m, k) = {EntryAt(m, j) : j \in Full(m) \ {i}}
  <2>1. \A j \in Full(m) : KeyAt(m, j) = k <=> j = i
    BY <1>2
  <2> QED BY <2>1, OthersAre
<1>17. Iterated(n) = OthersOf(m, k) \cup {<<k, v>>}
  BY <1>2, <1>8, <1>14, <1>15, <1>16
<1>18. Iterated(m) = OthersOf(m, k)
  <2>1. Iterated(m) = {EntryAt(m, j) : j \in Full(m)}
    BY <1>1, IteratedIs
  <2> QED BY <1>2, <1>16, <2>1
<1>19. <<k, v>> \notin OthersOf(m, k)
  BY DEF OthersOf
<1>20. IsFiniteSet(Iterated(n)) /\ Cardinality(Iterated(n)) = n.length
  <2>1. IsFiniteSet(OthersOf(m, k)) /\ Cardinality(OthersOf(m, k)) = m.length
    BY <1>18 DEF Sound
  <2>2. /\ IsFiniteSet(OthersOf(m, k) \cup {<<k, v>>})
        /\ Cardinality(OthersOf(m, k) \cup {<<k, v>>}) = Cardinality(OthersOf(m, k)) + 1
    BY <1>19, <2>1, FS_AddElement
  <2> QED BY <1>6, <1>17, <2>1, <2>2
<1> QED BY <1>0, <1>6, <1>12, <1>17, <1>20 DEF Sound

\* bebop_map_remove of a key that is there.
LEMMA RemoveSound ==
    ASSUME NEW m, Sound(m), NEW k \in Keys, NEW i \in Full(m),
           \A j \in Full(m) : KeyAt(m, j) = k <=> j = i,
           NEW n, n = Tombstone(m, i)
    PROVE  Sound(n) /\ n.capacity = m.capacity /\ Iterated(n) = OthersOf(m, k)
<1> DEFINE c == m.capacity
<1>0. c \in Nat \ {0} /\ c % GroupSize = 0 /\ m \in Tables(c)
  BY DEF Sound
<1>1. /\ m.ctrl \in [0 .. c - 1 -> Control] /\ m.slots \in [0 .. c - 1 -> Slot \cup {<<>>}]
      /\ m.length \in Nat /\ m.growth_left \in Int
  BY <1>0, TableTypes
<1>2. /\ IsFiniteSet(OthersOf(m, k)) /\ Cardinality(OthersOf(m, k)) = m.length - 1
      /\ Cardinality(OthersOf(m, k)) \in Nat
  BY OthersCounted
<1>3. i \in 0 .. c - 1
  BY DEF Full
<1>4. CtrlDeleted \in Control /\ ~ IsFull(CtrlDeleted) /\ CtrlEmpty # CtrlDeleted
  BY FullIs DEF Control
<1>5. n = [m EXCEPT !.ctrl = [m.ctrl EXCEPT ![i] = CtrlDeleted],
                    !.slots = [m.slots EXCEPT ![i] = <<>>], !.length = m.length - 1]
  BY DEF Tombstone
<1>6. /\ n.capacity = c /\ n.ctrl = [m.ctrl EXCEPT ![i] = CtrlDeleted] /\ n.length = m.length - 1
      /\ n.slots = [m.slots EXCEPT ![i] = <<>>] /\ n \in Tables(c)
  <2>1. /\ [m.slots EXCEPT ![i] = <<>>] \in [0 .. c - 1 -> Slot \cup {<<>>}]
        /\ [m.ctrl EXCEPT ![i] = CtrlDeleted] \in [0 .. c - 1 -> Control] /\ m.length - 1 \in Nat
    BY <1>1, <1>2, <1>4
  <2> QED BY <1>0, <1>5, <2>1 DEF Tables
<1>7. /\ \A j \in 0 .. c - 1 : j # i => n.slots[j] = m.slots[j]
      /\ n.ctrl[i] = CtrlDeleted /\ \A j \in 0 .. c - 1 : j # i => n.ctrl[j] = m.ctrl[j]
  <2> DEFINE D == 0 .. c - 1
             f == m.ctrl
             g == m.slots
  <2>1. f \in [D -> Control] /\ g \in [D -> Slot \cup {<<>>}] /\ i \in D
    BY <1>1, <1>3
  <2>2. n.ctrl = [f EXCEPT ![i] = CtrlDeleted] /\ n.slots = [g EXCEPT ![i] = <<>>]
    BY <1>6
  <2> HIDE DEF D, f, g
  <2>3. n.ctrl[i] = CtrlDeleted /\ \A j \in D : j # i => n.ctrl[j] = f[j]
    BY <2>1, <2>2
  <2>4. \A j \in D : j # i => n.slots[j] = g[j]
    BY <2>1, <2>2
  <2> QED BY <2>3, <2>4 DEF D, f, g
<1>8. Full(n) = Full(m) \ {i}
  BY <1>4, <1>6, <1>7 DEF Full
<1>9. NoNewEmpty(m, n)
  BY <1>4, <1>7 DEF NoNewEmpty
<1>10. SlotsButOne(m, n, i)
  BY <1>7, <1>8 DEF SlotsButOne, Full
<1>11. /\ \A j \in Full(n) : SlotSound(n, j)
       /\ \A j, l \in Full(n) : KeyAt(n, j) = KeyAt(n, l) => j = l
  BY <1>6, <1>8, <1>9, <1>10, StructureKept
<1>12. n.ctrl \in [0 .. n.capacity - 1 -> Control]
  BY <1>6, TableTypes
<1>13. Iterated(n) = {EntryAt(n, j) : j \in Full(n)}
  BY <1>12, IteratedIs
<1>14. \A j \in Full(m) \ {i} : EntryAt(n, j) = EntryAt(m, j)
  BY <1>7 DEF EntryAt, Full
<1>15. OthersOf(m, k) = {EntryAt(m, j) : j \in Full(m) \ {i}}
  BY OthersAre
<1>16. Iterated(n) = OthersOf(m, k)
  BY <1>8, <1>13, <1>14, <1>15
<1> QED BY <1>0, <1>2, <1>6, <1>11, <1>16 DEF Sound

-----------------------------------------------------------------------------
\* bebop_map_set with growth left: the entry is put, or every group that the search visits is full
\* and the map is as it was.
LEMMA PutSound ==
    ASSUME NEW m, Sound(m), NEW k \in Keys, NEW v \in Values, NEW r, r = Put(m, k, v)
    PROVE  /\ r = [ok |-> r.ok, m |-> r.m] /\ r.ok \in BOOLEAN
           /\ Sound(r.m) /\ r.m.capacity = m.capacity
           /\ r.ok => Iterated(r.m) = OthersOf(m, k) \cup {<<k, v>>}
           /\ ~ r.ok => r.m = m
<1> DEFINE found == Matches(m, k)
           free == InsertSlot(m, k)
<1>1. CASE found # {}
  <2> DEFINE i == Min(found)
             n == WithValue(m, i, v)
  <2>1. r = [ok |-> TRUE, m |-> n]
    BY <1>1 DEF Put, PutAt, WithValue
  <2>2. i \in Full(m) /\ \A j \in Full(m) : KeyAt(m, j) = k <=> j = i
    BY <1>1, FoundIs
  <2> HIDE DEF i
  <2>3. Sound(n) /\ n.capacity = m.capacity /\ Iterated(n) = OthersOf(m, k) \cup {<<k, v>>}
    BY <2>2, ReplaceSound
  <2> HIDE DEF n
  <2> QED BY <2>1, <2>3
<1>2. CASE found = {} /\ free = {}
  <2>1. r = [ok |-> FALSE, m |-> m]
    BY <1>2 DEF Put, PutAt
  <2> QED BY <2>1
<1>3. CASE found = {} /\ free # {}
  <2> DEFINE i == Min(free)
             n == Fill(m, i, k, v)
  <2>1. r = [ok |-> TRUE, m |-> n]
    BY <1>3 DEF Put, PutAt
  <2>2. i \in 0 .. m.capacity - 1 /\ ~ IsFull(m.ctrl[i]) /\ LeadsTo(m, k, i)
    BY <1>3, InsertSlotIs DEF LeadsTo
  <2>3. \A j \in Full(m) : KeyAt(m, j) # k
    BY <1>3, MatchesAre
  <2> HIDE DEF i
  <2>4. Sound(n) /\ n.capacity = m.capacity /\ Iterated(n) = OthersOf(m, k) \cup {<<k, v>>}
    BY <2>2, <2>3, FillSound
  <2> HIDE DEF n
  <2> QED BY <2>1, <2>4
<1> QED BY <1>1, <1>2, <1>3

\* A table as bebop_map_clear and bebop__map_grow make it.
LEMMA BlankSound ==
    ASSUME NEW c \in Nat \ {0}, c % GroupSize = 0
    PROVE  Sound(Blank(c)) /\ Blank(c).capacity = c /\ Blank(c) \in Tables(c) /\ Iterated(Blank(c)) = {}
<1> DEFINE m == Blank(c)
           g == (c * LoadFactor) \div 8
<1>0. CtrlEmpty \in Control /\ ~ IsFull(CtrlEmpty)
  BY DEF Control, CtrlEmpty, IsFull
<1>1. g \in Int
  <2>1. LoadFactor \in Nat
    BY MapAssumption
  <2>2. c * LoadFactor \in Nat
    BY <2>1
  <2> QED BY <2>2
<1>2. m = [capacity |-> c, ctrl |-> [i \in 0 .. c - 1 |-> CtrlEmpty],
           slots |-> [i \in 0 .. c - 1 |-> <<>>], length |-> 0, growth_left |-> g]
  BY DEF Blank
<1> HIDE DEF g
<1>3. m \in Tables(c) /\ m.capacity = c /\ m.length = 0
  <2>1. /\ [i \in 0 .. c - 1 |-> CtrlEmpty] \in [0 .. c - 1 -> Control]
        /\ [i \in 0 .. c - 1 |-> <<>>] \in [0 .. c - 1 -> Slot \cup {<<>>}]
    BY <1>0
  <2> QED BY <1>1, <1>2, <2>1 DEF Tables
<1>4. \A i \in 0 .. c - 1 : m.ctrl[i] = CtrlEmpty
  BY <1>2
<1> HIDE DEF m
<1>5. Full(m) = {}
  BY <1>0, <1>3, <1>4 DEF Full
<1>6. Iterated(m) = {}
  <2>1. m.ctrl \in [0 .. m.capacity - 1 -> Control]
    BY <1>3, TableTypes
  <2>2. Iterated(m) = {EntryAt(m, j) : j \in Full(m)}
    BY <2>1, IteratedIs
  <2> QED BY <1>5, <2>2
<1>7. IsFiniteSet(Iterated(m)) /\ Cardinality(Iterated(m)) = 0
  BY <1>6, FS_EmptySet
<1>8. Sound(m)
  BY <1>3, <1>5, <1>7 DEF Sound
<1> QED BY <1>3, <1>6, <1>8 DEF m

-----------------------------------------------------------------------------
\* A map to rehash: its entries have distinct keys.
Listed(m) ==
    /\ m.capacity \in Nat
    /\ \A i \in Full(m) : m.slots[i] \in Slot
    /\ \A i, j \in Full(m) : KeyAt(m, i) = KeyAt(m, j) => i = j
    /\ Iterated(m) = {EntryAt(m, i) : i \in Full(m)}

\* The entries of the slots before n.
Before(m, n) == {EntryAt(m, i) : i \in {j \in Full(m) : j < n}}

RehashStep(m, acc, i) ==
    IF acc.ok /\ IsFull(m.ctrl[i]) THEN Put(acc.m, m.slots[i].key, m.slots[i].value) ELSE acc

\* What the loop of bebop__map_grow has made of the slots before n.
Rehashed(m, c, n, acc) ==
    /\ acc \in [ok : BOOLEAN, m : Tables(c)] /\ Sound(acc.m)
    /\ acc.ok => Iterated(acc.m) = Before(m, n)

\* The table under construction has the type of a table at every step.
LEMMA RehashTyped ==
    ASSUME NEW m, Listed(m), NEW c, NEW acc \in [ok : BOOLEAN, m : Tables(c)], Sound(acc.m),
           NEW i \in 0 .. m.capacity - 1, NEW r, r = RehashStep(m, acc, i)
    PROVE  r \in [ok : BOOLEAN, m : Tables(c)] /\ Sound(r.m)
<1>0. acc.ok \in BOOLEAN /\ acc.m \in Tables(c)
  OBVIOUS
<1>1. CASE acc.ok /\ IsFull(m.ctrl[i])
  <2> DEFINE k == m.slots[i].key
             v == m.slots[i].value
  <2>1. m.slots[i] \in Slot
    BY <1>1 DEF Listed, Full
  <2>2. k \in Keys /\ v \in Values
    BY <2>1 DEF Slot
  <2>3. r = Put(acc.m, k, v)
    BY <1>1 DEF RehashStep
  <2> HIDE DEF k, v
  <2>4. r = [ok |-> r.ok, m |-> r.m] /\ r.ok \in BOOLEAN /\ Sound(r.m) /\ r.m.capacity = acc.m.capacity
    BY <2>2, <2>3, PutSound
  <2>5. acc.m.capacity = c
    BY <1>0, TableTypes
  <2>6. r.m \in Tables(c)
    BY <2>4, <2>5 DEF Sound
  <2> QED BY <2>4, <2>6
<1>2. CASE ~ (acc.ok /\ IsFull(m.ctrl[i]))
  BY <1>2 DEF RehashStep
<1> QED BY <1>1, <1>2

\* The slots already copied, one slot further.
LEMMA BeforeNext ==
    ASSUME NEW m, Listed(m), NEW i \in 0 .. m.capacity - 1
    PROVE  /\ i \in Full(m) => Before(m, i + 1) = Before(m, i) \cup {EntryAt(m, i)}
           /\ i \in Full(m) => \A e \in Before(m, i) : e[1] # KeyAt(m, i)
           /\ i \notin Full(m) => Before(m, i + 1) = Before(m, i)
<1>1. m.capacity \in Nat /\ Full(m) \subseteq 0 .. m.capacity - 1
  BY DEF Listed, Full
<1>2. i \in Nat /\ \A j \in Full(m) : j \in Nat
  BY <1>1
<1>3. \A j \in Full(m) : j < i + 1 <=> (j < i \/ j = i)
  BY <1>2
<1>4. ~ (i < i)
  BY <1>2
<1>5. i \in Full(m) => Before(m, i + 1) = Before(m, i) \cup {EntryAt(m, i)}
  BY <1>3 DEF Before
<1>6. i \notin Full(m) => Before(m, i + 1) = Before(m, i)
  BY <1>3 DEF Before
<1>7. ASSUME i \in Full(m), NEW e \in Before(m, i) PROVE e[1] # KeyAt(m, i)
  <2>1. PICK j \in Full(m) : j < i /\ e = EntryAt(m, j)
    BY DEF Before
  <2>2. e[1] = KeyAt(m, j) /\ j # i
    BY <1>4, <2>1, EntryParts
  <2> QED BY <1>7, <2>1, <2>2 DEF Listed
<1> QED BY <1>5, <1>6, <1>7

\* The table under construction is sound and holds what was copied.
LEMMA RehashSound ==
    ASSUME NEW m, Listed(m), NEW c, NEW i \in 0 .. m.capacity - 1, NEW acc, Rehashed(m, c, i, acc)
    PROVE  Rehashed(m, c, i + 1, RehashStep(m, acc, i))
<1> DEFINE r == RehashStep(m, acc, i)
<1>0. acc \in [ok : BOOLEAN, m : Tables(c)] /\ Sound(acc.m) /\ (acc.ok => Iterated(acc.m) = Before(m, i))
  BY DEF Rehashed
<1>1. r \in [ok : BOOLEAN, m : Tables(c)] /\ Sound(r.m)
  BY <1>0, RehashTyped
<1>2. ASSUME r.ok PROVE Iterated(r.m) = Before(m, i + 1)
  <2>1. CASE ~ acc.ok
    BY <1>2, <2>1 DEF RehashStep
  <2>2. CASE acc.ok /\ ~ IsFull(m.ctrl[i])
    <3>1. i \notin Full(m) /\ r = acc
      BY <2>2 DEF Full, RehashStep
    <3> QED BY <1>0, <2>2, <3>1, BeforeNext
  <2>3. CASE acc.ok /\ IsFull(m.ctrl[i])
    <3> DEFINE k == m.slots[i].key
               v == m.slots[i].value
    <3>1. i \in Full(m)
      BY <2>3 DEF Full
    <3>2. m.slots[i] \in Slot
      BY <3>1 DEF Listed
    <3>3. k \in Keys /\ v \in Values /\ KeyAt(m, i) = k /\ EntryAt(m, i) = <<k, v>>
      BY <3>2 DEF Slot, KeyAt, EntryAt
    <3>4. r = Put(acc.m, k, v)
      BY <2>3 DEF RehashStep
    <3> HIDE DEF k, v, r
    <3>5. Iterated(r.m) = OthersOf(acc.m, k) \cup {<<k, v>>}
      BY <1>0, <1>2, <3>3, <3>4, PutSound
    <3>6. \A e \in Before(m, i) : e[1] # k
      BY <3>1, <3>3, BeforeNext
    <3>7. OthersOf(acc.m, k) = Before(m, i)
      BY <1>0, <2>3, <3>6 DEF OthersOf
    <3>8. Before(m, i + 1) = Before(m, i) \cup {<<k, v>>}
      BY <3>1, <3>3, BeforeNext
    <3> QED BY <3>5, <3>7, <3>8
  <2> QED BY <2>1, <2>2, <2>3
<1> HIDE DEF r
<1>3. Rehashed(m, c, i + 1, r)
  BY <1>1, <1>2 DEF Rehashed
<1> QED BY <1>3 DEF r

\* bebop__map_grow: when no entry is turned away, the larger table has the entries of the map.
LEMMA GrowSound ==
    ASSUME NEW m, Listed(m), NEW c \in Nat \ {0}, c % GroupSize = 0,
           c = IF m.capacity = 0 THEN InitialCapacity ELSE m.capacity * 2
    PROVE  Rehashed(m, c, m.capacity, Grow(m))
<1> DEFINE D == 0 .. m.capacity
           b == [ok |-> TRUE, m |-> Blank(c)]
           V == {acc \in [ok : BOOLEAN, m : Tables(c)] : Sound(acc.m)}
           E(n, f) == IF n = 0 THEN b ELSE RehashStep(m, f[n - 1], n - 1)
           r == [n \in D |-> n]
           G == [n \in D |-> [f \in [D -> V] |-> E(n, f)]]
<1>0. m.capacity \in Nat
  BY DEF Listed
<1>1. b \in V
  BY BlankSound
<1>2. \A n \in D : n # 0 => n - 1 \in D /\ n - 1 < n /\ n - 1 \in 0 .. m.capacity - 1
  BY <1>0
<1>3. ASSUME NEW acc \in V, NEW i \in 0 .. m.capacity - 1 PROVE RehashStep(m, acc, i) \in V
  BY RehashTyped
<1> HIDE DEF V
<1>4. ASSUME NEW f, NEW n \in D, n - 1 \in D => f[n - 1] \in V PROVE E(n, f) \in V
  BY <1>1, <1>2, <1>3, <1>4
<1>5. ASSUME NEW n \in D, NEW f, NEW g, \A y \in D : r[y] < r[n] => f[y] = g[y]
      PROVE  E(n, f) = E(n, g)
  <2>1. CASE n = 0
    BY <2>1
  <2>2. CASE n # 0
    <3>1. f[n - 1] = g[n - 1]
      BY <1>2, <1>5, <2>2
    <3> QED BY <3>1
  <2> QED BY <2>1, <2>2
<1>6. r \in [D -> Nat]
  BY <1>0
<1>7. m.capacity \in D /\ 0 \in D
  BY <1>0
<1> DEFINE H == CHOOSE h : h = [n \in D |-> E(n, h)]
<1>8. Grow(m) = H[m.capacity]
  BY DEF Grow, RehashStep
<1> HIDE DEF r, D, b
<1>9. Body(D, V, r, G)
  <2>1. \A n \in D : \A f \in [D -> V] : E(n, f) \in V
    BY <1>4
  <2> HIDE DEF E
  <2>2. G \in [D -> [[D -> V] -> V]]
    BY <2>1
  <2>3. \A n \in D : \A f \in [D -> V] : G[n][f] = E(n, f)
    OBVIOUS
  <2>4. ASSUME NEW n \in D, NEW f \in [D -> V], NEW g \in [D -> V],
               \A y \in D : r[y] < r[n] => f[y] = g[y]
        PROVE  G[n][f] = G[n][g]
    <3>1. E(n, f) = E(n, g)
      BY <1>5, <2>4
    <3> HIDE DEF G
    <3> QED BY <2>3, <3>1
  <2> HIDE DEF G
  <2> QED BY <1>6, <2>2, <2>4 DEF Body
<1>10. \E h : h = [n \in D |-> E(n, h)]
  <2>1. PICK h \in [D -> V] : \A n \in D : h[n] = G[n][h]
    <3>1. V # {}
      BY <1>1
    <3> HIDE DEF G
    <3> QED BY <1>9, <3>1, SolutionExists
  <2> HIDE DEF E
  <2>2. \A n \in D : h[n] = E(n, h)
    BY <2>1
  <2> HIDE DEF G
  <2>3. h = [n \in D |-> E(n, h)]
    BY <2>1, <2>2
  <2> QED BY <2>3
<1>11. H = [n \in D |-> E(n, H)]
  <2> HIDE DEF E
  <2> QED BY <1>10
<1> HIDE DEF H, G
<1>12. \A n \in D : H[n] = E(n, H)
  <2> HIDE DEF E
  <2> QED BY <1>11
<1> DEFINE Bad == {n \in D : ~ Rehashed(m, c, n, H[n])}
<1>13. Bad = {}
  <2>1. SUFFICES ASSUME Bad # {} PROVE FALSE
    OBVIOUS
  <2>2. Bad \subseteq Nat
    BY <1>0 DEF D
  <2>3. PICK n \in Bad : \A y \in Bad : n <= y
    <3> HIDE DEF Bad
    <3> QED BY <2>1, <2>2, LeastNatural
  <2>4. n \in D /\ ~ Rehashed(m, c, n, H[n])
    BY <2>3
  <2>5. n # 0
    <3>1. SUFFICES ASSUME n = 0 PROVE FALSE
      OBVIOUS
    <3>2. H[0] = b
      BY <1>7, <1>12
    <3>3. Before(m, 0) = {}
      <4>1. \A i \in Full(m) : ~ (i < 0)
        BY <1>0 DEF Full
      <4> QED BY <4>1 DEF Before
    <3>4. Rehashed(m, c, 0, b)
      BY <3>3, BlankSound DEF Rehashed, b
    <3> QED BY <2>4, <3>1, <3>2, <3>4
  <2>6. n - 1 \in D /\ n - 1 < n /\ n - 1 \in 0 .. m.capacity - 1 /\ n \in Nat
    BY <1>2, <2>2, <2>4, <2>5
  <2>7. Rehashed(m, c, n - 1, H[n - 1])
    <3>1. n - 1 \notin Bad
      <4>1. ~ (n <= n - 1)
        BY <2>6
      <4> QED BY <2>3, <4>1
    <3> QED BY <2>6, <3>1
  <2>8. H[n] = RehashStep(m, H[n - 1], n - 1)
    BY <1>12, <2>4, <2>5
  <2>9. Rehashed(m, c, (n - 1) + 1, H[n])
    BY <2>6, <2>7, <2>8, RehashSound
  <2>10. (n - 1) + 1 = n
    BY <2>6
  <2> QED BY <2>4, <2>9, <2>10
<1>14. Rehashed(m, c, m.capacity, H[m.capacity])
  BY <1>7, <1>13
<1> QED BY <1>8, <1>14

\* Twice the capacity is a multiple of the group size too.
LEMMA DoubledAligned ==
    ASSUME NEW a \in Nat, NEW g \in Nat \ {0}, a % g = 0
    PROVE  (a * 2) % g = 0
<1> DEFINE q == a \div g
           s == (a * 2) \div g
           t == (a * 2) % g
<1>1. q \in Nat /\ a = g * q
  OBVIOUS
<1>2. s \in Nat /\ t \in Nat /\ t < g /\ a * 2 = g * s + t
  OBVIOUS
<1> HIDE DEF q, s, t
<1> DEFINE d == 2 * q - s
<1>3. d \in Int /\ g * d = t
  <2>1. g * (2 * q - s) = 2 * (g * q) - g * s
    BY <1>1, <1>2
  <2> QED BY <1>1, <1>2, <2>1
<1> HIDE DEF d
<1>4. d <= 0
  <2>1. SUFFICES ASSUME d >= 1 PROVE FALSE
    BY <1>3
  <2>2. g * d >= g
    BY <1>3, <2>1
  <2> QED BY <1>2, <1>3, <2>2
<1>5. g * d <= 0
  BY <1>3, <1>4
<1> QED BY <1>2, <1>3, <1>5 DEF t

\* bebop_map_init: a map without a table.
LEMMA NewMapIs ==
    /\ NewMap.capacity = 0 /\ NewMap.growth_left = 0 /\ NewMap.length = 0 /\ NewMap.ctrl = <<>>
    /\ Full(NewMap) = {} /\ Iterated(NewMap) = {} /\ Listed(NewMap)
<1>1. NewMap.capacity = 0 /\ NewMap.growth_left = 0 /\ NewMap.length = 0 /\ NewMap.ctrl = <<>>
  BY DEF NewMap
<1>2. Full(NewMap) = {}
  BY <1>1 DEF Full
<1>3. Iterated(NewMap) = {}
  BY <1>1 DEF Iterated
<1> QED BY <1>1, <1>2, <1>3 DEF Listed

\* The conditions of soundness, one by one.
LEMMA SoundListed ==
    ASSUME NEW m, Sound(m)
    PROVE  Listed(m)
<1>1. m.capacity \in Nat /\ m \in Tables(m.capacity)
  BY DEF Sound
<1>2. m.ctrl \in [0 .. m.capacity - 1 -> Control]
  BY <1>1, TableTypes
<1>3. Iterated(m) = {EntryAt(m, i) : i \in Full(m)}
  BY <1>2, IteratedIs
<1>4. /\ \A i \in Full(m) : m.slots[i] \in Slot
      /\ \A i, j \in Full(m) : KeyAt(m, i) = KeyAt(m, j) => i = j
  BY DEF Sound, SlotSound
<1> QED BY <1>1, <1>3, <1>4 DEF Listed

MapWhole(m) == m = NewMap \/ Sound(m)

\* A rehash that does not give up makes a table with the same entries.
LEMMA GrownIs ==
    ASSUME NEW m, MapWhole(m), Grow(m).ok
    PROVE  Sound(Grow(m).m) /\ Iterated(Grow(m).m) = Iterated(m)
<1> DEFINE c == IF m.capacity = 0 THEN InitialCapacity ELSE m.capacity * 2
<1>1. Listed(m)
  BY NewMapIs, SoundListed DEF MapWhole
<1>2. m.capacity \in Nat /\ m.capacity % GroupSize = 0
  <2>1. CASE m = NewMap
    <3>1. GroupSize \in Nat \ {0}
      BY MapAssumption
    <3>2. 0 % GroupSize = 0
      BY <3>1
    <3> QED BY <2>1, <3>2, NewMapIs
  <2>2. CASE Sound(m)
    BY <2>2 DEF Sound
  <2> QED BY <2>1, <2>2 DEF MapWhole
<1>3. c \in Nat \ {0} /\ c % GroupSize = 0
  <2>1. CASE m.capacity = 0
    BY <2>1, MapAssumption
  <2>2. CASE m.capacity # 0
    <3> DEFINE a == m.capacity
    <3>1. a \in Nat \ {0} /\ a % GroupSize = 0 /\ GroupSize \in Nat \ {0} /\ c = a * 2
      BY <1>2, <2>2, MapAssumption
    <3> HIDE DEF a, c
    <3>2. (a * 2) % GroupSize = 0
      BY <3>1, DoubledAligned
    <3> QED BY <3>1, <3>2
  <2> QED BY <2>1, <2>2
<1>4. Rehashed(m, c, m.capacity, Grow(m))
  <2> DEFINE d == c
  <2>1. d \in Nat \ {0} /\ d % GroupSize = 0 /\ d = IF m.capacity = 0 THEN InitialCapacity ELSE m.capacity * 2
    BY <1>3
  <2> HIDE DEF d
  <2>2. Rehashed(m, d, m.capacity, Grow(m))
    BY <1>1, <2>1, GrowSound
  <2> QED BY <2>2 DEF d
<1> HIDE DEF c
<1>5. Sound(Grow(m).m) /\ Iterated(Grow(m).m) = Before(m, m.capacity)
  BY <1>4 DEF Rehashed
<1>6. Before(m, m.capacity) = {EntryAt(m, i) : i \in Full(m)}
  <2>1. \A j \in Full(m) : j < m.capacity
    BY <1>2 DEF Full
  <2> QED BY <2>1 DEF Before
<1> QED BY <1>1, <1>5, <1>6 DEF Listed

\* bebop_map_set, unless its rehash gives up.
LEMMA SetSound ==
    ASSUME NEW m, MapWhole(m), NEW k \in Keys, NEW v \in Values, m.growth_left = 0 => Grow(m).ok,
           NEW r, r = Set(m, k, v)
    PROVE  /\ MapWhole(r.m) /\ r.ok \in BOOLEAN
           /\ r.ok => Iterated(r.m) = OthersOf(m, k) \cup {<<k, v>>}
           /\ ~ r.ok => Iterated(r.m) = Iterated(m)
<1>1. PICK n : Sound(n) /\ Iterated(n) = Iterated(m) /\ r = Put(n, k, v)
  <2>1. CASE m.growth_left # 0
    <3>1. Sound(m)
      BY <2>1, NewMapIs DEF MapWhole
    <3>2. r = Put(m, k, v)
      BY <2>1 DEF Set, PutInto
    <3> QED BY <3>1, <3>2
  <2>2. CASE m.growth_left = 0
    <3>1. r = Put(Grow(m).m, k, v)
      BY <2>2 DEF Set, PutInto
    <3> QED BY <2>2, <3>1, GrownIs
  <2> QED BY <2>1, <2>2
<1>2. /\ Sound(r.m) /\ r.ok \in BOOLEAN /\ (~ r.ok => r.m = n)
      /\ r.ok => Iterated(r.m) = OthersOf(n, k) \cup {<<k, v>>}
  BY <1>1, PutSound
<1>3. OthersOf(n, k) = OthersOf(m, k)
  BY <1>1 DEF OthersOf
<1> QED BY <1>1, <1>2, <1>3 DEF MapWhole

\* bebop_map_remove.
LEMMA RemovedSound ==
    ASSUME NEW m, MapWhole(m), NEW k \in Keys
    PROVE  MapWhole(Removed(m, k)) /\ Iterated(Removed(m, k)) = OthersOf(m, k)
<1>1. CASE m.length = 0
  <2>1. Iterated(m) = {}
    <3>1. CASE m = NewMap
      BY <3>1, NewMapIs
    <3>2. CASE Sound(m)
      BY <1>1, <3>2, FS_EmptySet DEF Sound
    <3> QED BY <3>1, <3>2 DEF MapWhole
  <2>2. Removed(m, k) = m
    BY <1>1 DEF Removed
  <2> QED BY <2>1, <2>2 DEF OthersOf
<1>2. CASE m.length # 0
  <2>1. Sound(m)
    BY <1>2, NewMapIs DEF MapWhole
  <2>2. CASE Matches(m, k) = {}
    <3>1. Removed(m, k) = m
      BY <2>2 DEF Removed
    <3>2. \A j \in Full(m) : KeyAt(m, j) # k
      BY <2>1, <2>2, MatchesAre
    <3>3. Iterated(m) = {EntryAt(m, i) : i \in Full(m)}
      BY <2>1, SoundListed DEF Listed
    <3>4. \A e \in Iterated(m) : e[1] # k
      BY <3>2, <3>3, EntryParts
    <3> QED BY <3>1, <3>4 DEF OthersOf
  <2>3. CASE Matches(m, k) # {}
    <3> DEFINE i == Min(Matches(m, k))
    <3>1. Removed(m, k) = Tombstone(m, i)
      BY <1>2, <2>3 DEF Removed, Tombstone
    <3>2. i \in Full(m) /\ \A j \in Full(m) : KeyAt(m, j) = k <=> j = i
      BY <2>1, <2>3, FoundIs
    <3> HIDE DEF i
    <3> QED BY <2>1, <3>1, <3>2, RemoveSound DEF MapWhole
  <2> QED BY <2>2, <2>3
<1> QED BY <1>1, <1>2

\* bebop_map_clear.
LEMMA ClearedSound ==
    ASSUME NEW m, MapWhole(m)
    PROVE  MapWhole(Cleared(m)) /\ Iterated(Cleared(m)) = {}
<1>1. CASE m = NewMap
  BY <1>1, NewMapIs DEF Cleared, MapWhole
<1>2. CASE Sound(m)
  <2>1. m.capacity \in Nat \ {0} /\ m.capacity % GroupSize = 0
    BY <1>2 DEF Sound
  <2>2. Cleared(m) = Blank(m.capacity)
    BY <2>1 DEF Cleared
  <2> QED BY <2>1, <2>2, BlankSound DEF MapWhole
<1> QED BY <1>1, <1>2 DEF MapWhole

-----------------------------------------------------------------------------
\* The inductive invariant: as long as no rehash gave up, the table is sound and it holds what was
\* accepted.
MapInv ==
    /\ torn \in BOOLEAN
    /\ ~ torn => MapWhole(map) /\ Iterated(map) = accepted

\* Every call of the map's interface keeps the invariant.
LEMMA MapStep == MapInv /\ [MapNext]_mapVars => MapInv'
<1>1. SUFFICES ASSUME MapInv, [MapNext]_mapVars PROVE MapInv'
  OBVIOUS
<1>2. torn \in BOOLEAN /\ (~ torn => MapWhole(map) /\ Iterated(map) = accepted)
  BY <1>1 DEF MapInv
<1>3. CASE UNCHANGED mapVars
  BY <1>2, <1>3 DEF MapInv, mapVars
<1>4. CASE MapSet
  <2>1. PICK k \in Keys, v \in Values : \E outcome \in {Set(map, k, v)} :
            /\ map' = outcome.m
            /\ accepted' = IF outcome.ok THEN Without(k) \cup {<<k, v>>} ELSE accepted
            /\ torn' = (torn \/ (map.growth_left = 0 /\ ~Grow(map).ok))
    BY <1>4 DEF MapSet
  <2> DEFINE r == Set(map, k, v)
  <2>2. /\ map' = r.m /\ accepted' = IF r.ok THEN Without(k) \cup {<<k, v>>} ELSE accepted
        /\ torn' = (torn \/ (map.growth_left = 0 /\ ~Grow(map).ok))
    BY <2>1
  <2>3. torn' \in BOOLEAN
    BY <2>2
  <2>4. ASSUME ~ torn' PROVE MapWhole(map') /\ Iterated(map') = accepted'
    <3>1. ~ torn /\ (map.growth_left = 0 => Grow(map).ok)
      BY <2>2, <2>4
    <3>2. MapWhole(map) /\ Iterated(map) = accepted
      BY <1>2, <3>1
    <3>3. /\ MapWhole(r.m) /\ r.ok \in BOOLEAN /\ (~ r.ok => Iterated(r.m) = Iterated(map))
          /\ r.ok => Iterated(r.m) = OthersOf(map, k) \cup {<<k, v>>}
      BY <3>1, <3>2, SetSound
    <3> HIDE DEF r
    <3>4. OthersOf(map, k) = Without(k)
      BY <3>2 DEF OthersOf, Without
    <3>5. CASE r.ok
      BY <2>2, <3>3, <3>4, <3>5
    <3>6. CASE ~ r.ok
      BY <2>2, <3>2, <3>3, <3>6
    <3> QED BY <3>3, <3>5, <3>6
  <2> QED BY <2>3, <2>4 DEF MapInv
<1>5. CASE MapSetFails
  BY <1>2, <1>5 DEF MapSetFails, MapInv
<1>6. CASE MapRemove
  <2>1. PICK k \in Keys : map' = Removed(map, k) /\ accepted' = Without(k) /\ torn' = torn
    BY <1>6 DEF MapRemove
  <2>2. ASSUME ~ torn PROVE MapWhole(map') /\ Iterated(map') = accepted'
    <3>1. MapWhole(map) /\ Iterated(map) = accepted
      BY <1>2, <2>2
    <3>2. OthersOf(map, k) = Without(k)
      BY <3>1 DEF OthersOf, Without
    <3>3. MapWhole(Removed(map, k)) /\ Iterated(Removed(map, k)) = OthersOf(map, k)
      BY <3>1, RemovedSound
    <3> QED BY <2>1, <3>2, <3>3
  <2> QED BY <1>2, <2>1, <2>2 DEF MapInv
<1>7. CASE MapClear
  <2>1. map' = Cleared(map) /\ accepted' = {} /\ torn' = torn
    BY <1>7 DEF MapClear
  <2>2. ~ torn => MapWhole(Cleared(map)) /\ Iterated(Cleared(map)) = {}
    BY <1>2, ClearedSound
  <2> QED BY <1>2, <2>1, <2>2 DEF MapInv
<1> QED BY <1>1, <1>3, <1>4, <1>5, <1>6, <1>7 DEF MapNext

\* Unless a rehash gave up, the table of a Bebop_Map is one whose searches find what it holds: every
\* key is in one slot, which the groups that bebop_map_get probes lead to.
THEOREM MapInvariance == MapSpec => []MapInv
<1>1. MapInit => MapInv
  BY NewMapIs DEF MapInit, MapInv, MapWhole
<1> QED BY <1>1, MapStep, PTL DEF MapSpec

\* The invariant says what the run checks.
LEMMA MapInvKeeps == MapInv => MapKeepsEntries
<1>1. SUFFICES ASSUME MapInv, ~ torn
               PROVE  /\ \A k \in Keys : Get(map, k) = {e[2] : e \in {f \in accepted : f[1] = k}}
                      /\ Iterated(map) = accepted
                      /\ map.length = Cardinality(accepted)
  BY DEF MapKeepsEntries
<1>2. MapWhole(map) /\ Iterated(map) = accepted
  BY <1>1 DEF MapInv
<1>3. CASE map = NewMap
  <2>1. accepted = {} /\ map.length = 0
    BY <1>2, <1>3, NewMapIs
  <2>2. Cardinality({}) = 0
    BY FS_EmptySet
  <2>3. \A k \in Keys : Get(map, k) = {}
    BY <2>1 DEF Get
  <2> QED BY <1>2, <2>1, <2>2, <2>3
<1>4. CASE Sound(map)
  <2>1. map.length = Cardinality(accepted)
    BY <1>2, <1>4 DEF Sound
  <2>2. \A k \in Keys : Get(map, k) = {e[2] : e \in {f \in accepted : f[1] = k}}
    <3>1. \A k \in Keys : Get(map, k) = {e[2] : e \in {f \in Iterated(map) : f[1] = k}}
      BY <1>4, GetIs
    <3> QED BY <1>2, <3>1
  <2> QED BY <1>2, <2>1, <2>2
<1> QED BY <1>2, <1>3, <1>4 DEF MapWhole

\* Whatever was set, replaced, removed, cleared and rehashed, for any hash function: bebop_map_get
\* finds what was accepted, the iterator yields it, and length counts it, unless a rehash gave up.
THEOREM MapAlwaysKeepsEntries == MapSpec => []MapKeepsEntries
BY MapInvariance, MapInvKeeps, PTL

-----------------------------------------------------------------------------
(***************************************************************************)
(* bebop_wire_arena: the lock-free arena behind Bebop_Context.             *)
(***************************************************************************)
\* What MapThenSumSet computes.
Pick(s) == CHOOSE x \in s : TRUE
SumBody(f, s, I) == IF s = {} THEN 0 ELSE f[Pick(s)] + I[s \ {Pick(s)}]
Solves(f, S, I) == I = [s \in SUBSET S |-> SumBody(f, s, I)]
Adds(f, S, I) == I \in [SUBSET S -> Int] /\ \A s \in SUBSET S : I[s] = SumBody(f, s, I)

\* Subsets are ranked by their size.
LEMMA SubsetRank ==
    ASSUME NEW S, IsFiniteSet(S)
    PROVE  /\ [s \in SUBSET S |-> Cardinality(s)] \in [SUBSET S -> Nat]
           /\ \A s \in SUBSET S : \A x \in s :
                 /\ s \ {x} \in SUBSET S /\ IsFiniteSet(s \ {x}) /\ Cardinality(s \ {x}) \in Nat
                 /\ Cardinality(s) \in Nat /\ Cardinality(s \ {x}) < Cardinality(s)
<1>1. \A s \in SUBSET S : IsFiniteSet(s) /\ Cardinality(s) \in Nat
  BY FS_Subset, FS_CardinalityType
<1>2. ASSUME NEW s \in SUBSET S, NEW x \in s
      PROVE  s \ {x} \in SUBSET S /\ Cardinality(s \ {x}) = Cardinality(s) - 1
  BY <1>1, FS_RemoveElement
<1>3. ASSUME NEW s \in SUBSET S, NEW x \in s PROVE Cardinality(s \ {x}) < Cardinality(s)
  <2> DEFINE a == Cardinality(s)
             b == Cardinality(s \ {x})
  <2>1. a \in Nat /\ b = a - 1
    BY <1>1, <1>2
  <2> HIDE DEF a, b
  <2>2. b < a
    BY <2>1
  <2> QED BY <2>2 DEF a, b
<1> QED BY <1>1, <1>2, <1>3

\* The element that is added next is one of the set.
LEMMA PickIn == ASSUME NEW s, s # {} PROVE Pick(s) \in s
BY DEF Pick

\* A set of subsets, if not empty, has one of least cardinality.
LEMMA LeastSubset ==
    ASSUME NEW S, IsFiniteSet(S), NEW T, T \subseteq SUBSET S, T # {}
    PROVE  \E s \in T : \A x \in s : s \ {x} \notin T
<1> DEFINE D == SUBSET S
           r == [s \in D |-> Cardinality(s)]
<1>1. r \in [D -> Nat] /\ \A s \in D : r[s] = Cardinality(s)
  BY SubsetRank
<1>2. PICK s \in T : \A y \in T : r[s] <= r[y]
  <2> HIDE DEF r
  <2> QED BY <1>1, LeastRank
<1>3. ASSUME NEW x \in s, s \ {x} \in T PROVE FALSE
  <2>1. s \in D /\ s \ {x} \in D
    OBVIOUS
  <2>2. /\ Cardinality(s) \in Nat /\ Cardinality(s \ {x}) \in Nat
        /\ Cardinality(s \ {x}) < Cardinality(s)
    BY <2>1, SubsetRank
  <2>3. Cardinality(s) <= Cardinality(s \ {x})
    <3> HIDE DEF r
    <3> QED BY <1>1, <1>2, <1>3, <2>1
  <2> QED BY <2>2, <2>3
<1> QED BY <1>3

\* A function that adds up every subset exists.
LEMMA AddsExists ==
    ASSUME NEW S, IsFiniteSet(S), NEW f \in [S -> Int]
    PROVE  \E I : Adds(f, S, I)
<1> DEFINE D == SUBSET S
           V == Int
           r == [s \in D |-> Cardinality(s)]
           G == [s \in D |-> [I \in [D -> V] |-> SumBody(f, s, I)]]
<1>1. r \in [D -> Nat] /\ \A s \in D : r[s] = Cardinality(s)
  BY SubsetRank
<1>2. \A s \in D : s # {} => Pick(s) \in s /\ s \ {Pick(s)} \in D /\ Cardinality(s \ {Pick(s)}) < Cardinality(s)
  BY PickIn, SubsetRank
<1>3. ASSUME NEW s \in D, NEW I \in [D -> V] PROVE SumBody(f, s, I) \in V
  <2>1. CASE s = {}
    BY <2>1 DEF SumBody
  <2>2. CASE s # {}
    <3>1. f[Pick(s)] \in Int /\ I[s \ {Pick(s)}] \in Int
      BY <1>2, <2>2
    <3> QED BY <2>2, <3>1 DEF SumBody
  <2> QED BY <2>1, <2>2
<1>4. ASSUME NEW s \in D, NEW I \in [D -> V], NEW J \in [D -> V], \A y \in D : r[y] < r[s] => I[y] = J[y]
      PROVE  SumBody(f, s, I) = SumBody(f, s, J)
  <2>1. CASE s = {}
    BY <2>1 DEF SumBody
  <2>2. CASE s # {}
    <3>1. I[s \ {Pick(s)}] = J[s \ {Pick(s)}]
      <4> HIDE DEF r
      <4> QED BY <1>1, <1>2, <1>4, <2>2
    <3> QED BY <3>1 DEF SumBody
  <2> QED BY <2>1, <2>2
<1> HIDE DEF D, V, r
<1>5. G \in [D -> [[D -> V] -> V]] /\ \A s \in D : \A I \in [D -> V] : G[s][I] = SumBody(f, s, I)
  BY <1>3
<1> HIDE DEF G
<1>6. Body(D, V, r, G)
  <2>1. ASSUME NEW s \in D, NEW I \in [D -> V], NEW J \in [D -> V], \A y \in D : r[y] < r[s] => I[y] = J[y]
        PROVE  G[s][I] = G[s][J]
    <3>1. SumBody(f, s, I) = SumBody(f, s, J)
      BY <1>4, <2>1
    <3> QED BY <1>5, <3>1
  <2> QED BY <1>1, <1>5, <2>1 DEF Body
<1>7. V # {}
  BY DEF V
<1>8. PICK I \in [D -> V] : \A s \in D : I[s] = G[s][I]
  BY <1>6, <1>7, SolutionExists
<1>9. \A s \in D : I[s] = SumBody(f, s, I)
  BY <1>5, <1>8
<1> QED BY <1>8, <1>9 DEF Adds, D, V

\* The order of the addition does not matter.
LEMMA AddsAny ==
    ASSUME NEW S, IsFiniteSet(S), NEW f \in [S -> Int], NEW I, Adds(f, S, I)
    PROVE  \A s \in SUBSET S : \A x \in s : I[s] = f[x] + I[s \ {x}]
<1> DEFINE Bad == {s \in SUBSET S : \E x \in s : I[s] # f[x] + I[s \ {x}]}
<1>0. I \in [SUBSET S -> Int] /\ \A s \in SUBSET S : I[s] = SumBody(f, s, I)
  BY DEF Adds
<1>1. SUFFICES ASSUME Bad # {} PROVE FALSE
  OBVIOUS
<1>2. PICK s \in Bad : \A x \in s : s \ {x} \notin Bad
  <2>1. Bad \subseteq SUBSET S
    OBVIOUS
  <2> HIDE DEF Bad
  <2> QED BY <1>1, <2>1, LeastSubset
<1>3. s \in SUBSET S /\ \A x \in s : s \ {x} \in SUBSET S /\ \A y \in s \ {x} : I[s \ {x}] = f[y] + I[(s \ {x}) \ {y}]
  BY <1>2
<1>4. PICK x \in s : I[s] # f[x] + I[s \ {x}]
  BY <1>2
<1> DEFINE y == Pick(s)
<1>5. y \in s /\ I[s] = f[y] + I[s \ {y}]
  BY <1>0, <1>3, <1>4, PickIn DEF SumBody
<1> HIDE DEF Bad, y
<1>6. x # y
  BY <1>4, <1>5
<1>7. I[s \ {y}] = f[x] + I[(s \ {y}) \ {x}] /\ I[s \ {x}] = f[y] + I[(s \ {x}) \ {y}]
  BY <1>3, <1>4, <1>5, <1>6
<1> DEFINE d == (s \ {x}) \ {y}
<1>8. (s \ {y}) \ {x} = d /\ d \in SUBSET S
  BY <1>3
<1>9. f[x] \in Int /\ f[y] \in Int /\ I[d] \in Int
  BY <1>0, <1>3, <1>4, <1>5, <1>8
<1> DEFINE a == f[x]
           b == f[y]
           e == I[d]
<1>10. I[s] = b + (a + e) /\ I[s \ {x}] = b + e
  BY <1>5, <1>7, <1>8
<1>11. a \in Int /\ b \in Int /\ e \in Int
  BY <1>9
<1>12. I[s] # a + I[s \ {x}]
  BY <1>4
<1> HIDE DEF a, b, e, d
<1> QED BY <1>10, <1>11, <1>12

\* Two such functions agree wherever both are defined.
LEMMA AddsAgree ==
    ASSUME NEW S, IsFiniteSet(S), NEW f \in [S -> Int], NEW I, Adds(f, S, I),
           NEW T, NEW g \in [T -> Int], NEW J, Adds(g, T, J),
           NEW U, U \subseteq S, U \subseteq T, \A x \in U : f[x] = g[x]
    PROVE  I[U] = J[U]
<1> DEFINE Bad == {s \in SUBSET U : I[s] # J[s]}
<1>0. IsFiniteSet(U)
  BY FS_Subset
<1>1. Bad = {}
  <2>1. SUFFICES ASSUME Bad # {} PROVE FALSE
    OBVIOUS
  <2>2. PICK s \in Bad : \A x \in s : s \ {x} \notin Bad
    <3>1. Bad \subseteq SUBSET U
      OBVIOUS
    <3> HIDE DEF Bad
    <3> QED BY <1>0, <2>1, <3>1, LeastSubset
  <2>3. s \in SUBSET U /\ s \in SUBSET S /\ s \in SUBSET T /\ I[s] # J[s]
    BY <2>2
  <2>4. I[s] = SumBody(f, s, I) /\ J[s] = SumBody(g, s, J)
    BY <2>3 DEF Adds
  <2>5. s # {}
    BY <2>3, <2>4 DEF SumBody
  <2>6. Pick(s) \in s /\ s \ {Pick(s)} \in SUBSET U
    BY <2>3, <2>5, PickIn
  <2>7. I[s \ {Pick(s)}] = J[s \ {Pick(s)}] /\ f[Pick(s)] = g[Pick(s)]
    BY <2>2, <2>3, <2>6
  <2> HIDE DEF Bad
  <2> QED BY <2>3, <2>4, <2>7 DEF SumBody
<1>2. U \in SUBSET U
  OBVIOUS
<1> QED BY <1>1, <1>2

-----------------------------------------------------------------------------
TotalOf(f, S) == (CHOOSE I : Adds(f, S, I))[S]

\* The total is what any such function says of the whole set.
LEMMA TotalIs ==
    ASSUME NEW S, IsFiniteSet(S), NEW f \in [S -> Int]
    PROVE  TotalOf(f, S) \in Int /\ \A I : Adds(f, S, I) => TotalOf(f, S) = I[S]
<1> DEFINE H == CHOOSE I : Adds(f, S, I)
<1>1. Adds(f, S, H)
  BY AddsExists
<1>2. TotalOf(f, S) = H[S]
  BY DEF TotalOf
<1> HIDE DEF H
<1>3. H[S] \in Int
  BY <1>1 DEF Adds
<1>4. ASSUME NEW I, Adds(f, S, I) PROVE H[S] = I[S]
  BY <1>1, <1>4, AddsAgree
<1> QED BY <1>2, <1>3, <1>4

\* The sum of nothing.
LEMMA TotalEmpty ==
    ASSUME NEW f \in [{} -> Int]
    PROVE  TotalOf(f, {}) = 0
<1>1. PICK I : Adds(f, {}, I)
  BY AddsExists, FS_EmptySet
<1>2. TotalOf(f, {}) = I[{}]
  BY <1>1, TotalIs, FS_EmptySet
<1> QED BY <1>1, <1>2 DEF Adds, SumBody

\* The sum of zeros.
LEMMA TotalZero ==
    ASSUME NEW S, IsFiniteSet(S), NEW f \in [S -> Int], \A x \in S : f[x] = 0
    PROVE  TotalOf(f, S) = 0
<1> DEFINE I == [s \in SUBSET S |-> 0]
<1>1. ASSUME NEW s \in SUBSET S PROVE I[s] = SumBody(f, s, I)
  <2>1. CASE s = {}
    BY <2>1 DEF SumBody
  <2>2. CASE s # {}
    <3>1. Pick(s) \in S /\ s \ {Pick(s)} \in SUBSET S
      BY <2>2, PickIn
    <3>2. f[Pick(s)] = 0 /\ I[s \ {Pick(s)}] = 0 /\ I[s] = 0
      BY <3>1
    <3> HIDE DEF I
    <3> QED BY <2>2, <3>2 DEF SumBody
  <2> QED BY <2>1, <2>2
<1>2. Adds(f, S, I)
  BY <1>1 DEF Adds
<1>3. I[S] = 0
  OBVIOUS
<1> HIDE DEF I
<1> QED BY <1>2, <1>3, TotalIs

SameOn(f, g, S) == \A y \in S : g[y] = f[y]

\* One more element adds its number.
LEMMA TotalAdd ==
    ASSUME NEW S, IsFiniteSet(S), NEW f \in [S -> Int], NEW x, x \notin S,
           NEW g \in [S \cup {x} -> Int], SameOn(f, g, S)
    PROVE  TotalOf(g, S \cup {x}) = TotalOf(f, S) + g[x]
<1> DEFINE T == S \cup {x}
<1>0. IsFiniteSet(T) /\ T \ {x} = S /\ x \in T /\ S \in SUBSET T /\ T \in SUBSET T
  BY FS_AddElement
<1>1. PICK I : Adds(f, S, I)
  BY AddsExists
<1>2. PICK J : Adds(g, T, J)
  BY <1>0, AddsExists
<1> HIDE DEF T
<1>3. g \in [T -> Int]
  BY DEF T
<1>4. TotalOf(f, S) = I[S] /\ TotalOf(g, T) = J[T]
  BY <1>0, <1>1, <1>2, <1>3, TotalIs
<1>5. J[T] = g[x] + J[S]
  BY <1>0, <1>2, <1>3, AddsAny
<1>6. J[S] = I[S]
  <2>1. S \subseteq S /\ S \subseteq T /\ \A y \in S : f[y] = g[y]
    BY <1>0 DEF SameOn
  <2> QED BY <1>0, <1>1, <1>2, <1>3, <2>1, AddsAgree
<1>7. g[x] \in Int /\ I[S] \in Int
  BY <1>0, <1>1, <1>3 DEF Adds
<1>8. TotalOf(g, T) = TotalOf(f, S) + g[x]
  BY <1>4, <1>5, <1>6, <1>7
<1> QED BY <1>8 DEF T

\* The sum without one element.
LEMMA TotalSplit ==
    ASSUME NEW S, IsFiniteSet(S), NEW f \in [S -> Int], NEW x \in S, NEW I, Adds(f, S, I)
    PROVE  TotalOf(f, S) = f[x] + I[S \ {x}] /\ f[x] \in Int /\ I[S \ {x}] \in Int
<1>1. S \in SUBSET S /\ S \ {x} \in SUBSET S
  OBVIOUS
<1>2. TotalOf(f, S) = I[S]
  BY TotalIs
<1>3. I[S] = f[x] + I[S \ {x}]
  BY <1>1, AddsAny
<1>4. I[S \ {x}] \in Int
  BY <1>1 DEF Adds
<1> QED BY <1>2, <1>3, <1>4

AgreesBut(f, g, S, x) == \A y \in S : y # x => g[y] = f[y]

\* Changing one number changes the sum by the difference.
LEMMA TotalChange ==
    ASSUME NEW S, IsFiniteSet(S), NEW f \in [S -> Int], NEW g \in [S -> Int], NEW x \in S,
           AgreesBut(f, g, S, x)
    PROVE  TotalOf(g, S) = TotalOf(f, S) - f[x] + g[x]
<1> DEFINE U == S \ {x}
<1>0. ASSUME NEW k \in [S -> Int], NEW K, Adds(k, S, K)
      PROVE  TotalOf(k, S) = k[x] + K[U] /\ k[x] \in Int /\ K[U] \in Int
  BY <1>0, TotalSplit
<1> HIDE DEF U
<1>1. PICK I : Adds(f, S, I)
  BY AddsExists
<1>2. PICK J : Adds(g, S, J)
  BY AddsExists
<1>3. TotalOf(f, S) = f[x] + I[U] /\ f[x] \in Int /\ I[U] \in Int
  BY <1>0, <1>1
<1>4. TotalOf(g, S) = g[x] + J[U] /\ g[x] \in Int
  BY <1>0, <1>2
<1>5. I[U] = J[U]
  <2>1. U \subseteq S /\ \A y \in U : f[y] = g[y]
    BY DEF AgreesBut, U
  <2> QED BY <1>1, <1>2, <2>1, AddsAgree
<1> DEFINE a == f[x]
           b == g[x]
           e == I[U]
<1>6. TotalOf(f, S) = a + e /\ TotalOf(g, S) = b + e /\ a \in Int /\ b \in Int /\ e \in Int
  BY <1>3, <1>4, <1>5
<1> HIDE DEF a, b, e
<1>7. TotalOf(g, S) = TotalOf(f, S) - a + b
  BY <1>6
<1> QED BY <1>7 DEF a, b

\* A solution of the equation adds.
LEMMA SolvedAdds ==
    ASSUME NEW S, IsFiniteSet(S), NEW f \in [S -> Int]
    PROVE  /\ \E I : Solves(f, S, I)
           /\ \A I : Solves(f, S, I) => I[S] = TotalOf(f, S)
<1>1. PICK J : Adds(f, S, J)
  BY AddsExists
<1>2. Solves(f, S, J)
  <2>1. \A s \in SUBSET S : J[s] = SumBody(f, s, J)
    BY <1>1 DEF Adds
  <2> QED BY <1>1, <2>1 DEF Adds, Solves
<1>3. ASSUME NEW I, Solves(f, S, I) PROVE I[S] = TotalOf(f, S)
  <2>1. \A s \in SUBSET S : I[s] = SumBody(f, s, I)
    BY <1>3 DEF Solves
  <2> DEFINE Bad == {s \in SUBSET S : I[s] \notin Int}
  <2>2. Bad = {}
    <3>1. SUFFICES ASSUME Bad # {} PROVE FALSE
      OBVIOUS
    <3>2. PICK s \in Bad : \A x \in s : s \ {x} \notin Bad
      <4>1. Bad \subseteq SUBSET S
        OBVIOUS
      <4> HIDE DEF Bad
      <4> QED BY <3>1, <4>1, LeastSubset
    <3>3. s \in SUBSET S /\ I[s] \notin Int /\ I[s] = SumBody(f, s, I)
      BY <2>1, <3>2
    <3>4. s # {}
      BY <3>3 DEF SumBody
    <3>5. Pick(s) \in s /\ f[Pick(s)] \in Int /\ I[s \ {Pick(s)}] \in Int
      BY <3>2, <3>3, <3>4, PickIn
    <3> HIDE DEF Bad
    <3> QED BY <3>3, <3>4, <3>5 DEF SumBody
  <2>3. I \in [SUBSET S -> Int]
    <3>1. \A s \in SUBSET S : I[s] \in Int
      BY <2>2
    <3>2. I = [s \in SUBSET S |-> SumBody(f, s, I)]
      BY <1>3 DEF Solves
    <3>3. I = [s \in SUBSET S |-> I[s]]
      BY <2>1, <3>2
    <3> HIDE DEF Bad
    <3> QED BY <3>1, <3>3
  <2>4. Adds(f, S, I)
    BY <2>1, <2>3 DEF Adds
  <2> QED BY <2>4, TotalIs
<1> QED BY <1>2, <1>3

-----------------------------------------------------------------------------
\* The sums of NothingLeaks.
SumHeld(h, C) == MapThenSumSet(LAMBDA b : HeaderSize + h[b].capacity, C)
SumUsed(h, C) == MapThenSumSet(LAMBDA b : h[b].used, C)

HeldIn(h, C) == [b \in C |-> HeaderSize + h[b].capacity]
UsedIn(h, C) == [b \in C |-> h[b].used]

\* The sums of the model are such totals.
LEMMA SumsAre ==
    ASSUME NEW h, NEW C, IsFiniteSet(C), \A b \in C : h[b].used \in Nat /\ h[b].capacity \in Nat
    PROVE  /\ HeldIn(h, C) \in [C -> Int] /\ SumHeld(h, C) = TotalOf(HeldIn(h, C), C)
           /\ UsedIn(h, C) \in [C -> Int] /\ SumUsed(h, C) = TotalOf(UsedIn(h, C), C)
<1>0. HeaderSize \in Nat
  BY WireArenaAssumption
<1>1. HeldIn(h, C) \in [C -> Int]
  <2>1. \A b \in C : HeaderSize + h[b].capacity \in Int
    BY <1>0
  <2> QED BY <2>1 DEF HeldIn
<1>2. UsedIn(h, C) \in [C -> Int]
  <2>1. \A b \in C : h[b].used \in Int
    OBVIOUS
  <2> QED BY <2>1 DEF UsedIn
<1>3. SumHeld(h, C) = TotalOf(HeldIn(h, C), C)
  <2> DEFINE E(s, I) == IF s = {} THEN 0
                        ELSE (HeaderSize + h[Pick(s)].capacity) + I[s \ {Pick(s)}]
             f == HeldIn(h, C)
             H == CHOOSE I : I = [s \in SUBSET C |-> E(s, I)]
  <2>1. SumHeld(h, C) = H[C]
    BY DEF SumHeld, MapThenSumSet, MapThenFoldSet, Pick
  <2>2. ASSUME NEW s \in SUBSET C, NEW I PROVE E(s, I) = SumBody(f, s, I)
    <3>1. CASE s = {}
      BY <3>1 DEF SumBody
    <3>2. CASE s # {}
      <4>1. Pick(s) \in C
        BY <3>2, PickIn
      <4>2. f[Pick(s)] = HeaderSize + h[Pick(s)].capacity
        BY <4>1 DEF HeldIn
      <4> HIDE DEF f
      <4> QED BY <3>2, <4>2 DEF SumBody
    <3> QED BY <3>1, <3>2
  <2> HIDE DEF E, f
  <2>3. \A I : (I = [s \in SUBSET C |-> E(s, I)]) <=> Solves(f, C, I)
    <3>1. ASSUME NEW I PROVE [s \in SUBSET C |-> E(s, I)] = [s \in SUBSET C |-> SumBody(f, s, I)]
      BY <2>2
    <3> QED BY <3>1 DEF Solves
  <2>4. f \in [C -> Int]
    BY <1>1 DEF f
  <2>5. \E I : Solves(f, C, I)
    BY <2>4, SolvedAdds
  <2>6. H = [s \in SUBSET C |-> E(s, H)]
    BY <2>3, <2>5
  <2> HIDE DEF H
  <2>7. Solves(f, C, H)
    BY <2>3, <2>6
  <2>8. H[C] = TotalOf(f, C)
    BY <2>4, <2>7, SolvedAdds
  <2> QED BY <2>1, <2>8 DEF f
<1>4. SumUsed(h, C) = TotalOf(UsedIn(h, C), C)
  <2> DEFINE E(s, I) == IF s = {} THEN 0 ELSE h[Pick(s)].used + I[s \ {Pick(s)}]
             f == UsedIn(h, C)
             H == CHOOSE I : I = [s \in SUBSET C |-> E(s, I)]
  <2>1. SumUsed(h, C) = H[C]
    BY DEF SumUsed, MapThenSumSet, MapThenFoldSet, Pick
  <2>2. ASSUME NEW s \in SUBSET C, NEW I PROVE E(s, I) = SumBody(f, s, I)
    <3>1. CASE s = {}
      BY <3>1 DEF SumBody
    <3>2. CASE s # {}
      <4>1. Pick(s) \in C
        BY <3>2, PickIn
      <4>2. f[Pick(s)] = h[Pick(s)].used
        BY <4>1 DEF UsedIn
      <4> HIDE DEF f
      <4> QED BY <3>2, <4>2 DEF SumBody
    <3> QED BY <3>1, <3>2
  <2> HIDE DEF E, f
  <2>3. \A I : (I = [s \in SUBSET C |-> E(s, I)]) <=> Solves(f, C, I)
    <3>1. ASSUME NEW I PROVE [s \in SUBSET C |-> E(s, I)] = [s \in SUBSET C |-> SumBody(f, s, I)]
      BY <2>2
    <3> QED BY <3>1 DEF Solves
  <2>4. f \in [C -> Int]
    BY <1>2 DEF f
  <2>5. \E I : Solves(f, C, I)
    BY <2>4, SolvedAdds
  <2>6. H = [s \in SUBSET C |-> E(s, H)]
    BY <2>3, <2>5
  <2> HIDE DEF H
  <2>7. Solves(f, C, H)
    BY <2>3, <2>6
  <2>8. H[C] = TotalOf(f, C)
    BY <2>4, <2>7, SolvedAdds
  <2> QED BY <2>1, <2>8 DEF f
<1> QED BY <1>1, <1>2, <1>3, <1>4

-----------------------------------------------------------------------------
\* The list of blocks.
WireBlock == [next : BlockIds \cup {NoBlock}, used : Nat, capacity : Nat]
Allocated(h) == {b \in BlockIds : h[b] # NoBlock}

Start(c) == {c} \ {NoBlock}
Spread(h, S) == S \cup ({h[b].next : b \in S} \ {NoBlock})

ChainOf(h, c) ==
    LET After[i \in 0 .. Cardinality(BlockIds)] ==
            IF i = 0 THEN {c} \ {NoBlock}
            ELSE After[i - 1] \cup ({h[b].next : b \in After[i - 1]} \ {NoBlock})
    IN  After[Cardinality(BlockIds)]

\* The list of the model.
LEMMA ChainIsOf == Chain = ChainOf(heap, current)
BY DEF Chain, ChainOf

\* The least set with the current block that has the next of each of its blocks.
IsChain(C, h, c) ==
    /\ Start(c) \subseteq C /\ Spread(h, C) \subseteq C
    /\ \A S \in SUBSET C : Start(c) \subseteq S /\ Spread(h, S) \subseteq S => C \subseteq S

\* No pointer leads to a block that is not allocated.
NoDangling(h, c) ==
    /\ Start(c) \subseteq Allocated(h)
    /\ \A b \in Allocated(h) : h[b].next \in Allocated(h) \cup {NoBlock}

\* Following next stays within the allocated blocks.
LEMMA SpreadGrows ==
    ASSUME NEW h, NEW A, \A b \in A : h[b].next \in A \cup {NoBlock}, NEW S \in SUBSET A
    PROVE  Spread(h, S) \in SUBSET A /\ S \subseteq Spread(h, S)
BY DEF Spread

\* Following next from more blocks reaches more.
LEMMA SpreadMonotone ==
    ASSUME NEW h, NEW S, NEW T, S \subseteq T
    PROVE  Spread(h, S) \subseteq Spread(h, T)
BY DEF Spread

\* Where a set has not yet got everything, the next one is larger.
LEMMA LargerBySpread ==
    ASSUME NEW S, NEW T, IsFiniteSet(T), S \subseteq T, ~ (T \subseteq S)
    PROVE  IsFiniteSet(S) /\ Cardinality(S) \in Nat /\ Cardinality(T) \in Nat /\ Cardinality(S) + 1 <= Cardinality(T)
<1>1. IsFiniteSet(S) /\ Cardinality(S) <= Cardinality(T) /\ Cardinality(S) \in Nat /\ Cardinality(T) \in Nat
  BY FS_Subset, FS_CardinalityType
<1>2. Cardinality(S) # Cardinality(T)
  BY FS_Subset
<1> DEFINE a == Cardinality(S)
           b == Cardinality(T)
<1>3. a \in Nat /\ b \in Nat /\ a <= b /\ a # b
  BY <1>1, <1>2
<1> HIDE DEF a, b
<1>4. a + 1 <= b
  BY <1>3
<1> QED BY <1>1, <1>4 DEF a, b

\* What the loop has after n blocks.
Collected(h, c, n, S) ==
    /\ S \in SUBSET Allocated(h) /\ Start(c) \subseteq S
    /\ Spread(h, S) \subseteq S \/ Cardinality(S) >= n + 1
    /\ \A T : Start(c) \subseteq T /\ Spread(h, T) \subseteq T => S \subseteq T

\* The walk begins with the current block.
LEMMA CollectedFirst ==
    ASSUME NEW h, NEW c, NoDangling(h, c)
    PROVE  Collected(h, c, 0, Start(c))
<1>1. Start(c) \in SUBSET Allocated(h)
  BY DEF NoDangling
<1>2. CASE c = NoBlock
  BY <1>1, <1>2 DEF Collected, Start, Spread
<1>3. CASE c # NoBlock
  <2>1. Start(c) = {c}
    BY <1>3 DEF Start
  <2>2. Cardinality({c}) = 1
    BY FS_Singleton
  <2>3. Cardinality(Start(c)) >= 0 + 1
    BY <2>1, <2>2
  <2> QED BY <1>1, <2>3 DEF Collected
<1> QED BY <1>2, <1>3

\* Each step of the walk reaches one more block or is at its end.
LEMMA CollectedNext ==
    ASSUME NEW h, NEW c, NoDangling(h, c), NEW n \in Nat, NEW S, Collected(h, c, n, S)
    PROVE  Collected(h, c, n + 1, Spread(h, S))
<1> DEFINE U == Spread(h, S)
<1>1. S \in SUBSET Allocated(h) /\ Start(c) \subseteq S
  BY DEF Collected
<1>2. U \in SUBSET Allocated(h) /\ S \subseteq U
  BY <1>1, SpreadGrows DEF NoDangling
<1>3. IsFiniteSet(U)
  <2>1. U \subseteq BlockIds
    BY <1>2 DEF Allocated
  <2> QED BY <2>1, WireArenaAssumption, FS_Subset
<1>4. ASSUME NEW T, Start(c) \subseteq T, Spread(h, T) \subseteq T PROVE U \subseteq T
  <2>1. S \subseteq T
    BY <1>4 DEF Collected
  <2> QED BY <1>4, <2>1, SpreadMonotone
<1>5. Spread(h, U) \subseteq U \/ Cardinality(U) >= (n + 1) + 1
  <2>1. CASE U \subseteq S
    <3>1. U = S
      BY <1>2, <2>1
    <3> QED BY <3>1
  <2>2. CASE ~ (U \subseteq S)
    <3> DEFINE a == Cardinality(S)
               b == Cardinality(U)
    <3>1. a \in Nat /\ b \in Nat /\ a + 1 <= b
      BY <1>2, <1>3, <2>2, LargerBySpread
    <3>2. a >= n + 1
      BY <2>2 DEF Collected
    <3> HIDE DEF a, b
    <3>3. b >= (n + 1) + 1
      BY <3>1, <3>2
    <3> QED BY <3>3 DEF b
  <2> QED BY <2>1, <2>2
<1> HIDE DEF U
<1>6. Collected(h, c, n + 1, U)
  BY <1>1, <1>2, <1>4, <1>5 DEF Collected
<1> QED BY <1>6 DEF U

\* The walk of reset and destroy reaches the whole list.
LEMMA ChainIs ==
    ASSUME NEW h, NEW c, NoDangling(h, c)
    PROVE  IsChain(ChainOf(h, c), h, c) /\ ChainOf(h, c) \subseteq Allocated(h)
<1> DEFINE N == Cardinality(BlockIds)
           D == 0 .. N
           V == SUBSET Allocated(h)
           E(n, f) == IF n = 0 THEN Start(c) ELSE Spread(h, f[n - 1])
           r == [n \in D |-> n]
           G == [n \in D |-> [f \in [D -> V] |-> E(n, f)]]
<1>0. N \in Nat /\ IsFiniteSet(BlockIds)
  BY WireArenaAssumption, FS_CardinalityType
<1>1. Start(c) \in V
  BY DEF NoDangling
<1>2. \A n \in D : n # 0 => n - 1 \in D /\ n - 1 < n
  BY <1>0
<1>3. \A S \in V : Spread(h, S) \in V
  BY SpreadGrows DEF NoDangling
<1> DEFINE H == CHOOSE g : g = [n \in D |-> E(n, g)]
<1>4. ChainOf(h, c) = H[N]
  BY DEF ChainOf, Start, Spread
<1> HIDE DEF V, N
<1>5. ASSUME NEW f, NEW n \in D, n - 1 \in D => f[n - 1] \in V PROVE E(n, f) \in V
  BY <1>1, <1>2, <1>3, <1>5
<1>6. ASSUME NEW n \in D, NEW f, NEW g, \A y \in D : r[y] < r[n] => f[y] = g[y]
      PROVE  E(n, f) = E(n, g)
  <2>1. CASE n = 0
    BY <2>1
  <2>2. CASE n # 0
    <3>1. f[n - 1] = g[n - 1]
      BY <1>2, <1>6, <2>2
    <3> QED BY <3>1
  <2> QED BY <2>1, <2>2
<1>7. r \in [D -> Nat] /\ N \in D /\ 0 \in D
  BY <1>0
<1> HIDE DEF r, D
<1>8. Body(D, V, r, G)
  <2>1. \A n \in D : \A f \in [D -> V] : E(n, f) \in V
    BY <1>5
  <2> HIDE DEF E
  <2>2. G \in [D -> [[D -> V] -> V]]
    BY <2>1
  <2>3. \A n \in D : \A f \in [D -> V] : G[n][f] = E(n, f)
    OBVIOUS
  <2>4. ASSUME NEW n \in D, NEW f \in [D -> V], NEW g \in [D -> V],
               \A y \in D : r[y] < r[n] => f[y] = g[y]
        PROVE  G[n][f] = G[n][g]
    <3>1. E(n, f) = E(n, g)
      BY <1>6, <2>4
    <3> HIDE DEF G
    <3> QED BY <2>3, <3>1
  <2> HIDE DEF G
  <2> QED BY <1>7, <2>2, <2>4 DEF Body
<1>9. \E g : g = [n \in D |-> E(n, g)]
  <2>1. PICK g \in [D -> V] : \A n \in D : g[n] = G[n][g]
    <3>1. V # {}
      BY <1>1
    <3> HIDE DEF G
    <3> QED BY <1>8, <3>1, SolutionExists
  <2> HIDE DEF E
  <2>2. \A n \in D : g[n] = E(n, g)
    BY <2>1
  <2> HIDE DEF G
  <2>3. g = [n \in D |-> E(n, g)]
    BY <2>1, <2>2
  <2> QED BY <2>3
<1>10. H = [n \in D |-> E(n, H)]
  <2> HIDE DEF E
  <2> QED BY <1>9
<1> HIDE DEF H, G
<1>11. \A n \in D : H[n] = E(n, H)
  <2> HIDE DEF E
  <2> QED BY <1>10
<1> DEFINE Bad == {n \in D : ~ Collected(h, c, n, H[n])}
<1>12. Bad = {}
  <2>1. SUFFICES ASSUME Bad # {} PROVE FALSE
    OBVIOUS
  <2>2. Bad \subseteq Nat
    BY <1>0 DEF D
  <2>3. PICK n \in Bad : \A y \in Bad : n <= y
    <3> HIDE DEF Bad
    <3> QED BY <2>1, <2>2, LeastNatural
  <2>4. n \in D /\ ~ Collected(h, c, n, H[n])
    BY <2>3
  <2>5. n # 0
    <3>1. H[0] = Start(c)
      BY <1>7, <1>11
    <3> QED BY <2>4, <3>1, CollectedFirst
  <2>6. n - 1 \in D /\ n - 1 < n /\ n \in Nat /\ n - 1 \in Nat
    BY <1>2, <2>2, <2>4, <2>5
  <2>7. Collected(h, c, n - 1, H[n - 1])
    <3>1. n - 1 \notin Bad
      <4>1. ~ (n <= n - 1)
        BY <2>6
      <4> QED BY <2>3, <4>1
    <3> QED BY <2>6, <3>1
  <2>8. H[n] = Spread(h, H[n - 1])
    BY <1>11, <2>4, <2>5
  <2>9. Collected(h, c, (n - 1) + 1, H[n])
    BY <2>6, <2>7, <2>8, CollectedNext
  <2>10. (n - 1) + 1 = n
    BY <2>6
  <2> QED BY <2>4, <2>9, <2>10
<1> DEFINE C == H[N]
<1>13. Collected(h, c, N, C)
  BY <1>7, <1>12
<1> HIDE DEF C, Bad
<1>14. C \subseteq Allocated(h) /\ C \subseteq BlockIds
  BY <1>13 DEF Collected, Allocated
<1>15. Spread(h, C) \subseteq C
  <2> DEFINE a == Cardinality(C)
  <2>1. a \in Nat /\ a <= N
    BY <1>0, <1>14, FS_Subset, FS_CardinalityType DEF N
  <2> HIDE DEF a
  <2>2. ~ (a >= N + 1)
    BY <1>0, <2>1
  <2> QED BY <1>13, <2>2 DEF Collected, a
<1>16. IsChain(C, h, c)
  BY <1>13, <1>15 DEF Collected, IsChain
<1> QED BY <1>4, <1>14, <1>16 DEF C

\* There is only one such set.
LEMMA ChainUnique ==
    ASSUME NEW h, NEW c, NEW C, NEW B, IsChain(C, h, c), IsChain(B, h, c)
    PROVE  C = B
<1> DEFINE S == C \cap B
<1>1. Start(c) \subseteq S
  BY DEF IsChain
<1>2. Spread(h, S) \subseteq S
  <2>1. Spread(h, S) \subseteq Spread(h, C) /\ Spread(h, S) \subseteq Spread(h, B)
    BY SpreadMonotone
  <2> QED BY <2>1 DEF IsChain
<1>3. S \in SUBSET C /\ S \in SUBSET B
  OBVIOUS
<1>4. C \subseteq S /\ B \subseteq S
  BY <1>1, <1>2, <1>3 DEF IsChain
<1> QED BY <1>4

\* Changes that leave the blocks of the list, and where they lead, as they are.
LEMMA ChainKept ==
    ASSUME NEW h, NEW g, NEW c, NoDangling(h, c), NoDangling(g, c),
           \A b \in ChainOf(h, c) : g[b].next = h[b].next
    PROVE  ChainOf(g, c) = ChainOf(h, c)
<1> DEFINE C == ChainOf(h, c)
<1>1. IsChain(C, h, c) /\ IsChain(ChainOf(g, c), g, c)
  BY ChainIs
<1>2. \A S \in SUBSET C : Spread(g, S) = Spread(h, S)
  BY DEF Spread
<1>3. C \in SUBSET C
  OBVIOUS
<1> HIDE DEF C
<1>4. IsChain(C, g, c)
  BY <1>1, <1>2, <1>3 DEF IsChain
<1>5. C = ChainOf(g, c)
  BY <1>1, <1>4, ChainUnique
<1> QED BY <1>5 DEF C

\* The new block goes before the others.
LEMMA ChainLonger ==
    ASSUME NEW h, NEW c, NoDangling(h, c), NEW b \in Allocated(h), h[b].next = c
    PROVE  ChainOf(h, b) = ChainOf(h, c) \cup {b} /\ NoDangling(h, b)
<1> DEFINE C == ChainOf(h, c)
           B == C \cup {b}
<1>1. IsChain(C, h, c)
  BY ChainIs
<1>2. b # NoBlock /\ Start(b) = {b}
  BY WireArenaAssumption DEF Allocated, Start
<1>3. NoDangling(h, b)
  BY <1>2 DEF NoDangling
<1> HIDE DEF C
<1>4. Spread(h, C) \subseteq C /\ Start(c) \subseteq C
  BY <1>1 DEF IsChain
<1>5. Spread(h, B) \subseteq B
  BY <1>4 DEF Spread, Start
<1>6. ASSUME NEW S \in SUBSET B, Start(b) \subseteq S, Spread(h, S) \subseteq S PROVE B \subseteq S
  <2> DEFINE T == S \cap C
  <2>1. b \in S /\ h[b].next = c
    BY <1>2, <1>6
  <2>2. Start(c) \subseteq S
    BY <1>6, <2>1 DEF Start, Spread
  <2>3. Start(c) \subseteq T /\ Spread(h, T) \subseteq T
    <3>1. Spread(h, T) \subseteq Spread(h, S) /\ Spread(h, T) \subseteq Spread(h, C)
      BY SpreadMonotone
    <3> QED BY <1>4, <1>6, <2>2, <3>1
  <2>4. T \in SUBSET C
    OBVIOUS
  <2> HIDE DEF T
  <2>5. C \subseteq T
    BY <1>1, <2>3, <2>4 DEF IsChain
  <2> QED BY <2>1, <2>5 DEF T
<1>7. IsChain(B, h, b)
  BY <1>2, <1>5, <1>6 DEF IsChain
<1>8. IsChain(ChainOf(h, b), h, b)
  BY <1>3, ChainIs
<1> HIDE DEF B
<1>9. ChainOf(h, b) = B
  BY <1>7, <1>8, ChainUnique
<1> QED BY <1>3, <1>9 DEF B, C

\* Without a current block the list is empty.
LEMMA ChainEmpty ==
    ASSUME NEW h, NoDangling(h, NoBlock)
    PROVE  ChainOf(h, NoBlock) = {}
<1>1. IsChain(ChainOf(h, NoBlock), h, NoBlock)
  BY ChainIs
<1>2. IsChain({}, h, NoBlock)
  BY DEF IsChain, Start, Spread
<1> QED BY <1>1, <1>2, ChainUnique

-----------------------------------------------------------------------------
\* Sizes.
LEMMA DivFacts ==
    ASSUME NEW n \in Nat, NEW a \in Nat \ {0}
    PROVE  n \div a \in Nat /\ a * (n \div a) <= n /\ n < a * (n \div a) + a
<1> DEFINE q == n \div a
           m == n % a
<1>1. q \in Nat /\ m \in Nat /\ m < a /\ n = a * q + m
  OBVIOUS
<1> HIDE DEF q, m
<1>2. a * q \in Nat
  BY <1>1
<1>3. a * q <= n /\ n < a * q + a
  BY <1>1, <1>2
<1> QED BY <1>1, <1>3 DEF q

\* bebop_wire_align_size rounds up.
LEMMA AlignFacts ==
    ASSUME NEW s \in Nat
    PROVE  AlignSize(s) \in Nat /\ s <= AlignSize(s)
<1> DEFINE a == AlignTo
           q == (s + a - 1) \div a
<1>1. a \in Nat \ {0} /\ s + a - 1 \in Nat
  BY WireArenaAssumption
<1>2. q \in Nat /\ s + a - 1 < a * q + a
  BY <1>1, DivFacts
<1> HIDE DEF a, q
<1>3. a * q \in Nat /\ q * a = a * q
  BY <1>1, <1>2
<1>4. s <= a * q
  BY <1>1, <1>2, <1>3
<1>5. AlignSize(s) = q * a
  BY DEF AlignSize, q, a
<1> QED BY <1>3, <1>4, <1>5

\* A larger size is not rounded to less.
LEMMA AlignMonotone ==
    ASSUME NEW s \in Nat, NEW t \in Nat, s <= t
    PROVE  AlignSize(s) <= AlignSize(t)
<1> DEFINE a == AlignTo
           p == (s + a - 1) \div a
           q == (t + a - 1) \div a
<1>1. a \in Nat \ {0} /\ s + a - 1 \in Nat /\ t + a - 1 \in Nat
  BY WireArenaAssumption
<1>2. p \in Nat /\ a * p <= s + a - 1
  BY <1>1, DivFacts
<1>3. q \in Nat /\ t + a - 1 < a * q + a
  BY <1>1, DivFacts
<1>4. AlignSize(s) = p * a /\ AlignSize(t) = q * a
  BY DEF AlignSize
<1> HIDE DEF a, p, q
<1>5. p <= q
  <2>1. SUFFICES ASSUME q + 1 <= p PROVE FALSE
    BY <1>2, <1>3
  <2>2. a * (q + 1) <= a * p
    BY <1>1, <1>2, <1>3, <2>1
  <2>3. a * (q + 1) = a * q + a
    BY <1>1, <1>3
  <2>4. a * p \in Nat /\ a * q \in Nat
    BY <1>1, <1>2, <1>3
  <2> QED BY <1>1, <1>2, <1>3, <2>2, <2>3, <2>4
<1>6. p * a <= q * a
  BY <1>1, <1>2, <1>3, <1>5
<1> QED BY <1>4, <1>6

\* The capacity of a block is a number.
LEMMA CapacityTyped ==
    ASSUME NEW s \in Nat
    PROVE  BlockCapacity(s) \in Nat
<1> DEFINE q == AlignSize(s)
           x == Max({InitialBlock, q})
           y == Min({x, MaxBlock})
<1>1. q \in Nat /\ InitialBlock \in Nat /\ MaxBlock \in Nat
  BY AlignFacts, WireArenaAssumption
<1> HIDE DEF q
<1>2. x \in Nat
  <2>1. \E z \in {InitialBlock, q} : \A w \in {InitialBlock, q} : z >= w
    BY <1>1
  <2> QED BY <1>1, <2>1 DEF Max
<1> HIDE DEF x
<1>3. y \in Nat
  <2>1. \E z \in {x, MaxBlock} : \A w \in {x, MaxBlock} : z <= w
    BY <1>1, <1>2
  <2> QED BY <1>1, <1>2, <2>1 DEF Min
<1>4. BlockCapacity(s) = IF q > MaxBlock THEN 0 ELSE y
  BY DEF BlockCapacity, q, x
<1> HIDE DEF y
<1> QED BY <1>3, <1>4

\* bebop_writer_reserve asks for a positive size.
LEMMA DoubledTyped ==
    ASSUME NEW size \in Nat \ {0}, NEW target \in Nat
    PROVE  Doubled(size, target) \in Nat \ {0}
<1> DEFINE D == 0 .. target
           V == Nat \ {0}
           Twice(x) == IF x < target THEN x * 2 ELSE x
           E(n, f) == IF n = 0 THEN size ELSE Twice(f[n - 1])
           r == [n \in D |-> n]
           G == [n \in D |-> [f \in [D -> V] |-> E(n, f)]]
           H == CHOOSE g : g = [n \in D |-> E(n, g)]
<1>1. Doubled(size, target) = H[target]
  BY DEF Doubled
<1>2. \A n \in D : n # 0 => n - 1 \in D /\ n - 1 < n
  OBVIOUS
<1>3. \A x \in V : Twice(x) \in V
  OBVIOUS
<1>4. size \in V
  OBVIOUS
<1> HIDE DEF V, Twice
<1>5. ASSUME NEW f, NEW n \in D, n - 1 \in D => f[n - 1] \in V PROVE E(n, f) \in V
  BY <1>2, <1>3, <1>4, <1>5
<1>6. ASSUME NEW n \in D, NEW f, NEW g, \A y \in D : r[y] < r[n] => f[y] = g[y]
      PROVE  E(n, f) = E(n, g)
  <2>1. CASE n = 0
    BY <2>1
  <2>2. CASE n # 0
    <3>1. f[n - 1] = g[n - 1]
      BY <1>2, <1>6, <2>2
    <3> QED BY <3>1
  <2> QED BY <2>1, <2>2
<1>7. r \in [D -> Nat] /\ target \in D /\ 0 \in D /\ D \subseteq Nat
  OBVIOUS
<1> HIDE DEF r, D
<1>8. Body(D, V, r, G)
  <2>1. \A n \in D : \A f \in [D -> V] : E(n, f) \in V
    BY <1>5
  <2> HIDE DEF E
  <2>2. G \in [D -> [[D -> V] -> V]]
    BY <2>1
  <2>3. \A n \in D : \A f \in [D -> V] : G[n][f] = E(n, f)
    OBVIOUS
  <2>4. ASSUME NEW n \in D, NEW f \in [D -> V], NEW g \in [D -> V],
               \A y \in D : r[y] < r[n] => f[y] = g[y]
        PROVE  G[n][f] = G[n][g]
    <3>1. E(n, f) = E(n, g)
      BY <1>6, <2>4
    <3> HIDE DEF G
    <3> QED BY <2>3, <3>1
  <2> HIDE DEF G
  <2> QED BY <1>7, <2>2, <2>4 DEF Body
<1>9. \E g : g = [n \in D |-> E(n, g)]
  <2>1. PICK g \in [D -> V] : \A n \in D : g[n] = G[n][g]
    <3>1. V # {}
      BY <1>4
    <3> HIDE DEF G
    <3> QED BY <1>8, <3>1, SolutionExists
  <2> HIDE DEF E
  <2>2. \A n \in D : g[n] = E(n, g)
    BY <2>1
  <2> HIDE DEF G
  <2>3. g = [n \in D |-> E(n, g)]
    BY <2>1, <2>2
  <2> QED BY <2>3
<1>10. H = [n \in D |-> E(n, H)]
  <2> HIDE DEF E
  <2> QED BY <1>9
<1> HIDE DEF H, G
<1>11. \A n \in D : H[n] = E(n, H)
  <2> HIDE DEF E
  <2> QED BY <1>10
<1> DEFINE Bad == {n \in D : H[n] \notin V}
<1>12. Bad = {}
  <2>1. SUFFICES ASSUME Bad # {} PROVE FALSE
    OBVIOUS
  <2>2. Bad \subseteq Nat
    BY <1>7
  <2>3. PICK n \in Bad : \A y \in Bad : n <= y
    <3> HIDE DEF Bad
    <3> QED BY <2>1, <2>2, LeastNatural
  <2>4. n \in D /\ H[n] \notin V
    BY <2>3
  <2>5. n - 1 \in D => H[n - 1] \in V
    <3>1. n - 1 \in D => ~ (n <= n - 1)
      BY <2>2
    <3> QED BY <2>3, <3>1
  <2>6. E(n, H) \in V
    BY <1>5, <2>4, <2>5
  <2> HIDE DEF E
  <2> QED BY <1>11, <2>4, <2>6
<1>13. H[target] \in V
  BY <1>7, <1>12
<1> QED BY <1>1, <1>13 DEF V

-----------------------------------------------------------------------------
\* The inductive invariant, of values rather than variables: h is the heap, c the current block, a and
\* u the two counters, th the threads, regs the regions and w the writers; C is the list.
Region == [block : BlockIds, at : Nat, size : Nat \ {0}, owner : Threads]

Places == {"load", "room", "grow", "publish", "count", "use", "claim", "tally",
           "top", "extend", "stretch", "stretched"}

Call == [at : Places, what : {"alloc", "realloc", "writer"}, size : Nat \ {0},
         region : Region \cup {NoBlock}, cur : BlockIds \cup {NoBlock}, old : Nat,
         new : BlockIds \cup {NoBlock}]

ArenaTyped(h, c, a, u, th, regs, w) ==
    /\ h \in [BlockIds -> WireBlock \cup {NoBlock}] /\ c \in BlockIds \cup {NoBlock}
    /\ a \in Int /\ u \in Int
    /\ th \in [Threads -> Call \cup {Idle}]
    /\ regs \subseteq Region /\ w \in [Threads -> Region \cup {Idle}]

\* No block is lost, and two threads never publish the same.
BlocksKept(h, C, th) ==
    /\ \A b \in Allocated(h) : h[b].used <= h[b].capacity
    /\ \A b \in Allocated(h) : b \in C \/ \E t \in Threads : th[t].at = "publish" /\ th[t].new = b
    /\ \A t, v \in Threads : th[t].at = "publish" /\ th[v].at = "publish" /\ th[t].new = th[v].new => t = v

\* What a thread t relies on between two of its accesses, x being where it is and its locals and y its
\* writer.
InBlock == {"room", "count", "use", "claim", "tally", "extend", "stretch", "stretched"}
OfRealloc == {"top", "extend", "stretch", "stretched"}

Local(h, C, regs, y, t, x) ==
    x # Idle =>
      /\ x.what = "realloc" => /\ x.region \in regs /\ x.region.owner = t
                               /\ x.region.size < x.size /\ x.region # y
      /\ x.what # "realloc" => x.region = NoBlock
      /\ x.at \in OfRealloc => x.what = "realloc"
      /\ x.at \in {"grow", "publish"} => x.cur \in C \cup {NoBlock}
      /\ x.at \in InBlock => x.cur \in C
      /\ x.at = "claim" => x.old + AlignSize(x.size) <= h[x.cur].capacity
      /\ x.at = "stretch" =>
            /\ x.region.block = x.cur /\ x.region.at + AlignSize(x.region.size) = x.old
            /\ x.old + (AlignSize(x.size) - AlignSize(x.region.size)) <= h[x.cur].capacity
      /\ x.at = "publish" =>
            x.new \in Allocated(h) /\ x.new \notin C /\ h[x.new].next = x.cur /\ h[x.new].used = 0

Locals(h, C, regs, w, th) == \A t \in Threads : Local(h, C, regs, w[t], t, th[t])

WritersOwn(regs, w) == \A t \in Threads : w[t] = Idle \/ (w[t] \in regs /\ w[t].owner = t)

\* A region that is claimed and not yet returned is held too; one that is stretched and not yet
\* returned has its new end.
ClaimOf(x, t) == [block |-> x.cur, at |-> x.old, size |-> x.size, owner |-> t]
Claimers(th) == {t \in Threads : th[t].at = "tally"}
Holders(regs, th) == regs \cup {ClaimOf(th[t], t) : t \in Claimers(th)}
Stretching(th, r) == th[r.owner].at = "stretched" /\ th[r.owner].region = r
Ends(th, r) == IF Stretching(th, r) THEN r.at + AlignSize(th[r.owner].size) ELSE r.at + AlignSize(r.size)

HeldBelow(h, C, regs, th) ==
    \A r \in Holders(regs, th) : r.block \in C /\ Ends(th, r) <= h[r.block].used

HeldApart(regs, th) ==
    \A r, s \in Holders(regs, th) :
        r # s /\ r.block = s.block => Ends(th, r) <= s.at \/ Ends(th, s) <= r.at

\* The counters lack what threads have yet to add.
PendHeld(h, th) ==
    [t \in Threads |-> IF th[t].at = "count" THEN HeaderSize + h[th[t].cur].capacity ELSE 0]
Owed(x) ==
    IF x.at = "tally" THEN AlignSize(x.size)
    ELSE IF x.at = "stretched" THEN AlignSize(x.size) - AlignSize(x.region.size) ELSE 0
PendUsed(th) == [t \in Threads |-> Owed(th[t])]

Counted(h, C, th, a) == a = TotalOf(HeldIn(h, C), C) - TotalOf(PendHeld(h, th), Threads)
Tallied(h, C, th, u) == u = TotalOf(UsedIn(h, C), C) - TotalOf(PendUsed(th), Threads)

Good(h, c, a, u, th, regs, w) ==
    /\ ArenaTyped(h, c, a, u, th, regs, w)
    /\ NoDangling(h, c)
    /\ BlocksKept(h, ChainOf(h, c), th)
    /\ Locals(h, ChainOf(h, c), regs, w, th)
    /\ WritersOwn(regs, w)
    /\ HeldBelow(h, ChainOf(h, c), regs, th) /\ HeldApart(regs, th)
    /\ Counted(h, ChainOf(h, c), th, a) /\ Tallied(h, ChainOf(h, c), th, u)

\* NULL and an idle thread are told apart from blocks, regions and calls.
LEMMA NotRecords == NoBlock \notin WireBlock /\ NoBlock \notin Region /\ Idle \notin Region /\ Idle \notin Call
<1>1. NoBlock \notin WireBlock
  BY WireArenaAssumption DEF WireBlock
<1>2. NoBlock \notin Region
  <2>1. Region \subseteq [block : BlockIds, at : Nat, size : Nat, owner : Threads]
    BY DEF Region
  <2> QED BY <2>1, WireArenaAssumption
<1>3. Idle \notin Region
  BY DEF Region, Idle
<1>4. Idle \notin Call
  BY DEF Call, Idle, Places
<1> QED BY <1>1, <1>2, <1>3, <1>4

\* What an allocated block is made of.
LEMMA BlockTypes ==
    ASSUME NEW h \in [BlockIds -> WireBlock \cup {NoBlock}], NEW b \in Allocated(h)
    PROVE  /\ b \in BlockIds /\ h[b] \in WireBlock /\ h[b].used \in Nat /\ h[b].capacity \in Nat
           /\ h[b].next \in BlockIds \cup {NoBlock}
<1>1. b \in BlockIds /\ h[b] \in WireBlock
  BY DEF Allocated
<1> QED BY <1>1 DEF WireBlock

\* What the locals of a call are made of.
LEMMA CallTypes ==
    ASSUME NEW x \in Call
    PROVE  /\ x.at \in Places /\ x.what \in {"alloc", "realloc", "writer"} /\ x.size \in Nat \ {0}
           /\ x.region \in Region \cup {NoBlock} /\ x.cur \in BlockIds \cup {NoBlock} /\ x.old \in Nat
           /\ x.new \in BlockIds \cup {NoBlock} /\ x # Idle
BY NotRecords DEF Call

\* What a region is made of.
LEMMA RegionTypes ==
    ASSUME NEW r \in Region
    PROVE  r.block \in BlockIds /\ r.at \in Nat /\ r.size \in Nat \ {0} /\ r.owner \in Threads
BY DEF Region

\* The blocks of the list.
LEMMA ListFacts ==
    ASSUME NEW h \in [BlockIds -> WireBlock \cup {NoBlock}], NEW c, NoDangling(h, c)
    PROVE  /\ ChainOf(h, c) \subseteq Allocated(h) /\ ChainOf(h, c) \subseteq BlockIds
           /\ IsFiniteSet(ChainOf(h, c)) /\ NoBlock \notin ChainOf(h, c)
           /\ \A b \in ChainOf(h, c) : h[b].used \in Nat /\ h[b].capacity \in Nat
<1>1. ChainOf(h, c) \subseteq Allocated(h)
  BY ChainIs
<1>2. ChainOf(h, c) \subseteq BlockIds
  BY <1>1 DEF Allocated
<1>3. IsFiniteSet(ChainOf(h, c)) /\ NoBlock \notin ChainOf(h, c)
  BY <1>2, WireArenaAssumption, FS_Subset
<1> QED BY <1>1, <1>2, <1>3, BlockTypes

\* The sums are of integers.
LEMMA PendTypes ==
    ASSUME NEW h \in [BlockIds -> WireBlock \cup {NoBlock}], NEW c, NoDangling(h, c),
           NEW th \in [Threads -> Call \cup {Idle}], NEW regs, regs \subseteq Region, NEW w,
           Locals(h, ChainOf(h, c), regs, w, th)
    PROVE  PendHeld(h, th) \in [Threads -> Int] /\ PendUsed(th) \in [Threads -> Int]
<1>0. HeaderSize \in Nat
  BY WireArenaAssumption
<1>1. ASSUME NEW t \in Threads, th[t] = Idle
      PROVE  /\ (IF th[t].at = "count" THEN HeaderSize + h[th[t].cur].capacity ELSE 0) \in Int
             /\ Owed(th[t]) \in Int
  BY <1>1 DEF Idle, Owed
<1>2. ASSUME NEW t \in Threads, th[t] # Idle
      PROVE  /\ (IF th[t].at = "count" THEN HeaderSize + h[th[t].cur].capacity ELSE 0) \in Int
             /\ Owed(th[t]) \in Int
  <2> DEFINE x == th[t]
  <2>1. x \in Call
    BY <1>2
  <2>2. x.size \in Nat /\ x.region \in Region \cup {NoBlock}
    BY <2>1, CallTypes
  <2>3. Local(h, ChainOf(h, c), regs, w[t], t, x)
    BY DEF Locals
  <2>4. x.at = "count" => h[x.cur].capacity \in Nat
    BY <1>2, <2>3, ListFacts DEF Local, InBlock
  <2>5. x.at = "stretched" => x.region \in Region
    <3>1. x.at = "stretched" => x.what = "realloc"
      BY <1>2, <2>3 DEF Local, OfRealloc
    <3>2. x.what = "realloc" => x.region \in regs
      BY <1>2, <2>3 DEF Local
    <3> QED BY <3>1, <3>2
  <2>6. AlignSize(x.size) \in Nat
    BY <2>2, AlignFacts
  <2>7. x.at = "stretched" => AlignSize(x.region.size) \in Nat
    BY <2>5, RegionTypes, AlignFacts
  <2> HIDE DEF x
  <2>8. Owed(x) \in Int
    BY <2>6, <2>7 DEF Owed
  <2>9. (IF x.at = "count" THEN HeaderSize + h[x.cur].capacity ELSE 0) \in Int
    BY <1>0, <2>4
  <2> QED BY <2>8, <2>9 DEF x
<1> QED BY <1>1, <1>2 DEF PendHeld, PendUsed

-----------------------------------------------------------------------------
\* One thread goes on.
Moved(th, t, d) == [th EXCEPT ![t] = d]

\* Only the one thread changes.
LEMMA MovedIs ==
    ASSUME NEW th \in [Threads -> Call \cup {Idle}], NEW t \in Threads, NEW d \in Call \cup {Idle}
    PROVE  /\ Moved(th, t, d) \in [Threads -> Call \cup {Idle}] /\ Moved(th, t, d)[t] = d
           /\ \A v \in Threads : v # t => Moved(th, t, d)[v] = th[v]
BY DEF Moved

Holding == {"tally", "stretched"}

\* Only what a thread holds in passing changes the regions and what is owed.
LEMMA HeldSame ==
    ASSUME NEW th \in [Threads -> Call \cup {Idle}], NEW t \in Threads, NEW d \in Call \cup {Idle},
           th[t].at \notin Holding, d.at \notin Holding, NEW regs, regs \subseteq Region
    PROVE  /\ Holders(regs, Moved(th, t, d)) = Holders(regs, th)
           /\ \A r : r.owner \in Threads => Ends(Moved(th, t, d), r) = Ends(th, r)
           /\ PendUsed(Moved(th, t, d)) = PendUsed(th)
<1> DEFINE n == Moved(th, t, d)
<1>1. n[t] = d /\ \A v \in Threads : v # t => n[v] = th[v]
  BY MovedIs
<1> HIDE DEF n
<1>2. Claimers(n) = Claimers(th) /\ t \notin Claimers(th)
  BY <1>1 DEF Claimers, Holding
<1>3. \A v \in Claimers(th) : n[v] = th[v]
  BY <1>1, <1>2 DEF Claimers
<1>4. Holders(regs, n) = Holders(regs, th)
  BY <1>2, <1>3 DEF Holders
<1>5. ASSUME NEW r, r.owner \in Threads PROVE Ends(n, r) = Ends(th, r)
  <2>1. CASE r.owner = t
    <3>1. ~ Stretching(n, r) /\ ~ Stretching(th, r)
      BY <1>1, <2>1 DEF Stretching, Holding
    <3> QED BY <3>1 DEF Ends
  <2>2. CASE r.owner # t
    <3>1. n[r.owner] = th[r.owner]
      BY <1>1, <1>5, <2>2
    <3> QED BY <3>1 DEF Ends, Stretching
  <2> QED BY <2>1, <2>2
<1>6. PendUsed(n) = PendUsed(th)
  <2>1. \A v \in Threads : Owed(n[v]) = Owed(th[v])
    BY <1>1 DEF Owed, Holding
  <2> QED BY <2>1 DEF PendUsed
<1> QED BY <1>4, <1>5, <1>6 DEF n

\* Regions and claims have the type of regions.
LEMMA HoldersTyped ==
    ASSUME NEW h, NEW C, NEW th \in [Threads -> Call \cup {Idle}], NEW regs, regs \subseteq Region, NEW w,
           Locals(h, C, regs, w, th), C \subseteq BlockIds
    PROVE  Holders(regs, th) \subseteq Region
<1>1. ASSUME NEW t \in Claimers(th) PROVE ClaimOf(th[t], t) \in Region
  <2>1. t \in Threads /\ th[t].at = "tally"
    BY DEF Claimers
  <2>2. th[t] # Idle
    BY <2>1 DEF Idle
  <2>3. th[t] \in Call
    BY <2>1, <2>2
  <2>4. th[t].cur \in C
    BY <2>1, <2>2 DEF Locals, Local, InBlock
  <2>5. th[t].old \in Nat /\ th[t].size \in Nat \ {0}
    BY <2>3, CallTypes
  <2> QED BY <2>1, <2>4, <2>5 DEF ClaimOf, Region
<1> QED BY <1>1 DEF Holders

\* A step that touches only the thread, between two places at which it holds nothing.
Loud == {"publish", "count", "tally", "stretched"}

\* Such a step keeps the invariant.
LEMMA QuietStep ==
    ASSUME NEW h, NEW c, NEW a, NEW u, NEW th, NEW regs, NEW w, Good(h, c, a, u, th, regs, w),
           NEW t \in Threads, NEW d \in Call \cup {Idle}, th[t].at \notin Loud, d.at \notin Loud,
           Local(h, ChainOf(h, c), regs, w[t], t, d)
    PROVE  Good(h, c, a, u, Moved(th, t, d), regs, w)
<1> DEFINE C == ChainOf(h, c)
           n == Moved(th, t, d)
<1>0. /\ h \in [BlockIds -> WireBlock \cup {NoBlock}] /\ th \in [Threads -> Call \cup {Idle}]
      /\ regs \subseteq Region
  BY DEF Good, ArenaTyped
<1>1. n \in [Threads -> Call \cup {Idle}] /\ n[t] = d /\ \A v \in Threads : v # t => n[v] = th[v]
  BY <1>0, MovedIs
<1>2. th[t].at \notin Holding /\ d.at \notin Holding
  BY DEF Loud, Holding
<1>3. /\ Holders(regs, n) = Holders(regs, th) /\ PendUsed(n) = PendUsed(th)
      /\ \A r : r.owner \in Threads => Ends(n, r) = Ends(th, r)
  BY <1>0, <1>2, HeldSame
<1>4. Locals(h, C, regs, w, th) /\ NoDangling(h, c) /\ WritersOwn(regs, w)
  BY DEF Good
<1>5. Holders(regs, th) \subseteq Region
  BY <1>0, <1>4, HoldersTyped, ListFacts
<1>6. \A r \in Holders(regs, th) : Ends(n, r) = Ends(th, r)
  BY <1>3, <1>5, RegionTypes
<1> HIDE DEF C, n
<1>7. ArenaTyped(h, c, a, u, n, regs, w)
  BY <1>1 DEF Good, ArenaTyped
<1>8. BlocksKept(h, C, n)
  <2>1. BlocksKept(h, C, th)
    BY DEF Good, C
  <2>2. \A v \in Threads : n[v].at = "publish" <=> th[v].at = "publish"
    BY <1>1 DEF Loud
  <2>3. \A v \in Threads : th[v].at = "publish" => n[v] = th[v]
    BY <1>1 DEF Loud
  <2> QED BY <2>1, <2>2, <2>3 DEF BlocksKept
<1>9. Locals(h, C, regs, w, n)
  <2>1. Local(h, C, regs, w[t], t, n[t])
    BY <1>1 DEF C
  <2> QED BY <1>1, <1>4, <2>1 DEF Locals
<1>10. HeldBelow(h, C, regs, n)
  BY <1>3, <1>6 DEF HeldBelow, Good, C
<1>11. HeldApart(regs, n)
  BY <1>3, <1>6 DEF HeldApart, Good
<1>12. PendHeld(h, n) = PendHeld(h, th)
  BY <1>1 DEF PendHeld, Loud
<1>13. Counted(h, C, n, a) /\ Tallied(h, C, n, u)
  BY <1>3, <1>12 DEF Counted, Tallied, Good, C
<1> QED BY <1>4, <1>7, <1>8, <1>9, <1>10, <1>11, <1>13 DEF Good, C, n

\* What a thread relies on outlives the steps of the others.
LEMMA LocalKept ==
    ASSUME NEW h, NEW g, NEW C, NEW B, NEW regs, NEW more, NEW y, NEW t, NEW x,
           Local(h, C, regs, y, t, x), C \subseteq B, \A b \in C : g[b].capacity = h[b].capacity,
           x # Idle /\ x.what = "realloc" => x.region \in more,
           x # Idle /\ x.at = "publish" => g[x.new] = h[x.new] /\ x.new \in Allocated(g) /\ x.new \notin B
    PROVE  Local(g, B, more, y, t, x)
<1>1. x.at = "claim" => x.at \in InBlock
  BY DEF InBlock
<1>2. x.at = "stretch" => x.at \in InBlock
  BY DEF InBlock
<1> QED BY <1>1, <1>2 DEF Local

\* The same list with other blocks off it.
LEMMA OffTheList ==
    ASSUME NEW h, NEW g, NEW C, \A b \in C : g[b] = h[b]
    PROVE  HeldIn(g, C) = HeldIn(h, C) /\ UsedIn(g, C) = UsedIn(h, C)
BY DEF HeldIn, UsedIn

\* bebop_wire_arena_allocate_block: the block is the thread's own.
LEMMA AllocateStep ==
    ASSUME NEW h, NEW c, NEW a, NEW u, NEW th, NEW regs, NEW w, Good(h, c, a, u, th, regs, w),
           NEW t \in Threads, th[t].at = "grow", NEW b \in BlockIds, h[b] = NoBlock,
           NEW z \in WireBlock, z.next = th[t].cur, z.used = 0,
           NEW d \in Call, d.at = "publish", d.new = b, d.cur = th[t].cur, d.what = th[t].what,
           d.region = th[t].region, d.size = th[t].size
    PROVE  Good([h EXCEPT ![b] = z], c, a, u, Moved(th, t, d), regs, w)
<1> DEFINE C == ChainOf(h, c)
           n == Moved(th, t, d)
           g == [h EXCEPT ![b] = z]
<1>0. /\ h \in [BlockIds -> WireBlock \cup {NoBlock}] /\ th \in [Threads -> Call \cup {Idle}]
      /\ regs \subseteq Region /\ NoDangling(h, c) /\ Locals(h, C, regs, w, th) /\ WritersOwn(regs, w)
  BY DEF Good, ArenaTyped
<1>1. n \in [Threads -> Call \cup {Idle}] /\ n[t] = d /\ \A v \in Threads : v # t => n[v] = th[v]
  BY <1>0, MovedIs
<1>2. th[t].at \notin Holding /\ d.at \notin Holding /\ d \in Call \cup {Idle}
  BY DEF Holding
<1>3. /\ Holders(regs, n) = Holders(regs, th) /\ PendUsed(n) = PendUsed(th)
      /\ \A r : r.owner \in Threads => Ends(n, r) = Ends(th, r)
  BY <1>0, <1>2, HeldSame
<1>4. C \subseteq Allocated(h) /\ C \subseteq BlockIds
  BY <1>0, ListFacts
<1>5. Holders(regs, th) \subseteq Region
  BY <1>0, <1>4, HoldersTyped
<1>6. \A r \in Holders(regs, th) : Ends(n, r) = Ends(th, r)
  BY <1>3, <1>5, RegionTypes
<1>7. g \in [BlockIds -> WireBlock \cup {NoBlock}] /\ g[b] = z /\ \A e \in BlockIds : e # b => g[e] = h[e]
  BY <1>0
<1>8. b \notin Allocated(h) /\ b \notin C
  BY <1>4 DEF Allocated
<1> HIDE DEF C, n, g
<1>9. Allocated(g) = Allocated(h) \cup {b}
  BY <1>7, NotRecords DEF Allocated
<1>10. \A e \in Allocated(h) : g[e] = h[e]
  BY <1>7, <1>8 DEF Allocated
<1>11. th[t] # Idle
  BY DEF Idle
<1>12. Local(h, C, regs, w[t], t, th[t])
  BY <1>0 DEF Locals
<1>13. th[t].cur \in C \cup {NoBlock}
  BY <1>11, <1>12 DEF Local
<1>14. NoDangling(g, c)
  <2>1. Start(c) \subseteq Allocated(g)
    BY <1>0, <1>9 DEF NoDangling
  <2>2. \A e \in Allocated(h) : g[e].next \in Allocated(g) \cup {NoBlock}
    BY <1>0, <1>9, <1>10 DEF NoDangling
  <2>3. g[b].next \in Allocated(g) \cup {NoBlock}
    BY <1>4, <1>7, <1>9, <1>13
  <2> QED BY <1>9, <2>1, <2>2, <2>3 DEF NoDangling
<1>15. ChainOf(g, c) = C
  <2>1. \A e \in C : g[e].next = h[e].next
    BY <1>4, <1>10
  <2> QED BY <1>0, <1>14, <2>1, ChainKept DEF C
<1>16. ArenaTyped(g, c, a, u, n, regs, w)
  BY <1>1, <1>7 DEF Good, ArenaTyped
<1>17. BlocksKept(h, C, th)
  BY DEF Good, C
<1>18. \A v \in Threads : v # t => (th[v].at = "publish" => th[v].new # b)
  <2>1. ASSUME NEW v \in Threads, th[v].at = "publish" PROVE th[v].new \in Allocated(h)
    <3>1. th[v] # Idle
      BY <2>1 DEF Idle
    <3> QED BY <1>0, <2>1, <3>1 DEF Locals, Local
  <2> QED BY <1>8, <2>1
<1>19. BlocksKept(g, C, n)
  <2>1. ASSUME NEW e \in Allocated(g) PROVE g[e].used <= g[e].capacity
    <3>1. CASE e = b
      <4>1. z.capacity \in Nat
        BY DEF WireBlock
      <4> QED BY <1>7, <3>1, <4>1
    <3>2. CASE e # b
      BY <1>9, <1>10, <1>17, <3>2 DEF BlocksKept
    <3> QED BY <3>1, <3>2
  <2>2. ASSUME NEW e \in Allocated(g), e \notin C
        PROVE  \E v \in Threads : n[v].at = "publish" /\ n[v].new = e
    <3>1. CASE e = b
      BY <1>1, <3>1
    <3>2. CASE e # b
      <4>1. PICK v \in Threads : th[v].at = "publish" /\ th[v].new = e
        BY <1>9, <1>17, <2>2, <3>2 DEF BlocksKept
      <4>2. v # t
        BY <4>1
      <4> QED BY <1>1, <4>1, <4>2
    <3> QED BY <3>1, <3>2
  <2>3. ASSUME NEW v \in Threads, NEW s \in Threads, n[v].at = "publish", n[s].at = "publish", n[v].new = n[s].new
        PROVE  v = s
    <3>1. CASE v = t
      BY <1>1, <1>18, <2>3, <3>1
    <3>2. CASE s = t
      BY <1>1, <1>18, <2>3, <3>2
    <3>3. CASE v # t /\ s # t
      BY <1>1, <1>17, <2>3, <3>3 DEF BlocksKept
    <3> QED BY <3>1, <3>2, <3>3
  <2> QED BY <2>1, <2>2, <2>3 DEF BlocksKept
<1>20. Locals(g, C, regs, w, n)
  <2>1. ASSUME NEW v \in Threads, v # t PROVE Local(g, C, regs, w[v], v, n[v])
    <3>1. Local(h, C, regs, w[v], v, th[v])
      BY <1>0 DEF Locals
    <3>2. \A e \in C : g[e].capacity = h[e].capacity
      BY <1>4, <1>10
    <3>3. th[v] # Idle /\ th[v].what = "realloc" => th[v].region \in regs
      BY <3>1 DEF Local
    <3>4. th[v] # Idle /\ th[v].at = "publish" =>
             g[th[v].new] = h[th[v].new] /\ th[v].new \in Allocated(g) /\ th[v].new \notin C
      BY <1>9, <1>10, <3>1 DEF Local
    <3>5. Local(g, C, regs, w[v], v, th[v])
      BY <3>1, <3>2, <3>3, <3>4, LocalKept
    <3> QED BY <1>1, <2>1, <3>5
  <2>2. Local(g, C, regs, w[t], t, d)
    BY <1>7, <1>8, <1>9, <1>11, <1>12, <1>13 DEF Local, OfRealloc, InBlock
  <2> QED BY <1>1, <2>1, <2>2 DEF Locals
<1>21. HeldBelow(g, C, regs, n)
  <2>1. HeldBelow(h, C, regs, th)
    BY DEF Good, C
  <2> QED BY <1>3, <1>4, <1>6, <1>10, <2>1 DEF HeldBelow
<1>22. HeldApart(regs, n)
  BY <1>3, <1>6 DEF HeldApart, Good
<1>23. PendHeld(g, n) = PendHeld(h, th)
  <2>1. ASSUME NEW v \in Threads
        PROVE  (IF n[v].at = "count" THEN HeaderSize + g[n[v].cur].capacity ELSE 0)
                 = (IF th[v].at = "count" THEN HeaderSize + h[th[v].cur].capacity ELSE 0)
    <3>1. CASE v = t
      BY <1>1, <3>1
    <3>2. CASE v # t /\ th[v].at = "count"
      <4>1. th[v] # Idle
        BY <3>2 DEF Idle
      <4>2. th[v].cur \in C
        BY <1>0, <3>2, <4>1 DEF Locals, Local, InBlock
      <4>3. g[th[v].cur] = h[th[v].cur]
        BY <1>4, <1>10, <4>2
      <4> QED BY <1>1, <3>2, <4>3
    <3>3. CASE v # t /\ th[v].at # "count"
      BY <1>1, <3>3
    <3> QED BY <3>1, <3>2, <3>3
  <2> QED BY <2>1 DEF PendHeld
<1>24. HeldIn(g, C) = HeldIn(h, C) /\ UsedIn(g, C) = UsedIn(h, C)
  BY <1>4, <1>10, OffTheList
<1>25. Counted(g, C, n, a) /\ Tallied(g, C, n, u)
  BY <1>3, <1>23, <1>24 DEF Counted, Tallied, Good, C
<1> QED BY <1>0, <1>14, <1>15, <1>16, <1>19, <1>20, <1>21, <1>22, <1>25 DEF Good, g, n

\* The swap fails and the block is freed: nothing leads to it.
LEMMA PublishFailsStep ==
    ASSUME NEW h, NEW c, NEW a, NEW u, NEW th, NEW regs, NEW w, Good(h, c, a, u, th, regs, w),
           NEW t \in Threads, th[t].at = "publish", NEW b, b = th[t].new,
           NEW d \in Call, d.at = "load", d.what = th[t].what,
           d.region = th[t].region, d.size = th[t].size
    PROVE  Good([h EXCEPT ![b] = NoBlock], c, a, u, Moved(th, t, d), regs, w)
<1> DEFINE C == ChainOf(h, c)
           n == Moved(th, t, d)
           g == [h EXCEPT ![b] = NoBlock]
<1>0. /\ h \in [BlockIds -> WireBlock \cup {NoBlock}] /\ th \in [Threads -> Call \cup {Idle}]
      /\ regs \subseteq Region /\ NoDangling(h, c) /\ Locals(h, C, regs, w, th) /\ WritersOwn(regs, w)
  BY DEF Good, ArenaTyped
<1>1. n \in [Threads -> Call \cup {Idle}] /\ n[t] = d /\ \A v \in Threads : v # t => n[v] = th[v]
  BY <1>0, MovedIs
<1>2. th[t].at \notin Holding /\ d.at \notin Holding /\ d \in Call \cup {Idle}
  BY DEF Holding
<1>3. /\ Holders(regs, n) = Holders(regs, th) /\ PendUsed(n) = PendUsed(th)
      /\ \A r : r.owner \in Threads => Ends(n, r) = Ends(th, r)
  BY <1>0, <1>2, HeldSame
<1>4. C \subseteq Allocated(h) /\ C \subseteq BlockIds
  BY <1>0, ListFacts
<1>5. Holders(regs, th) \subseteq Region
  BY <1>0, <1>4, HoldersTyped
<1>6. \A r \in Holders(regs, th) : Ends(n, r) = Ends(th, r)
  BY <1>3, <1>5, RegionTypes
<1>7. th[t] # Idle
  BY DEF Idle
<1>8. Local(h, C, regs, w[t], t, th[t])
  BY <1>0 DEF Locals
<1>9. b \in Allocated(h) /\ b \notin C /\ b \in BlockIds
  BY <1>7, <1>8 DEF Local, Allocated
<1>10. g \in [BlockIds -> WireBlock \cup {NoBlock}] /\ g[b] = NoBlock /\ \A e \in BlockIds : e # b => g[e] = h[e]
  BY <1>0, <1>9
<1>11. IsChain(C, h, c)
  BY <1>0, ChainIs
<1>12. BlocksKept(h, C, th)
  BY DEF Good
<1> HIDE DEF C, n, g
<1>13. Allocated(g) = Allocated(h) \ {b}
  BY <1>9, <1>10 DEF Allocated
<1>14. \A e \in Allocated(g) : g[e] = h[e]
  BY <1>10, <1>13 DEF Allocated
<1>15. C \subseteq Allocated(g)
  BY <1>4, <1>9, <1>13
<1>16. ASSUME NEW e \in Allocated(g), e \notin C
       PROVE  \E v \in Threads : v # t /\ th[v].at = "publish" /\ th[v].new = e
  BY <1>12, <1>13, <1>16 DEF BlocksKept
<1>17. NoDangling(g, c)
  <2>1. Start(c) \subseteq Allocated(g)
    BY <1>11, <1>15 DEF IsChain
  <2>2. ASSUME NEW e \in C PROVE g[e].next \in Allocated(g) \cup {NoBlock}
    <3>1. h[e].next \in C \cup {NoBlock}
      BY <1>11 DEF IsChain, Spread
    <3> QED BY <1>14, <1>15, <3>1
  <2>3. ASSUME NEW e \in Allocated(g), e \notin C PROVE g[e].next \in Allocated(g) \cup {NoBlock}
    <3>1. PICK v \in Threads : v # t /\ th[v].at = "publish" /\ th[v].new = e
      BY <1>16, <2>3
    <3>2. th[v] # Idle
      BY <3>1 DEF Idle
    <3>3. h[e].next \in C \cup {NoBlock}
      BY <1>0, <3>1, <3>2 DEF Locals, Local
    <3> QED BY <1>14, <1>15, <3>3
  <2> QED BY <2>1, <2>2, <2>3 DEF NoDangling
<1>18. ChainOf(g, c) = C
  <2>1. \A e \in C : g[e].next = h[e].next
    BY <1>14, <1>15
  <2> QED BY <1>0, <1>17, <2>1, ChainKept DEF C
<1>19. ArenaTyped(g, c, a, u, n, regs, w)
  BY <1>1, <1>10 DEF Good, ArenaTyped
<1>20. BlocksKept(g, C, n)
  <2>1. \A e \in Allocated(g) : g[e].used <= g[e].capacity
    BY <1>12, <1>13, <1>14 DEF BlocksKept
  <2>2. \A e \in Allocated(g) : e \notin C => \E v \in Threads : n[v].at = "publish" /\ n[v].new = e
    BY <1>1, <1>16
  <2>3. \A v \in Threads : n[v].at = "publish" => th[v].at = "publish" /\ n[v] = th[v]
    BY <1>1
  <2>4. \A v, s \in Threads : n[v].at = "publish" /\ n[s].at = "publish" /\ n[v].new = n[s].new => v = s
    BY <1>12, <2>3 DEF BlocksKept
  <2> QED BY <2>1, <2>2, <2>4 DEF BlocksKept
<1>21. Locals(g, C, regs, w, n)
  <2>1. ASSUME NEW v \in Threads, v # t PROVE Local(g, C, regs, w[v], v, n[v])
    <3>1. Local(h, C, regs, w[v], v, th[v])
      BY <1>0 DEF Locals
    <3>2. \A e \in C : g[e].capacity = h[e].capacity
      BY <1>14, <1>15
    <3>3. th[v] # Idle /\ th[v].what = "realloc" => th[v].region \in regs
      BY <3>1 DEF Local
    <3>4. ASSUME th[v] # Idle, th[v].at = "publish"
          PROVE  g[th[v].new] = h[th[v].new] /\ th[v].new \in Allocated(g) /\ th[v].new \notin C
      <4>1. th[v].new \in Allocated(h) /\ th[v].new \notin C
        BY <3>1, <3>4 DEF Local
      <4>2. th[v].new # b
        BY <1>12, <2>1, <3>4 DEF BlocksKept
      <4> QED BY <1>13, <1>14, <4>1, <4>2
    <3>5. Local(g, C, regs, w[v], v, th[v])
      BY <3>1, <3>2, <3>3, <3>4, LocalKept
    <3> QED BY <1>1, <2>1, <3>5
  <2>2. Local(g, C, regs, w[t], t, d)
    BY <1>7, <1>8 DEF Local, OfRealloc, InBlock
  <2> QED BY <1>1, <2>1, <2>2 DEF Locals
<1>22. HeldBelow(g, C, regs, n)
  <2>1. HeldBelow(h, C, regs, th)
    BY DEF Good, C
  <2> QED BY <1>3, <1>6, <1>14, <1>15, <2>1 DEF HeldBelow
<1>23. HeldApart(regs, n)
  BY <1>3, <1>6 DEF HeldApart, Good
<1>24. PendHeld(g, n) = PendHeld(h, th)
  <2>1. ASSUME NEW v \in Threads
        PROVE  (IF n[v].at = "count" THEN HeaderSize + g[n[v].cur].capacity ELSE 0)
                 = (IF th[v].at = "count" THEN HeaderSize + h[th[v].cur].capacity ELSE 0)
    <3>1. CASE v = t
      BY <1>1, <3>1
    <3>2. CASE v # t /\ th[v].at = "count"
      <4>1. th[v] # Idle
        BY <3>2 DEF Idle
      <4>2. th[v].cur \in C
        BY <1>0, <3>2, <4>1 DEF Locals, Local, InBlock
      <4>3. g[th[v].cur] = h[th[v].cur]
        BY <1>14, <1>15, <4>2
      <4> QED BY <1>1, <3>2, <4>3
    <3>3. CASE v # t /\ th[v].at # "count"
      BY <1>1, <3>3
    <3> QED BY <3>1, <3>2, <3>3
  <2> QED BY <2>1 DEF PendHeld
<1>25. HeldIn(g, C) = HeldIn(h, C) /\ UsedIn(g, C) = UsedIn(h, C)
  BY <1>14, <1>15, OffTheList
<1>26. Counted(g, C, n, a) /\ Tallied(g, C, n, u)
  BY <1>3, <1>24, <1>25 DEF Counted, Tallied, Good, C
<1> QED BY <1>0, <1>17, <1>18, <1>19, <1>20, <1>21, <1>22, <1>23, <1>26 DEF Good, g, n

-----------------------------------------------------------------------------
\* What one thread's step does to the sums.
OthersStay(th, n, t) == \A v \in Threads : v # t => n[v] = th[v]

\* What is still to be added to total_allocated, when one thread goes on.
LEMMA PendHeldMoves ==
    ASSUME NEW h, NEW th, NEW n, NEW t \in Threads, OthersStay(th, n, t),
           PendHeld(h, th) \in [Threads -> Int], PendHeld(h, n) \in [Threads -> Int]
    PROVE  TotalOf(PendHeld(h, n), Threads) =
             TotalOf(PendHeld(h, th), Threads) - PendHeld(h, th)[t] + PendHeld(h, n)[t]
<1> DEFINE f == PendHeld(h, th)
           g == PendHeld(h, n)
<1>1. AgreesBut(f, g, Threads, t)
  BY DEF AgreesBut, PendHeld, OthersStay
<1>2. f \in [Threads -> Int] /\ g \in [Threads -> Int] /\ IsFiniteSet(Threads)
  BY WireArenaAssumption
<1> HIDE DEF f, g
<1>3. TotalOf(g, Threads) = TotalOf(f, Threads) - f[t] + g[t]
  BY <1>1, <1>2, TotalChange
<1> QED BY <1>3 DEF f, g

\* What is still to be added to total_used, when one thread goes on.
LEMMA PendUsedMoves ==
    ASSUME NEW th, NEW n, NEW t \in Threads, OthersStay(th, n, t),
           PendUsed(th) \in [Threads -> Int], PendUsed(n) \in [Threads -> Int]
    PROVE  /\ TotalOf(PendUsed(n), Threads) = TotalOf(PendUsed(th), Threads) - Owed(th[t]) + Owed(n[t])
           /\ Owed(th[t]) \in Int /\ Owed(n[t]) \in Int
<1> DEFINE f == PendUsed(th)
           g == PendUsed(n)
<1>1. AgreesBut(f, g, Threads, t)
  BY DEF AgreesBut, PendUsed, OthersStay
<1>2. f \in [Threads -> Int] /\ g \in [Threads -> Int] /\ IsFiniteSet(Threads)
  BY WireArenaAssumption
<1>3. f[t] = Owed(th[t]) /\ g[t] = Owed(n[t])
  BY DEF PendUsed
<1> HIDE DEF f, g
<1>4. TotalOf(g, Threads) = TotalOf(f, Threads) - f[t] + g[t] /\ f[t] \in Int /\ g[t] \in Int
  BY <1>1, <1>2, TotalChange
<1> QED BY <1>3, <1>4 DEF f, g

\* The totals are integers.
LEMMA TotalsTyped ==
    ASSUME NEW h \in [BlockIds -> WireBlock \cup {NoBlock}], NEW c, NoDangling(h, c),
           NEW th \in [Threads -> Call \cup {Idle}], NEW regs, regs \subseteq Region, NEW w,
           Locals(h, ChainOf(h, c), regs, w, th)
    PROVE  /\ TotalOf(HeldIn(h, ChainOf(h, c)), ChainOf(h, c)) \in Int
           /\ TotalOf(UsedIn(h, ChainOf(h, c)), ChainOf(h, c)) \in Int
           /\ TotalOf(PendHeld(h, th), Threads) \in Int /\ TotalOf(PendUsed(th), Threads) \in Int
<1> DEFINE C == ChainOf(h, c)
<1>1. IsFiniteSet(C) /\ \A b \in C : h[b].used \in Nat /\ h[b].capacity \in Nat
  BY ListFacts
<1>2. PendHeld(h, th) \in [Threads -> Int] /\ PendUsed(th) \in [Threads -> Int] /\ IsFiniteSet(Threads)
  BY PendTypes, WireArenaAssumption
<1> HIDE DEF C
<1>3. HeldIn(h, C) \in [C -> Int] /\ UsedIn(h, C) \in [C -> Int]
  BY <1>1, SumsAre
<1>4. TotalOf(HeldIn(h, C), C) \in Int /\ TotalOf(UsedIn(h, C), C) \in Int
  BY <1>1, <1>3, TotalIs
<1>5. TotalOf(PendHeld(h, th), Threads) \in Int /\ TotalOf(PendUsed(th), Threads) \in Int
  BY <1>2, TotalIs
<1> QED BY <1>4, <1>5 DEF C

\* The swap publishes the block.
LEMMA PublishStep ==
    ASSUME NEW h, NEW c, NEW a, NEW u, NEW th, NEW regs, NEW w, Good(h, c, a, u, th, regs, w),
           NEW t \in Threads, th[t].at = "publish", c = th[t].cur, NEW b, b = th[t].new,
           NEW d \in Call, d.at = "count", d.cur = b, d.what = th[t].what,
           d.region = th[t].region, d.size = th[t].size
    PROVE  Good(h, b, a, u, Moved(th, t, d), regs, w)
<1> DEFINE C == ChainOf(h, c)
           B == ChainOf(h, b)
           n == Moved(th, t, d)
<1>0. /\ h \in [BlockIds -> WireBlock \cup {NoBlock}] /\ th \in [Threads -> Call \cup {Idle}]
      /\ regs \subseteq Region /\ NoDangling(h, c) /\ Locals(h, C, regs, w, th) /\ WritersOwn(regs, w)
  BY DEF Good, ArenaTyped
<1>1. n \in [Threads -> Call \cup {Idle}] /\ n[t] = d /\ \A v \in Threads : v # t => n[v] = th[v]
  BY <1>0, MovedIs
<1>2. th[t].at \notin Holding /\ d.at \notin Holding /\ d \in Call \cup {Idle}
  BY DEF Holding
<1>3. /\ Holders(regs, n) = Holders(regs, th) /\ PendUsed(n) = PendUsed(th)
      /\ \A r : r.owner \in Threads => Ends(n, r) = Ends(th, r)
  BY <1>0, <1>2, HeldSame
<1>4. C \subseteq Allocated(h) /\ C \subseteq BlockIds /\ IsFiniteSet(C)
  BY <1>0, ListFacts
<1>5. Holders(regs, th) \subseteq Region
  BY <1>0, <1>4, HoldersTyped
<1>6. \A r \in Holders(regs, th) : Ends(n, r) = Ends(th, r)
  BY <1>3, <1>5, RegionTypes
<1>7. th[t] # Idle
  BY DEF Idle
<1>8. Local(h, C, regs, w[t], t, th[t])
  BY <1>0 DEF Locals
<1>9. b \in Allocated(h) /\ b \notin C /\ b \in BlockIds /\ h[b].next = c /\ h[b].used = 0
  BY <1>7, <1>8 DEF Local, Allocated
<1>10. B = C \cup {b} /\ NoDangling(h, b)
  BY <1>0, <1>9, ChainLonger
<1>11. BlocksKept(h, C, th)
  BY DEF Good
<1> HIDE DEF C, B, n
<1>12. ArenaTyped(h, b, a, u, n, regs, w)
  BY <1>1, <1>9 DEF Good, ArenaTyped
<1>13. BlocksKept(h, B, n)
  <2>1. ASSUME NEW e \in Allocated(h), e \notin B
        PROVE  \E v \in Threads : n[v].at = "publish" /\ n[v].new = e
    <3>1. e \notin C /\ e # b
      BY <1>10, <2>1
    <3>2. PICK v \in Threads : th[v].at = "publish" /\ th[v].new = e
      BY <1>11, <3>1 DEF BlocksKept
    <3>3. v # t
      BY <3>1, <3>2
    <3> QED BY <1>1, <3>2, <3>3
  <2>2. \A v \in Threads : n[v].at = "publish" => th[v].at = "publish" /\ n[v] = th[v]
    BY <1>1
  <2>3. \A v, s \in Threads : n[v].at = "publish" /\ n[s].at = "publish" /\ n[v].new = n[s].new => v = s
    BY <1>11, <2>2 DEF BlocksKept
  <2> QED BY <1>11, <2>1, <2>3 DEF BlocksKept
<1>14. Locals(h, B, regs, w, n)
  <2>1. ASSUME NEW v \in Threads, v # t PROVE Local(h, B, regs, w[v], v, n[v])
    <3>1. Local(h, C, regs, w[v], v, th[v])
      BY <1>0 DEF Locals
    <3>2. th[v] # Idle /\ th[v].what = "realloc" => th[v].region \in regs
      BY <3>1 DEF Local
    <3>3. ASSUME th[v] # Idle, th[v].at = "publish"
          PROVE  h[th[v].new] = h[th[v].new] /\ th[v].new \in Allocated(h) /\ th[v].new \notin B
      <4>1. th[v].new \in Allocated(h) /\ th[v].new \notin C
        BY <3>1, <3>3 DEF Local
      <4>2. th[v].new # b
        BY <1>11, <2>1, <3>3 DEF BlocksKept
      <4> QED BY <1>10, <4>1, <4>2
    <3>4. C \subseteq B /\ \A e \in C : h[e].capacity = h[e].capacity
      BY <1>10
    <3>5. Local(h, B, regs, w[v], v, th[v])
      BY <3>1, <3>2, <3>3, <3>4, LocalKept
    <3> QED BY <1>1, <2>1, <3>5
  <2>2. Local(h, B, regs, w[t], t, d)
    BY <1>7, <1>8, <1>10 DEF Local, OfRealloc
  <2> QED BY <1>1, <2>1, <2>2 DEF Locals
<1>15. HeldBelow(h, B, regs, n)
  <2>1. HeldBelow(h, C, regs, th)
    BY DEF Good, C
  <2> QED BY <1>3, <1>6, <1>10, <2>1 DEF HeldBelow
<1>16. HeldApart(regs, n)
  BY <1>3, <1>6 DEF HeldApart, Good
<1>17. IsFiniteSet(B) /\ \A e \in B : h[e].used \in Nat /\ h[e].capacity \in Nat
  BY <1>0, <1>10, ListFacts DEF B
<1>18. IsFiniteSet(C) /\ \A e \in C : h[e].used \in Nat /\ h[e].capacity \in Nat
  BY <1>0, ListFacts DEF C
<1>19. /\ HeldIn(h, C) \in [C -> Int] /\ UsedIn(h, C) \in [C -> Int]
       /\ HeldIn(h, B) \in [B -> Int] /\ UsedIn(h, B) \in [B -> Int]
  BY <1>17, <1>18, SumsAre
<1> DEFINE k == HeaderSize + h[b].capacity
<1>20. TotalOf(HeldIn(h, B), B) = TotalOf(HeldIn(h, C), C) + k
  <2>1. \A e \in C : HeldIn(h, B)[e] = HeldIn(h, C)[e]
    BY <1>10 DEF HeldIn
  <2>2. HeldIn(h, B)[b] = k
    BY <1>10 DEF HeldIn
  <2>3. HeldIn(h, B) \in [C \cup {b} -> Int]
    BY <1>10, <1>19
  <2>4. TotalOf(HeldIn(h, B), C \cup {b}) = TotalOf(HeldIn(h, C), C) + HeldIn(h, B)[b]
    <3> DEFINE f == HeldIn(h, C)
               g == HeldIn(h, B)
    <3>1. /\ f \in [C -> Int] /\ g \in [C \cup {b} -> Int] /\ IsFiniteSet(C) /\ b \notin C
          /\ SameOn(f, g, C)
      BY <1>9, <1>18, <1>19, <2>1, <2>3 DEF SameOn
    <3> HIDE DEF f, g
    <3>2. TotalOf(g, C \cup {b}) = TotalOf(f, C) + g[b]
      BY <3>1, TotalAdd
    <3> QED BY <3>2 DEF f, g
  <2> QED BY <1>10, <2>2, <2>4
<1>21. TotalOf(UsedIn(h, B), B) = TotalOf(UsedIn(h, C), C) + 0
  <2>1. \A e \in C : UsedIn(h, B)[e] = UsedIn(h, C)[e]
    BY <1>10 DEF UsedIn
  <2>2. UsedIn(h, B)[b] = 0
    BY <1>9, <1>10 DEF UsedIn
  <2>3. UsedIn(h, B) \in [C \cup {b} -> Int]
    BY <1>10, <1>19
  <2>4. TotalOf(UsedIn(h, B), C \cup {b}) = TotalOf(UsedIn(h, C), C) + UsedIn(h, B)[b]
    <3> DEFINE f == UsedIn(h, C)
               g == UsedIn(h, B)
    <3>1. /\ f \in [C -> Int] /\ g \in [C \cup {b} -> Int] /\ IsFiniteSet(C) /\ b \notin C
          /\ SameOn(f, g, C)
      BY <1>9, <1>18, <1>19, <2>1, <2>3 DEF SameOn
    <3> HIDE DEF f, g
    <3>2. TotalOf(g, C \cup {b}) = TotalOf(f, C) + g[b]
      BY <3>1, TotalAdd
    <3> QED BY <3>2 DEF f, g
  <2> QED BY <1>10, <2>2, <2>4
<1>22. PendHeld(h, th) \in [Threads -> Int] /\ PendHeld(h, n) \in [Threads -> Int]
  <2>1. PendHeld(h, th) \in [Threads -> Int]
    BY <1>0, PendTypes DEF C
  <2>2. PendHeld(h, n) \in [Threads -> Int]
    BY <1>0, <1>1, <1>10, <1>14, PendTypes DEF B
  <2> QED BY <2>1, <2>2
<1>23. PendHeld(h, th)[t] = 0 /\ PendHeld(h, n)[t] = k
  BY <1>1 DEF PendHeld
<1>24. TotalOf(PendHeld(h, n), Threads) = TotalOf(PendHeld(h, th), Threads) - 0 + k
  <2>1. TotalOf(PendHeld(h, n), Threads) =
             TotalOf(PendHeld(h, th), Threads) - PendHeld(h, th)[t] + PendHeld(h, n)[t]
    <3>1. OthersStay(th, n, t)
      BY <1>1 DEF OthersStay
    <3> QED BY <1>22, <3>1, PendHeldMoves
  <2> QED BY <1>23, <2>1
<1>25. /\ TotalOf(HeldIn(h, C), C) \in Int /\ TotalOf(UsedIn(h, C), C) \in Int
       /\ TotalOf(PendHeld(h, th), Threads) \in Int
  BY <1>0, TotalsTyped DEF C
<1>26. k \in Int
  BY <1>10, <1>17, WireArenaAssumption
<1>27. Counted(h, C, th, a) /\ Tallied(h, C, th, u)
  BY DEF Good, C
<1> HIDE DEF k
<1>28. Counted(h, B, n, a)
  BY <1>20, <1>24, <1>25, <1>26, <1>27 DEF Counted
<1>29. Tallied(h, B, n, u)
  BY <1>3, <1>21, <1>25, <1>27 DEF Tallied
<1> QED BY <1>0, <1>10, <1>12, <1>13, <1>14, <1>15, <1>16, <1>28, <1>29 DEF Good, B, n

\* total_allocated gets the size of the block.
LEMMA CountStep ==
    ASSUME NEW h, NEW c, NEW a, NEW u, NEW th, NEW regs, NEW w, Good(h, c, a, u, th, regs, w),
           NEW t \in Threads, th[t].at = "count",
           NEW d \in Call, d.at = "use", d.cur = th[t].cur, d.what = th[t].what,
           d.region = th[t].region, d.size = th[t].size
    PROVE  Good(h, c, a + HeaderSize + h[th[t].cur].capacity, u, Moved(th, t, d), regs, w)
<1> DEFINE C == ChainOf(h, c)
           n == Moved(th, t, d)
           k == HeaderSize + h[th[t].cur].capacity
           p == a + HeaderSize + h[th[t].cur].capacity
<1>0. /\ h \in [BlockIds -> WireBlock \cup {NoBlock}] /\ th \in [Threads -> Call \cup {Idle}]
      /\ regs \subseteq Region /\ NoDangling(h, c) /\ Locals(h, C, regs, w, th) /\ WritersOwn(regs, w)
      /\ a \in Int
  BY DEF Good, ArenaTyped
<1>1. n \in [Threads -> Call \cup {Idle}] /\ n[t] = d /\ \A v \in Threads : v # t => n[v] = th[v]
  BY <1>0, MovedIs
<1>2. th[t].at \notin Holding /\ d.at \notin Holding /\ d \in Call \cup {Idle}
  BY DEF Holding
<1>3. /\ Holders(regs, n) = Holders(regs, th) /\ PendUsed(n) = PendUsed(th)
      /\ \A r : r.owner \in Threads => Ends(n, r) = Ends(th, r)
  BY <1>0, <1>2, HeldSame
<1>4. C \subseteq Allocated(h) /\ C \subseteq BlockIds
  BY <1>0, ListFacts
<1>5. Holders(regs, th) \subseteq Region
  BY <1>0, <1>4, HoldersTyped
<1>6. \A r \in Holders(regs, th) : Ends(n, r) = Ends(th, r)
  BY <1>3, <1>5, RegionTypes
<1>7. th[t] # Idle
  BY DEF Idle
<1>8. Local(h, C, regs, w[t], t, th[t])
  BY <1>0 DEF Locals
<1>9. th[t].cur \in C
  BY <1>7, <1>8 DEF Local, InBlock
<1>10. k \in Int /\ p = a + k
  <2>1. h[th[t].cur].capacity \in Nat /\ HeaderSize \in Nat
    BY <1>0, <1>9, ListFacts, WireArenaAssumption
  <2> QED BY <1>0, <2>1
<1> HIDE DEF C, n, p, k
<1>11. ArenaTyped(h, c, p, u, n, regs, w)
  <2>1. p \in Int
    BY <1>0, <1>10
  <2> QED BY <1>1, <2>1 DEF Good, ArenaTyped
<1>12. BlocksKept(h, C, n)
  <2>1. BlocksKept(h, C, th)
    BY DEF Good, C
  <2>2. \A v \in Threads : n[v].at = "publish" <=> th[v].at = "publish"
    BY <1>1
  <2>3. \A v \in Threads : th[v].at = "publish" => n[v] = th[v]
    BY <1>1
  <2> QED BY <2>1, <2>2, <2>3 DEF BlocksKept
<1>13. Locals(h, C, regs, w, n)
  <2>1. Local(h, C, regs, w[t], t, d)
    BY <1>7, <1>8, <1>9 DEF Local, OfRealloc
  <2> QED BY <1>0, <1>1, <2>1 DEF Locals
<1>14. HeldBelow(h, C, regs, n)
  BY <1>3, <1>6 DEF HeldBelow, Good, C
<1>15. HeldApart(regs, n)
  BY <1>3, <1>6 DEF HeldApart, Good
<1>16. PendHeld(h, th) \in [Threads -> Int] /\ PendHeld(h, n) \in [Threads -> Int]
  BY <1>0, <1>1, <1>13, PendTypes DEF C
<1>17. PendHeld(h, th)[t] = k /\ PendHeld(h, n)[t] = 0
  BY <1>1 DEF PendHeld, k
<1>18. TotalOf(PendHeld(h, n), Threads) = TotalOf(PendHeld(h, th), Threads) - k + 0
  <2>1. TotalOf(PendHeld(h, n), Threads) =
             TotalOf(PendHeld(h, th), Threads) - PendHeld(h, th)[t] + PendHeld(h, n)[t]
    <3>1. OthersStay(th, n, t)
      BY <1>1 DEF OthersStay
    <3> QED BY <1>16, <3>1, PendHeldMoves
  <2> QED BY <1>17, <2>1
<1>19. TotalOf(HeldIn(h, C), C) \in Int /\ TotalOf(PendHeld(h, th), Threads) \in Int
  BY <1>0, TotalsTyped DEF C
<1>20. Counted(h, C, th, a) /\ Tallied(h, C, th, u)
  BY DEF Good, C
<1>21. Counted(h, C, n, p)
  BY <1>10, <1>18, <1>19, <1>20 DEF Counted
<1>22. Tallied(h, C, n, u)
  BY <1>3, <1>20 DEF Tallied
<1> QED BY <1>0, <1>11, <1>12, <1>13, <1>14, <1>15, <1>21, <1>22 DEF Good, C, n, p

-----------------------------------------------------------------------------
\* Steps that move the mark of a block on the list.
MarkMoved(h, g, c, k, z) ==
    /\ g \in [BlockIds -> WireBlock \cup {NoBlock}] /\ g[k] = z
    /\ \A e \in BlockIds : e # k => g[e] = h[e]
    /\ Allocated(g) = Allocated(h) /\ NoDangling(g, c) /\ ChainOf(g, c) = ChainOf(h, c)
    /\ HeldIn(g, ChainOf(h, c)) = HeldIn(h, ChainOf(h, c))
    /\ TotalOf(UsedIn(g, ChainOf(h, c)), ChainOf(h, c)) =
         TotalOf(UsedIn(h, ChainOf(h, c)), ChainOf(h, c)) - h[k].used + z.used

\* The list stays, and the sum of the marks follows the mark.
LEMMA MarkMoves ==
    ASSUME NEW h \in [BlockIds -> WireBlock \cup {NoBlock}], NEW c, NoDangling(h, c), NEW k \in ChainOf(h, c),
           NEW z \in WireBlock, z.next = h[k].next, z.capacity = h[k].capacity
    PROVE  MarkMoved(h, [h EXCEPT ![k] = z], c, k, z)
<1> DEFINE C == ChainOf(h, c)
           g == [h EXCEPT ![k] = z]
<1>1. C \subseteq Allocated(h) /\ C \subseteq BlockIds /\ IsFiniteSet(C)
      /\ \A b \in C : h[b].used \in Nat /\ h[b].capacity \in Nat
  BY ListFacts
<1>2. g \in [BlockIds -> WireBlock \cup {NoBlock}] /\ g[k] = z /\ \A e \in BlockIds : e # k => g[e] = h[e]
  BY <1>1
<1> HIDE DEF g
<1>3. k \in Allocated(h) /\ k \in BlockIds
  BY <1>1
<1>4. Allocated(g) = Allocated(h)
  BY <1>2, <1>3, NotRecords DEF Allocated
<1>5. \A e \in Allocated(h) : g[e].next = h[e].next /\ g[e].capacity = h[e].capacity
  BY <1>2 DEF Allocated
<1>6. NoDangling(g, c)
  BY <1>4, <1>5 DEF NoDangling
<1>7. ChainOf(g, c) = C
  BY <1>1, <1>5, <1>6, ChainKept
<1> HIDE DEF C
<1>8. HeldIn(g, C) = HeldIn(h, C)
  BY <1>1, <1>5 DEF HeldIn
<1>9. z.used \in Nat /\ z.capacity \in Nat
  BY DEF WireBlock
<1>10. \A b \in C : g[b].used \in Nat /\ g[b].capacity \in Nat
  BY <1>1, <1>2, <1>9
<1> DEFINE f == UsedIn(h, C)
           q == UsedIn(g, C)
<1>11. f \in [C -> Int] /\ q \in [C -> Int]
  BY <1>1, <1>10, SumsAre
<1>12. k \in C
  BY DEF C
<1>13. f[k] = h[k].used /\ q[k] = z.used /\ AgreesBut(f, q, C, k)
  BY <1>1, <1>2, <1>12 DEF UsedIn, AgreesBut
<1> HIDE DEF f, q
<1>14. TotalOf(q, C) = TotalOf(f, C) - f[k] + q[k]
  BY <1>1, <1>11, <1>12, <1>13, TotalChange
<1>15. TotalOf(q, C) = TotalOf(f, C) - h[k].used + z.used
  BY <1>13, <1>14
<1>16. MarkMoved(h, g, c, k, z)
  BY <1>2, <1>4, <1>6, <1>7, <1>8, <1>15 DEF C, f, q, MarkMoved
<1> QED BY <1>16 DEF g

\* The end of a region changes only when its owner stretches it.
LEMMA EndsSame ==
    ASSUME NEW th \in [Threads -> Call \cup {Idle}], NEW t \in Threads, NEW d \in Call \cup {Idle},
           NEW r \in Region, ~ Stretching(th, r) \/ r.owner # t, ~ Stretching(Moved(th, t, d), r) \/ r.owner # t
    PROVE  Ends(Moved(th, t, d), r) = Ends(th, r)
<1> DEFINE n == Moved(th, t, d)
<1>1. n[t] = d /\ \A v \in Threads : v # t => n[v] = th[v]
  BY MovedIs
<1>2. r.owner \in Threads
  BY RegionTypes
<1> HIDE DEF n
<1>3. ~ Stretching(th, r) \/ r.owner # t
  OBVIOUS
<1>4. ~ Stretching(n, r) \/ r.owner # t
  BY DEF n
<1>5. CASE r.owner = t
  BY <1>3, <1>4, <1>5 DEF Ends, n
<1>6. CASE r.owner # t
  <2>1. n[r.owner] = th[r.owner]
    BY <1>1, <1>2, <1>6
  <2>2. Ends(n, r) = Ends(th, r)
    BY <2>1 DEF Ends, Stretching
  <2> QED BY <2>2 DEF n
<1> QED BY <1>5, <1>6

\* The end of a region is a number above its beginning.
LEMMA EndsTyped ==
    ASSUME NEW th \in [Threads -> Call \cup {Idle}], NEW r \in Region
    PROVE  Ends(th, r) \in Nat /\ r.at < Ends(th, r) /\ r.at \in Nat
<1>1. r.at \in Nat /\ r.size \in Nat \ {0} /\ r.owner \in Threads
  BY RegionTypes
<1>2. ASSUME NEW s \in Nat \ {0} PROVE r.at + AlignSize(s) \in Nat /\ r.at < r.at + AlignSize(s)
  <2> DEFINE q == AlignSize(s)
             p == r.at
  <2>1. q \in Nat /\ s <= q /\ p \in Nat
    BY <1>1, AlignFacts
  <2> HIDE DEF q, p
  <2>2. p + q \in Nat /\ p < p + q
    BY <2>1
  <2> QED BY <2>2 DEF p, q
<1>3. CASE Stretching(th, r)
  <2>1. th[r.owner] # Idle
    BY <1>3 DEF Stretching, Idle
  <2>2. th[r.owner].size \in Nat \ {0}
    BY <1>1, <2>1, CallTypes
  <2> QED BY <1>1, <1>2, <1>3, <2>2 DEF Ends
<1>4. CASE ~ Stretching(th, r)
  BY <1>1, <1>2, <1>4 DEF Ends
<1> QED BY <1>3, <1>4

OnlyAt(h, g, k) == \A e \in BlockIds : e # k => g[e] = h[e]

\* The others go on relying on what they relied on when a mark moves.
LEMMA LocalsMoved ==
    ASSUME NEW h, NEW g, NEW C, NEW regs, NEW w, NEW th \in [Threads -> Call \cup {Idle}],
           Locals(h, C, regs, w, th), NEW k \in C, C \subseteq Allocated(h), Allocated(g) = Allocated(h),
           OnlyAt(h, g, k), g[k].capacity = h[k].capacity,
           NEW t \in Threads, NEW d \in Call \cup {Idle}, Local(g, C, regs, w[t], t, d)
    PROVE  Locals(g, C, regs, w, Moved(th, t, d))
<1> DEFINE n == Moved(th, t, d)
<1>1. n[t] = d /\ \A v \in Threads : v # t => n[v] = th[v]
  BY MovedIs
<1>2. \A e \in C : g[e].capacity = h[e].capacity
  BY DEF Allocated, OnlyAt
<1>3. ASSUME NEW v \in Threads, v # t PROVE Local(g, C, regs, w[v], v, th[v])
  <2>1. Local(h, C, regs, w[v], v, th[v])
    BY DEF Locals
  <2>2. th[v] # Idle /\ th[v].what = "realloc" => th[v].region \in regs
    BY <2>1 DEF Local
  <2>3. ASSUME th[v] # Idle, th[v].at = "publish"
        PROVE  g[th[v].new] = h[th[v].new] /\ th[v].new \in Allocated(g) /\ th[v].new \notin C
    <3>1. th[v].new \in Allocated(h) /\ th[v].new \notin C
      BY <2>1, <2>3 DEF Local
    <3>2. th[v].new \in BlockIds /\ th[v].new # k
      BY <3>1 DEF Allocated
    <3> QED BY <3>1, <3>2 DEF OnlyAt
  <2>4. C \subseteq C
    OBVIOUS
  <2> QED BY <1>2, <2>1, <2>2, <2>3, <2>4, LocalKept
<1> HIDE DEF n
<1>4. Locals(g, C, regs, w, n)
  BY <1>1, <1>3 DEF Locals
<1> QED BY <1>4 DEF n

\* What a mark's move leaves of the heap's part.
LEMMA BlocksMoved ==
    ASSUME NEW h, NEW g, NEW C, NEW th \in [Threads -> Call \cup {Idle}], BlocksKept(h, C, th),
           NEW k, Allocated(g) = Allocated(h), OnlyAt(h, g, k),
           g[k].used <= g[k].capacity, NEW t \in Threads, NEW d \in Call \cup {Idle},
           th[t].at # "publish", d.at # "publish"
    PROVE  BlocksKept(g, C, Moved(th, t, d))
<1> DEFINE n == Moved(th, t, d)
<1>1. n[t] = d /\ \A v \in Threads : v # t => n[v] = th[v]
  BY MovedIs
<1> HIDE DEF n
<1>2. \A v \in Threads : n[v].at = "publish" <=> th[v].at = "publish"
  BY <1>1
<1>3. \A v \in Threads : th[v].at = "publish" => n[v] = th[v]
  BY <1>1
<1>4. \A e \in Allocated(g) : g[e].used <= g[e].capacity
  BY DEF BlocksKept, Allocated, OnlyAt
<1>5. BlocksKept(g, C, n)
  BY <1>2, <1>3, <1>4 DEF BlocksKept
<1> QED BY <1>5 DEF n

\* A mark's move leaves what is still to be added to total_allocated.
LEMMA PendHeldMoved ==
    ASSUME NEW h, NEW g, NEW C, NEW regs, NEW w, NEW th \in [Threads -> Call \cup {Idle}],
           Locals(h, C, regs, w, th), \A e \in C : g[e].capacity = h[e].capacity,
           NEW t \in Threads, NEW d \in Call \cup {Idle}, th[t].at # "count", d.at # "count"
    PROVE  PendHeld(g, Moved(th, t, d)) = PendHeld(h, th)
<1> DEFINE n == Moved(th, t, d)
<1>1. n[t] = d /\ \A v \in Threads : v # t => n[v] = th[v]
  BY MovedIs
<1> HIDE DEF n
<1>2. ASSUME NEW v \in Threads
      PROVE  (IF n[v].at = "count" THEN HeaderSize + g[n[v].cur].capacity ELSE 0)
               = (IF th[v].at = "count" THEN HeaderSize + h[th[v].cur].capacity ELSE 0)
  <2>1. CASE v = t
    BY <1>1, <2>1
  <2>2. CASE v # t /\ th[v].at = "count"
    <3>1. th[v] # Idle
      BY <2>2 DEF Idle
    <3>2. th[v].cur \in C
      BY <2>2, <3>1 DEF Locals, Local, InBlock
    <3> QED BY <1>1, <2>2, <3>2
  <2>3. CASE v # t /\ th[v].at # "count"
    BY <1>1, <2>3
  <2> QED BY <2>1, <2>2, <2>3
<1>3. PendHeld(g, n) = PendHeld(h, th)
  BY <1>2 DEF PendHeld
<1> QED BY <1>3 DEF n

\* The swap claims the bytes above the mark.
LEMMA ClaimStep ==
    ASSUME NEW h, NEW c, NEW a, NEW u, NEW th, NEW regs, NEW w, Good(h, c, a, u, th, regs, w),
           NEW t \in Threads, th[t].at = "claim", NEW k, k = th[t].cur, h[k].used = th[t].old,
           NEW z \in WireBlock, z.next = h[k].next, z.capacity = h[k].capacity,
           z.used = h[k].used + AlignSize(th[t].size),
           NEW d \in Call, d.at = "tally", d.cur = th[t].cur, d.what = th[t].what, d.old = th[t].old,
           d.region = th[t].region, d.size = th[t].size
    PROVE  Good([h EXCEPT ![k] = z], c, a, u, Moved(th, t, d), regs, w)
<1> DEFINE C == ChainOf(h, c)
           n == Moved(th, t, d)
           g == [h EXCEPT ![k] = z]
           m == AlignSize(th[t].size)
           q == ClaimOf(d, t)
<1>0. /\ h \in [BlockIds -> WireBlock \cup {NoBlock}] /\ th \in [Threads -> Call \cup {Idle}]
      /\ regs \subseteq Region /\ NoDangling(h, c) /\ Locals(h, C, regs, w, th) /\ WritersOwn(regs, w)
      /\ BlocksKept(h, C, th)
  BY DEF Good, ArenaTyped
<1>1. n \in [Threads -> Call \cup {Idle}] /\ n[t] = d /\ \A v \in Threads : v # t => n[v] = th[v]
  BY <1>0, MovedIs
<1>2. d \in Call \cup {Idle} /\ th[t] # Idle
  BY DEF Idle
<1>3. th[t] \in Call
  BY <1>0, <1>2
<1>4. Local(h, C, regs, w[t], t, th[t])
  BY <1>0 DEF Locals
<1>5. k \in C /\ th[t].old + m <= h[k].capacity
  BY <1>2, <1>4 DEF Local, InBlock
<1>6. /\ C \subseteq Allocated(h) /\ C \subseteq BlockIds
      /\ \A b \in C : h[b].used \in Nat /\ h[b].capacity \in Nat
  BY <1>0, ListFacts
<1>7. m \in Nat
  <2>1. th[t].size \in Nat
    BY <1>3, CallTypes
  <2> QED BY <2>1, AlignFacts
<1>8. /\ g \in [BlockIds -> WireBlock \cup {NoBlock}] /\ g[k] = z
      /\ \A e \in BlockIds : e # k => g[e] = h[e]
      /\ Allocated(g) = Allocated(h) /\ NoDangling(g, c) /\ ChainOf(g, c) = C
      /\ HeldIn(g, C) = HeldIn(h, C)
      /\ TotalOf(UsedIn(g, C), C) = TotalOf(UsedIn(h, C), C) - h[k].used + z.used
  <2>1. k \in ChainOf(h, c)
    BY <1>5
  <2>2. MarkMoved(h, g, c, k, z)
    BY <1>0, <2>1, MarkMoves
  <2> HIDE DEF g
  <2> QED BY <2>2 DEF MarkMoved
<1> HIDE DEF C, n, g, m
<1>9. z.used = h[k].used + m /\ g[k].capacity = h[k].capacity /\ g[k].used = h[k].used + m
  BY <1>8 DEF m
<1>10. ArenaTyped(g, c, a, u, n, regs, w)
  BY <1>1, <1>8 DEF Good, ArenaTyped
<1>11. BlocksKept(g, C, n)
  <2>1. g[k].used <= g[k].capacity
    BY <1>5, <1>9
  <2>2. OnlyAt(h, g, k)
    BY <1>8 DEF OnlyAt
  <2>3. th[t].at # "publish" /\ d.at # "publish"
    OBVIOUS
  <2> QED BY <1>0, <1>2, <1>8, <2>1, <2>2, <2>3, BlocksMoved DEF n
<1>12. Local(g, C, regs, w[t], t, d)
  BY <1>2, <1>4, <1>5 DEF Local, OfRealloc
<1>13. Locals(g, C, regs, w, n)
  <2>1. OnlyAt(h, g, k)
    BY <1>8 DEF OnlyAt
  <2> QED BY <1>0, <1>2, <1>5, <1>6, <1>8, <1>9, <1>12, <2>1, LocalsMoved DEF n
<1>14. Holders(regs, n) = Holders(regs, th) \cup {q}
  <2>1. Claimers(n) = Claimers(th) \cup {t} /\ t \notin Claimers(th)
    BY <1>1 DEF Claimers
  <2>2. \A v \in Claimers(th) : n[v] = th[v]
    BY <1>1, <2>1 DEF Claimers
  <2> QED BY <1>1, <2>1, <2>2 DEF Holders
<1>15. Holders(regs, n) \subseteq Region
  BY <1>0, <1>1, <1>6, <1>13, HoldersTyped
<1>16. ASSUME NEW r \in Region PROVE Ends(n, r) = Ends(th, r)
  <2>1. ~ Stretching(th, r) \/ r.owner # t
    BY DEF Stretching
  <2>2. ~ Stretching(n, r) \/ r.owner # t
    BY <1>1 DEF Stretching
  <2> QED BY <1>0, <1>2, <2>1, <2>2, EndsSame DEF n
<1>17. q.block = k /\ q.at = h[k].used /\ q.owner = t /\ q.size = th[t].size
  BY DEF ClaimOf
<1>18. Ends(n, q) = h[k].used + m
  <2>1. ~ Stretching(n, q)
    BY <1>1, <1>17 DEF Stretching
  <2> QED BY <1>17, <2>1 DEF Ends, m
<1> HIDE DEF q
<1>19. HeldBelow(h, C, regs, th) /\ HeldApart(regs, th)
  BY DEF Good, C
<1>20. \A r \in Holders(regs, th) : Ends(n, r) = Ends(th, r) /\ Ends(n, r) \in Nat
  BY <1>1, <1>14, <1>15, <1>16, EndsTyped
<1>21. HeldBelow(g, C, regs, n)
  <2>1. ASSUME NEW r \in Holders(regs, th) PROVE r.block \in C /\ Ends(n, r) <= g[r.block].used
    <3>1. r.block \in C /\ Ends(n, r) <= h[r.block].used
      BY <1>19, <1>20 DEF HeldBelow
    <3>2. CASE r.block = k
      <4> DEFINE p == h[k].used
                 y == Ends(n, r)
      <4>1. p \in Nat /\ y \in Nat /\ y <= p
        BY <1>5, <1>6, <1>20, <3>1, <3>2
      <4> HIDE DEF p, y
      <4>2. y <= p + m
        BY <1>7, <4>1
      <4> QED BY <1>9, <3>1, <3>2, <4>2 DEF p, y
    <3>3. CASE r.block # k
      <4>1. r.block \in BlockIds
        BY <1>6, <3>1
      <4> QED BY <1>8, <3>1, <3>3, <4>1
    <3> QED BY <3>2, <3>3
  <2>2. q.block \in C /\ Ends(n, q) <= g[q.block].used
    <3> DEFINE p == h[k].used
    <3>1. p \in Nat
      BY <1>5, <1>6
    <3>2. Ends(n, q) = p + m /\ g[q.block].used = p + m
      BY <1>9, <1>17, <1>18
    <3> HIDE DEF p
    <3> QED BY <1>5, <1>7, <1>17, <3>1, <3>2
  <2> QED BY <1>14, <2>1, <2>2 DEF HeldBelow
<1>22. HeldApart(regs, n)
  <2>1. ASSUME NEW r \in Holders(regs, th), r.block = q.block PROVE Ends(n, r) <= q.at
    BY <1>17, <1>19, <1>20, <2>1 DEF HeldBelow
  <2>2. ASSUME NEW r \in Holders(regs, th), NEW s \in Holders(regs, th), r # s, r.block = s.block
        PROVE  Ends(n, r) <= s.at \/ Ends(n, s) <= r.at
    BY <1>19, <1>20, <2>2 DEF HeldApart
  <2> QED BY <1>14, <2>1, <2>2 DEF HeldApart
<1>23. PendHeld(g, n) = PendHeld(h, th)
  <2>1. \A e \in C : g[e].capacity = h[e].capacity
    BY <1>6, <1>8, <1>9
  <2> QED BY <1>0, <1>2, <2>1, PendHeldMoved DEF n
<1>24. Counted(h, C, th, a) /\ Tallied(h, C, th, u)
  BY DEF Good, C
<1>25. Counted(g, C, n, a)
  BY <1>8, <1>23, <1>24 DEF Counted
<1>26. Tallied(g, C, n, u)
  <2>1. PendUsed(th) \in [Threads -> Int]
    BY <1>0, PendTypes DEF C
  <2>2. PendUsed(n) \in [Threads -> Int]
    BY <1>0, <1>1, <1>8, <1>13, PendTypes
  <2>3. Owed(th[t]) = 0 /\ Owed(n[t]) = m
    BY <1>1 DEF Owed, m
  <2>4. TotalOf(PendUsed(n), Threads) = TotalOf(PendUsed(th), Threads) - 0 + m
    <3>1. OthersStay(th, n, t)
      BY <1>1 DEF OthersStay
    <3>2. TotalOf(PendUsed(n), Threads) = TotalOf(PendUsed(th), Threads) - Owed(th[t]) + Owed(n[t])
      BY <2>1, <2>2, <3>1, PendUsedMoves
    <3> QED BY <2>3, <3>2
  <2>5. TotalOf(UsedIn(h, C), C) \in Int /\ TotalOf(PendUsed(th), Threads) \in Int
    BY <1>0, TotalsTyped DEF C
  <2> DEFINE p == h[k].used
             e == TotalOf(UsedIn(h, C), C)
             f == TotalOf(PendUsed(th), Threads)
  <2>6. p \in Nat /\ e \in Int /\ f \in Int
    BY <1>5, <1>6, <2>5
  <2>7. TotalOf(UsedIn(g, C), C) = e - p + (p + m) /\ TotalOf(PendUsed(n), Threads) = f - 0 + m /\ u = e - f
    BY <1>8, <1>9, <1>24, <2>4 DEF Tallied
  <2> HIDE DEF p, e, f
  <2>8. u = TotalOf(UsedIn(g, C), C) - TotalOf(PendUsed(n), Threads)
    BY <1>7, <2>6, <2>7
  <2> QED BY <2>8 DEF Tallied
<1> QED BY <1>0, <1>8, <1>10, <1>11, <1>13, <1>21, <1>22, <1>25, <1>26 DEF Good, g, n

\* A region on top of the block is stretched.
LEMMA StretchStep ==
    ASSUME NEW h, NEW c, NEW a, NEW u, NEW th, NEW regs, NEW w, Good(h, c, a, u, th, regs, w),
           NEW t \in Threads, th[t].at = "stretch", NEW k, k = th[t].cur, h[k].used = th[t].old,
           NEW z \in WireBlock, z.next = h[k].next, z.capacity = h[k].capacity,
           z.used = h[k].used + (AlignSize(th[t].size) - AlignSize(th[t].region.size)),
           NEW d \in Call, d.at = "stretched", d.cur = th[t].cur, d.what = th[t].what, d.old = th[t].old,
           d.region = th[t].region, d.size = th[t].size
    PROVE  Good([h EXCEPT ![k] = z], c, a, u, Moved(th, t, d), regs, w)
<1> DEFINE C == ChainOf(h, c)
           n == Moved(th, t, d)
           g == [h EXCEPT ![k] = z]
           q == th[t].region
           m == AlignSize(th[t].size) - AlignSize(th[t].region.size)
<1>0. /\ h \in [BlockIds -> WireBlock \cup {NoBlock}] /\ th \in [Threads -> Call \cup {Idle}]
      /\ regs \subseteq Region /\ NoDangling(h, c) /\ Locals(h, C, regs, w, th) /\ WritersOwn(regs, w)
      /\ BlocksKept(h, C, th)
  BY DEF Good, ArenaTyped
<1>1. n \in [Threads -> Call \cup {Idle}] /\ n[t] = d /\ \A v \in Threads : v # t => n[v] = th[v]
  BY <1>0, MovedIs
<1>2. d \in Call \cup {Idle} /\ th[t] # Idle
  BY DEF Idle
<1>3. th[t] \in Call
  BY <1>0, <1>2
<1>4. Local(h, C, regs, w[t], t, th[t])
  BY <1>0 DEF Locals
<1>5. /\ k \in C /\ th[t].old + m <= h[k].capacity
      /\ q.block = k /\ q.at + AlignSize(q.size) = th[t].old
      /\ q \in regs /\ q.owner = t /\ q.size < th[t].size
  BY <1>2, <1>4 DEF Local, InBlock, OfRealloc
<1>6. /\ C \subseteq Allocated(h) /\ C \subseteq BlockIds
      /\ \A b \in C : h[b].used \in Nat /\ h[b].capacity \in Nat
  BY <1>0, ListFacts
<1>7. m \in Nat /\ AlignSize(th[t].size) \in Nat /\ AlignSize(q.size) \in Nat /\ q.at \in Nat
  <2>1. th[t].size \in Nat /\ q.size \in Nat /\ q.at \in Nat
    BY <1>0, <1>3, <1>5, CallTypes, RegionTypes
  <2>2. q.size <= th[t].size
    BY <1>5, <2>1
  <2>3. AlignSize(q.size) <= AlignSize(th[t].size)
    BY <2>1, <2>2, AlignMonotone
  <2>4. AlignSize(th[t].size) \in Nat /\ AlignSize(q.size) \in Nat
    BY <2>1, AlignFacts
  <2> QED BY <2>1, <2>3, <2>4
<1>8. /\ g \in [BlockIds -> WireBlock \cup {NoBlock}] /\ g[k] = z
      /\ \A e \in BlockIds : e # k => g[e] = h[e]
      /\ Allocated(g) = Allocated(h) /\ NoDangling(g, c) /\ ChainOf(g, c) = C
      /\ HeldIn(g, C) = HeldIn(h, C)
      /\ TotalOf(UsedIn(g, C), C) = TotalOf(UsedIn(h, C), C) - h[k].used + z.used
  <2>1. k \in ChainOf(h, c)
    BY <1>5
  <2>2. MarkMoved(h, g, c, k, z)
    BY <1>0, <2>1, MarkMoves
  <2> HIDE DEF g
  <2> QED BY <2>2 DEF MarkMoved
<1>9. AlignSize(th[t].size) = AlignSize(q.size) + m
  <2> DEFINE x == AlignSize(th[t].size)
             y == AlignSize(q.size)
  <2>1. x \in Nat /\ y \in Nat /\ m = x - y
    BY <1>7
  <2> HIDE DEF x, y, m
  <2>2. x = y + m
    BY <2>1
  <2> QED BY <2>2 DEF x, y
<1> HIDE DEF C, n, g, m
<1>10. z.used = h[k].used + m /\ g[k].capacity = h[k].capacity /\ g[k].used = h[k].used + m
  BY <1>8 DEF m
<1>11. ArenaTyped(g, c, a, u, n, regs, w)
  BY <1>1, <1>8 DEF Good, ArenaTyped
<1>12. BlocksKept(g, C, n)
  <2>1. g[k].used <= g[k].capacity
    BY <1>5, <1>10
  <2>2. OnlyAt(h, g, k)
    BY <1>8 DEF OnlyAt
  <2>3. th[t].at # "publish" /\ d.at # "publish"
    OBVIOUS
  <2> QED BY <1>0, <1>2, <1>8, <2>1, <2>2, <2>3, BlocksMoved DEF n
<1>13. Local(g, C, regs, w[t], t, d)
  BY <1>2, <1>4, <1>5 DEF Local, OfRealloc
<1>14. Locals(g, C, regs, w, n)
  <2>1. OnlyAt(h, g, k)
    BY <1>8 DEF OnlyAt
  <2> QED BY <1>0, <1>2, <1>5, <1>6, <1>8, <1>10, <1>13, <2>1, LocalsMoved DEF n
<1>15. Holders(regs, n) = Holders(regs, th)
  <2>1. Claimers(n) = Claimers(th) /\ t \notin Claimers(th)
    BY <1>1 DEF Claimers
  <2>2. \A v \in Claimers(th) : n[v] = th[v]
    BY <1>1, <2>1 DEF Claimers
  <2> QED BY <2>1, <2>2 DEF Holders
<1>16. Holders(regs, th) \subseteq Region
  BY <1>0, <1>6, HoldersTyped
<1>17. ASSUME NEW r \in Region, r # q PROVE Ends(n, r) = Ends(th, r)
  <2>1. ~ Stretching(th, r) \/ r.owner # t
    BY DEF Stretching
  <2>2. ~ Stretching(n, r) \/ r.owner # t
    BY <1>1, <1>17 DEF Stretching
  <2> QED BY <1>0, <1>2, <2>1, <2>2, EndsSame DEF n
<1>18. Ends(th, q) = h[k].used
  <2>1. ~ Stretching(th, q)
    BY <1>5 DEF Stretching
  <2> QED BY <1>5, <2>1 DEF Ends
<1>19. Ends(n, q) = h[k].used + m
  <2>1. Stretching(n, q) /\ n[q.owner].size = th[t].size
    BY <1>1, <1>5 DEF Stretching
  <2>2. Ends(n, q) = q.at + AlignSize(th[t].size)
    BY <2>1 DEF Ends
  <2> DEFINE y == AlignSize(q.size)
             p == q.at
  <2>3. p \in Nat /\ y \in Nat /\ p + y = h[k].used /\ Ends(n, q) = p + (y + m)
    BY <1>5, <1>7, <1>9, <2>2
  <2> HIDE DEF y, p
  <2> QED BY <1>7, <2>3
<1>20. q \in Holders(regs, th) /\ q \in Region
  BY <1>0, <1>5 DEF Holders
<1> HIDE DEF q
<1>21. HeldBelow(h, C, regs, th) /\ HeldApart(regs, th)
  BY DEF Good, C
<1>22. \A r \in Holders(regs, th) : r # q => Ends(n, r) = Ends(th, r)
  BY <1>16, <1>17
<1>23. \A r \in Holders(regs, th) : Ends(th, r) \in Nat /\ r.at < Ends(th, r) /\ r.at \in Nat
  BY <1>0, <1>16, EndsTyped
<1>24. HeldBelow(g, C, regs, n)
  <2>1. ASSUME NEW r \in Holders(regs, th), r # q PROVE r.block \in C /\ Ends(n, r) <= g[r.block].used
    <3>1. r.block \in C /\ Ends(n, r) <= h[r.block].used
      BY <1>21, <1>22, <2>1 DEF HeldBelow
    <3>2. CASE r.block = k
      <4> DEFINE p == h[k].used
                 y == Ends(n, r)
      <4>1. p \in Nat /\ y \in Nat /\ y <= p
        BY <1>5, <1>6, <1>22, <1>23, <2>1, <3>1, <3>2
      <4> HIDE DEF p, y
      <4>2. y <= p + m
        BY <1>7, <4>1
      <4> QED BY <1>10, <3>1, <3>2, <4>2 DEF p, y
    <3>3. CASE r.block # k
      <4>1. r.block \in BlockIds
        BY <1>6, <3>1
      <4> QED BY <1>8, <3>1, <3>3, <4>1
    <3> QED BY <3>2, <3>3
  <2>2. q.block \in C /\ Ends(n, q) <= g[q.block].used
    <3> DEFINE p == h[k].used
    <3>1. p \in Nat
      BY <1>5, <1>6
    <3>2. Ends(n, q) = p + m /\ g[q.block].used = p + m
      BY <1>5, <1>10, <1>19
    <3> HIDE DEF p
    <3> QED BY <1>5, <1>7, <3>1, <3>2
  <2> QED BY <1>15, <2>1, <2>2 DEF HeldBelow
<1>25. HeldApart(regs, n)
  <2>1. ASSUME NEW r \in Holders(regs, th), r # q, r.block = q.block PROVE Ends(n, r) <= q.at
    <3>1. Ends(th, q) <= r.at \/ Ends(th, r) <= q.at
      BY <1>20, <1>21, <2>1 DEF HeldApart
    <3>2. Ends(th, r) <= Ends(th, q)
      BY <1>5, <1>18, <1>21, <2>1 DEF HeldBelow
    <3>3. /\ Ends(th, r) \in Nat /\ r.at < Ends(th, r) /\ r.at \in Nat /\ Ends(th, q) \in Nat
      BY <1>20, <1>23
    <3>4. ~ (Ends(th, q) <= r.at)
      BY <3>2, <3>3
    <3> QED BY <1>22, <2>1, <3>1, <3>4
  <2>2. ASSUME NEW r \in Holders(regs, th), NEW s \in Holders(regs, th), r # s, r.block = s.block,
               r # q, s # q
        PROVE  Ends(n, r) <= s.at \/ Ends(n, s) <= r.at
    BY <1>21, <1>22, <2>2 DEF HeldApart
  <2> QED BY <1>15, <2>1, <2>2 DEF HeldApart
<1>26. PendHeld(g, n) = PendHeld(h, th)
  <2>1. \A e \in C : g[e].capacity = h[e].capacity
    BY <1>6, <1>8, <1>10
  <2> QED BY <1>0, <1>2, <2>1, PendHeldMoved DEF n
<1>27. Counted(h, C, th, a) /\ Tallied(h, C, th, u)
  BY DEF Good, C
<1>28. Counted(g, C, n, a)
  BY <1>8, <1>26, <1>27 DEF Counted
<1>29. Tallied(g, C, n, u)
  <2>1. PendUsed(th) \in [Threads -> Int]
    BY <1>0, PendTypes DEF C
  <2>2. PendUsed(n) \in [Threads -> Int]
    BY <1>0, <1>1, <1>8, <1>14, PendTypes
  <2>3. Owed(th[t]) = 0 /\ Owed(n[t]) = m
    BY <1>1 DEF Owed, m
  <2>4. TotalOf(PendUsed(n), Threads) = TotalOf(PendUsed(th), Threads) - 0 + m
    <3>1. OthersStay(th, n, t)
      BY <1>1 DEF OthersStay
    <3>2. TotalOf(PendUsed(n), Threads) = TotalOf(PendUsed(th), Threads) - Owed(th[t]) + Owed(n[t])
      BY <2>1, <2>2, <3>1, PendUsedMoves
    <3> QED BY <2>3, <3>2
  <2>5. TotalOf(UsedIn(h, C), C) \in Int /\ TotalOf(PendUsed(th), Threads) \in Int
    BY <1>0, TotalsTyped DEF C
  <2> DEFINE p == h[k].used
             e == TotalOf(UsedIn(h, C), C)
             f == TotalOf(PendUsed(th), Threads)
  <2>6. p \in Nat /\ e \in Int /\ f \in Int
    BY <1>5, <1>6, <2>5
  <2>7. TotalOf(UsedIn(g, C), C) = e - p + (p + m) /\ TotalOf(PendUsed(n), Threads) = f - 0 + m /\ u = e - f
    BY <1>8, <1>10, <1>27, <2>4 DEF Tallied
  <2> HIDE DEF p, e, f
  <2>8. u = TotalOf(UsedIn(g, C), C) - TotalOf(PendUsed(n), Threads)
    BY <1>7, <2>6, <2>7
  <2> QED BY <2>8 DEF Tallied
<1> QED BY <1>0, <1>8, <1>11, <1>12, <1>14, <1>24, <1>25, <1>28, <1>29 DEF Good, g, n

-----------------------------------------------------------------------------
\* The thread t leaves with q, and lets go of nothing but its own.
Exchanged(regs, w, t, q, more, v) ==
    /\ q \in more /\ more \subseteq regs \cup {q}
    /\ \A r \in regs : r.owner # t => r \in more
    /\ v \in [Threads -> Region \cup {Idle}] /\ \A i \in Threads : i # t => v[i] = w[i]
    /\ v[t] = Idle \/ (v[t] \in more /\ v[t].owner = t)

\* What the others rely on, when a thread leaves.
LEMMA LeavingKeeps ==
    ASSUME NEW h, NEW c, NEW a, NEW u, NEW th, NEW regs, NEW w, Good(h, c, a, u, th, regs, w),
           NEW t \in Threads, NEW q, NEW more, NEW v, Exchanged(regs, w, t, q, more, v),
           th[t].at \in Holding
    PROVE  /\ BlocksKept(h, ChainOf(h, c), Moved(th, t, Idle))
           /\ Locals(h, ChainOf(h, c), more, v, Moved(th, t, Idle))
           /\ PendHeld(h, Moved(th, t, Idle)) = PendHeld(h, th)
           /\ WritersOwn(more, v)
<1> DEFINE C == ChainOf(h, c)
           n == Moved(th, t, Idle)
<1>0. /\ h \in [BlockIds -> WireBlock \cup {NoBlock}] /\ th \in [Threads -> Call \cup {Idle}]
      /\ regs \subseteq Region /\ NoDangling(h, c) /\ Locals(h, C, regs, w, th) /\ WritersOwn(regs, w)
      /\ BlocksKept(h, C, th)
  BY DEF Good, ArenaTyped
<1>1. n[t] = Idle /\ \A i \in Threads : i # t => n[i] = th[i]
  BY <1>0, MovedIs
<1>2. Idle.at = "idle"
  BY DEF Idle
<1>3. th[t].at # "publish" /\ th[t].at # "count" /\ Idle.at # "publish" /\ Idle.at # "count"
  BY <1>2 DEF Holding
<1> HIDE DEF C, n
<1>4. BlocksKept(h, C, n)
  <2>1. \A i \in Threads : n[i].at = "publish" <=> th[i].at = "publish"
    BY <1>1, <1>3
  <2>2. \A i \in Threads : th[i].at = "publish" => n[i] = th[i]
    BY <1>1, <1>3
  <2> QED BY <1>0, <2>1, <2>2 DEF BlocksKept
<1>5. Locals(h, C, more, v, n)
  <2>1. ASSUME NEW i \in Threads, i # t PROVE Local(h, C, more, v[i], i, th[i])
    <3>1. Local(h, C, regs, w[i], i, th[i])
      BY <1>0 DEF Locals
    <3>2. th[i] # Idle /\ th[i].what = "realloc" => th[i].region \in more
      BY <2>1, <3>1 DEF Local, Exchanged
    <3>3. v[i] = w[i]
      BY <2>1 DEF Exchanged
    <3> QED BY <3>1, <3>2, <3>3 DEF Local
  <2>2. Local(h, C, more, v[t], t, Idle)
    BY DEF Local
  <2> QED BY <1>1, <2>1, <2>2 DEF Locals
<1>6. PendHeld(h, n) = PendHeld(h, th)
  BY <1>1, <1>3 DEF PendHeld
<1>7. WritersOwn(more, v)
  <2>1. ASSUME NEW i \in Threads, i # t PROVE v[i] = Idle \/ (v[i] \in more /\ v[i].owner = i)
    <3>1. v[i] = w[i]
      BY <2>1 DEF Exchanged
    <3>2. w[i] = Idle \/ (w[i] \in regs /\ w[i].owner = i)
      BY <1>0 DEF WritersOwn
    <3> QED BY <2>1, <3>1, <3>2 DEF Exchanged
  <2>2. v[t] = Idle \/ (v[t] \in more /\ v[t].owner = t)
    BY DEF Exchanged
  <2> QED BY <2>1, <2>2 DEF WritersOwn
<1> QED BY <1>4, <1>5, <1>6, <1>7 DEF C, n

\* What it owed is added when it leaves.
LEMMA LeavingPays ==
    ASSUME NEW h, NEW c, NEW a, NEW u, NEW th, NEW regs, NEW w, Good(h, c, a, u, th, regs, w),
           NEW t \in Threads, NEW m, m = Owed(th[t]),
           NEW more, more \subseteq Region, NEW v, Locals(h, ChainOf(h, c), more, v, Moved(th, t, Idle))
    PROVE  u + m \in Int /\ Tallied(h, ChainOf(h, c), Moved(th, t, Idle), u + m)
<1> DEFINE C == ChainOf(h, c)
           n == Moved(th, t, Idle)
<1>0. /\ h \in [BlockIds -> WireBlock \cup {NoBlock}] /\ th \in [Threads -> Call \cup {Idle}]
      /\ regs \subseteq Region /\ NoDangling(h, c) /\ Locals(h, C, regs, w, th) /\ u \in Int
  BY DEF Good, ArenaTyped
<1>1. n \in [Threads -> Call \cup {Idle}] /\ n[t] = Idle /\ \A i \in Threads : i # t => n[i] = th[i]
  BY <1>0, MovedIs
<1>2. PendUsed(th) \in [Threads -> Int]
  BY <1>0, PendTypes
<1>3. Locals(h, C, more, v, n)
  OBVIOUS
<1> HIDE DEF n
<1>4. PendUsed(n) \in [Threads -> Int]
  BY <1>0, <1>1, <1>3, PendTypes
<1>5. Owed(n[t]) = 0
  BY <1>1 DEF Owed, Idle
<1>6. OthersStay(th, n, t)
  BY <1>1 DEF OthersStay
<1>7. /\ TotalOf(PendUsed(n), Threads) = TotalOf(PendUsed(th), Threads) - Owed(th[t]) + Owed(n[t])
      /\ Owed(th[t]) \in Int
  BY <1>2, <1>4, <1>6, PendUsedMoves
<1>8. TotalOf(UsedIn(h, C), C) \in Int /\ TotalOf(PendUsed(th), Threads) \in Int
  BY <1>0, TotalsTyped
<1>9. Tallied(h, C, th, u)
  BY DEF Good
<1> HIDE DEF C
<1> DEFINE e == TotalOf(UsedIn(h, C), C)
           f == TotalOf(PendUsed(th), Threads)
<1>10. m \in Int /\ e \in Int /\ f \in Int /\ TotalOf(PendUsed(n), Threads) = f - m + 0 /\ u = e - f
  BY <1>5, <1>7, <1>8, <1>9 DEF Tallied
<1> HIDE DEF e, f
<1>11. u + m \in Int /\ u + m = e - TotalOf(PendUsed(n), Threads)
  BY <1>0, <1>10
<1> QED BY <1>11 DEF Tallied, e, n, C

\* The claim becomes a region.
LEMMA ReturnStep ==
    ASSUME NEW h, NEW c, NEW a, NEW u, NEW th, NEW regs, NEW w, Good(h, c, a, u, th, regs, w),
           NEW t \in Threads, th[t].at = "tally", NEW q, q = ClaimOf(th[t], t),
           NEW more, NEW v, Exchanged(regs, w, t, q, more, v)
    PROVE  Good(h, c, a, u + AlignSize(th[t].size), Moved(th, t, Idle), more, v)
<1> DEFINE C == ChainOf(h, c)
           n == Moved(th, t, Idle)
           p == u + AlignSize(th[t].size)
<1>0. /\ h \in [BlockIds -> WireBlock \cup {NoBlock}] /\ th \in [Threads -> Call \cup {Idle}]
      /\ regs \subseteq Region /\ NoDangling(h, c) /\ Locals(h, C, regs, w, th)
  BY DEF Good, ArenaTyped
<1>1. Idle \in Call \cup {Idle} /\ Idle.at = "idle"
  BY DEF Idle
<1>2. n \in [Threads -> Call \cup {Idle}] /\ n[t] = Idle /\ \A i \in Threads : i # t => n[i] = th[i]
  BY <1>0, MovedIs
<1>3. C \subseteq BlockIds
  BY <1>0, ListFacts
<1>4. Holders(regs, th) \subseteq Region
  BY <1>0, <1>3, HoldersTyped
<1>5. q \in Holders(regs, th)
  BY DEF Holders, Claimers
<1>6. more \subseteq Region
  BY <1>4, <1>5 DEF Holders, Exchanged
<1>7. th[t].at \in Holding
  BY DEF Holding
<1>8. /\ BlocksKept(h, C, n) /\ Locals(h, C, more, v, n) /\ PendHeld(h, n) = PendHeld(h, th)
      /\ WritersOwn(more, v)
  BY <1>7, LeavingKeeps
<1>9. p \in Int /\ Tallied(h, C, n, p)
  <2>1. AlignSize(th[t].size) = Owed(th[t])
    BY DEF Owed
  <2> QED BY <1>6, <1>8, <2>1, LeavingPays
<1>10. ASSUME NEW r \in Holders(regs, th) PROVE Ends(n, r) = Ends(th, r)
  <2>1. r \in Region
    BY <1>4
  <2>2. ~ Stretching(th, r) \/ r.owner # t
    BY DEF Stretching
  <2>3. ~ Stretching(n, r) \/ r.owner # t
    BY <1>1, <1>2 DEF Stretching
  <2> QED BY <1>0, <1>1, <2>1, <2>2, <2>3, EndsSame
<1> HIDE DEF C, n, p
<1>11. Holders(more, n) \subseteq Holders(regs, th)
  <2>1. \A i \in Claimers(n) : i \in Claimers(th) /\ n[i] = th[i]
    BY <1>1, <1>2 DEF Claimers
  <2>2. more \subseteq Holders(regs, th)
    BY <1>5 DEF Exchanged, Holders
  <2> QED BY <2>1, <2>2 DEF Holders
<1>12. HeldBelow(h, C, regs, th) /\ HeldApart(regs, th) /\ Counted(h, C, th, a)
  BY DEF Good, C
<1>13. HeldBelow(h, C, more, n)
  BY <1>10, <1>11, <1>12 DEF HeldBelow
<1>14. HeldApart(more, n)
  BY <1>10, <1>11, <1>12 DEF HeldApart
<1>15. ArenaTyped(h, c, a, p, n, more, v)
  BY <1>2, <1>6, <1>9 DEF Good, ArenaTyped, Exchanged
<1>16. Counted(h, C, n, a)
  BY <1>8, <1>12 DEF Counted
<1> QED BY <1>0, <1>8, <1>9, <1>13, <1>14, <1>15, <1>16 DEF Good, C, n, p

\* The region o has a new size, and is q.
Resized(regs, o, size, more, q) == q = [o EXCEPT !.size = size] /\ more = (regs \ {o}) \cup {q}

\* The stretched region has its new size.
LEMMA ReturnStretchedStep ==
    ASSUME NEW h, NEW c, NEW a, NEW u, NEW th, NEW regs, NEW w, Good(h, c, a, u, th, regs, w),
           NEW t \in Threads, th[t].at = "stretched", NEW o, o = th[t].region,
           NEW q, NEW more, Resized(regs, o, th[t].size, more, q)
    PROVE  Good(h, c, a, u + (AlignSize(th[t].size) - AlignSize(o.size)), Moved(th, t, Idle), more, w)
<1> DEFINE C == ChainOf(h, c)
           n == Moved(th, t, Idle)
           p == u + (AlignSize(th[t].size) - AlignSize(o.size))
<1>0. /\ h \in [BlockIds -> WireBlock \cup {NoBlock}] /\ th \in [Threads -> Call \cup {Idle}]
      /\ regs \subseteq Region /\ NoDangling(h, c) /\ Locals(h, C, regs, w, th) /\ WritersOwn(regs, w)
      /\ w \in [Threads -> Region \cup {Idle}]
  BY DEF Good, ArenaTyped
<1>1. Idle \in Call \cup {Idle} /\ Idle.at = "idle"
  BY DEF Idle
<1>2. n \in [Threads -> Call \cup {Idle}] /\ n[t] = Idle /\ \A i \in Threads : i # t => n[i] = th[i]
  BY <1>0, MovedIs
<1>3. C \subseteq BlockIds
  BY <1>0, ListFacts
<1>4. Holders(regs, th) \subseteq Region
  BY <1>0, <1>3, HoldersTyped
<1>5. th[t] # Idle
  BY <1>1
<1>6. th[t] \in Call
  BY <1>0, <1>5
<1>7. Local(h, C, regs, w[t], t, th[t])
  BY <1>0 DEF Locals
<1>8. o \in regs /\ o.owner = t /\ o # w[t]
  BY <1>5, <1>7 DEF Local, OfRealloc
<1>9. o \in Region /\ th[t].size \in Nat \ {0}
  BY <1>0, <1>6, <1>8, CallTypes
<1>10. q \in Region /\ q.block = o.block /\ q.at = o.at /\ q.owner = t /\ q.size = th[t].size
  BY <1>8, <1>9 DEF Region, Resized
<1>11. more \subseteq Region
  BY <1>0, <1>10 DEF Resized
<1>12. Exchanged(regs, w, t, q, more, w)
  <2>1. \A r \in regs : r.owner # t => r \in more
    BY <1>8 DEF Resized
  <2>2. w[t] = Idle \/ (w[t] \in more /\ w[t].owner = t)
    BY <1>0, <1>8 DEF WritersOwn, Resized
  <2>3. q \in more /\ more \subseteq regs \cup {q}
    BY DEF Resized
  <2> QED BY <1>0, <2>1, <2>2, <2>3 DEF Exchanged
<1>13. th[t].at \in Holding
  BY DEF Holding
<1>14. /\ BlocksKept(h, C, n) /\ Locals(h, C, more, w, n) /\ PendHeld(h, n) = PendHeld(h, th)
       /\ WritersOwn(more, w)
  BY <1>12, <1>13, LeavingKeeps
<1>15. p \in Int /\ Tallied(h, C, n, p)
  <2> DEFINE m == AlignSize(th[t].size) - AlignSize(o.size)
  <2>1. m = Owed(th[t])
    BY DEF Owed
  <2> HIDE DEF m
  <2>2. u + m \in Int /\ Tallied(h, C, n, u + m)
    BY <1>11, <1>14, <2>1, LeavingPays
  <2> QED BY <2>2 DEF m
<1>16. ASSUME NEW r \in Holders(regs, th), r # o PROVE Ends(n, r) = Ends(th, r)
  <2>1. r \in Region
    BY <1>4
  <2>2. ~ Stretching(th, r) \/ r.owner # t
    BY <1>16 DEF Stretching
  <2>3. ~ Stretching(n, r) \/ r.owner # t
    BY <1>1, <1>2 DEF Stretching
  <2> QED BY <1>0, <1>1, <2>1, <2>2, <2>3, EndsSame
<1> HIDE DEF C, n, p
<1>17. Ends(n, q) = Ends(th, o) /\ o \in Holders(regs, th)
  <2>1. Stretching(th, o) /\ ~ Stretching(n, q)
    BY <1>1, <1>2, <1>8, <1>10 DEF Stretching
  <2>2. o \in Holders(regs, th)
    BY <1>8 DEF Holders
  <2> QED BY <1>8, <1>10, <2>1, <2>2 DEF Ends
<1>18. ASSUME NEW s \in Holders(more, n), s # q
       PROVE  s \in Holders(regs, th) /\ s # o /\ Ends(n, s) = Ends(th, s)
  <2>1. CASE s \in more
    <3>1. s \in regs /\ s # o
      BY <1>18, <2>1 DEF Resized
    <3>2. s \in Holders(regs, th)
      BY <3>1 DEF Holders
    <3> QED BY <1>16, <3>1, <3>2
  <2>2. CASE s \notin more
    <3>1. PICK i \in Claimers(n) : s = ClaimOf(n[i], i)
      BY <2>2 DEF Holders
    <3>2. i \in Threads /\ i # t /\ i \in Claimers(th) /\ n[i] = th[i]
      BY <1>1, <1>2, <3>1 DEF Claimers
    <3>3. s \in Holders(regs, th)
      BY <3>1, <3>2 DEF Holders
    <3>4. s.owner = i
      BY <3>1 DEF ClaimOf
    <3>5. s # o
      BY <1>8, <3>2, <3>4
    <3> QED BY <1>16, <3>3, <3>5
  <2> QED BY <2>1, <2>2
<1>19. HeldBelow(h, C, regs, th) /\ HeldApart(regs, th) /\ Counted(h, C, th, a)
  BY DEF Good, C
<1>20. HeldBelow(h, C, more, n)
  <2>1. ASSUME NEW s \in Holders(more, n), s # q PROVE s.block \in C /\ Ends(n, s) <= h[s.block].used
    BY <1>18, <1>19, <2>1 DEF HeldBelow
  <2>2. q.block \in C /\ Ends(n, q) <= h[q.block].used
    BY <1>10, <1>17, <1>19 DEF HeldBelow
  <2> QED BY <2>1, <2>2 DEF HeldBelow
<1>21. HeldApart(more, n)
  <2> SUFFICES ASSUME NEW r \in Holders(more, n), NEW s \in Holders(more, n), r # s, r.block = s.block
               PROVE  Ends(n, r) <= s.at \/ Ends(n, s) <= r.at
    BY DEF HeldApart
  <2>1. ASSUME NEW e \in Holders(more, n), e # q, e.block = q.block
        PROVE  Ends(n, e) <= q.at \/ Ends(n, q) <= e.at
    <3>1. e \in Holders(regs, th) /\ e # o /\ Ends(n, e) = Ends(th, e)
      BY <1>18, <2>1
    <3>2. Ends(th, e) <= o.at \/ Ends(th, o) <= e.at
      BY <1>10, <1>17, <1>19, <2>1, <3>1 DEF HeldApart
    <3> QED BY <1>10, <1>17, <3>1, <3>2
  <2>2. CASE r = q
    BY <2>1, <2>2
  <2>3. CASE s = q
    BY <2>1, <2>3
  <2>4. CASE r # q /\ s # q
    BY <1>18, <1>19, <2>4 DEF HeldApart
  <2> QED BY <2>2, <2>3, <2>4
<1>22. ArenaTyped(h, c, a, p, n, more, w)
  BY <1>2, <1>11, <1>15 DEF Good, ArenaTyped
<1>23. Counted(h, C, n, a)
  BY <1>14, <1>19 DEF Counted
<1> QED BY <1>0, <1>14, <1>15, <1>20, <1>21, <1>22, <1>23 DEF Good, C, n, p

\* The empty arena, before the first call and after a reset.
LEMMA EmptyGood ==
    ASSUME NEW h \in [BlockIds -> WireBlock \cup {NoBlock}], Allocated(h) = {},
           NEW th, th = [t \in Threads |-> Idle], NEW w, w = [t \in Threads |-> Idle]
    PROVE  Good(h, NoBlock, 0, 0, th, {}, w)
<1>1. Idle.at = "idle"
  BY DEF Idle
<1>2. NoDangling(h, NoBlock)
  BY DEF NoDangling, Start
<1>3. ChainOf(h, NoBlock) = {}
  BY <1>2, ChainEmpty
<1>4. ArenaTyped(h, NoBlock, 0, 0, th, {}, w)
  BY DEF ArenaTyped
<1>5. BlocksKept(h, {}, th)
  BY <1>1 DEF BlocksKept
<1>6. Locals(h, {}, {}, w, th)
  BY DEF Locals, Local
<1>7. WritersOwn({}, w)
  BY DEF WritersOwn
<1>8. Holders({}, th) = {}
  BY <1>1 DEF Holders, Claimers
<1>9. HeldBelow(h, {}, {}, th) /\ HeldApart({}, th)
  BY <1>8 DEF HeldBelow, HeldApart
<1>10. TotalOf(PendHeld(h, th), Threads) = 0 /\ TotalOf(PendUsed(th), Threads) = 0
  <2>1. PendHeld(h, th) \in [Threads -> Int] /\ \A t \in Threads : PendHeld(h, th)[t] = 0
    BY <1>1 DEF PendHeld
  <2>2. PendUsed(th) \in [Threads -> Int] /\ \A t \in Threads : PendUsed(th)[t] = 0
    BY <1>1 DEF PendUsed, Owed
  <2> QED BY <2>1, <2>2, TotalZero, WireArenaAssumption
<1>11. TotalOf(HeldIn(h, {}), {}) = 0 /\ TotalOf(UsedIn(h, {}), {}) = 0
  BY TotalEmpty DEF HeldIn, UsedIn
<1>12. Counted(h, {}, th, 0) /\ Tallied(h, {}, th, 0)
  BY <1>10, <1>11 DEF Counted, Tallied
<1> QED BY <1>2, <1>3, <1>4, <1>5, <1>6, <1>7, <1>9, <1>12 DEF Good

-----------------------------------------------------------------------------
\* The actions.
WireArenaInv == Good(heap, current, totalAllocated, totalUsed, thread, regions, writer)

List == ChainOf(heap, current)

\* What the locals of a thread that is inside a call are.
LEMMA Inside ==
    ASSUME WireArenaInv, NEW t \in Threads, thread[t].at # "idle"
    PROVE  /\ thread[t] \in Call /\ thread \in [Threads -> Call \cup {Idle}]
           /\ Local(heap, List, regions, writer[t], t, thread[t])
           /\ thread[t].at \in Places /\ thread[t].what \in {"alloc", "realloc", "writer"}
           /\ thread[t].size \in Nat \ {0} /\ thread[t].region \in Region \cup {NoBlock}
           /\ thread[t].cur \in BlockIds \cup {NoBlock} /\ thread[t].old \in Nat
           /\ thread[t].new \in BlockIds \cup {NoBlock} /\ thread[t] # Idle
<1>1. thread \in [Threads -> Call \cup {Idle}] /\ Locals(heap, List, regions, writer, thread)
  BY DEF WireArenaInv, Good, ArenaTyped, List
<1>2. thread[t] # Idle
  BY DEF Idle
<1>3. thread[t] \in Call
  BY <1>1, <1>2
<1> QED BY <1>1, <1>3, CallTypes DEF Locals

\* A thread that is not inside a call has no locals.
LEMMA NotInside ==
    ASSUME WireArenaInv, NEW t \in Threads, thread[t].at = "idle"
    PROVE  thread[t] = Idle
<1>1. thread[t] \in Call \cup {Idle}
  BY DEF WireArenaInv, Good, ArenaTyped
<1> QED BY <1>1, CallTypes DEF Places

\* What the invariant says of the list.
LEMMA TheList ==
    ASSUME WireArenaInv
    PROVE  /\ heap \in [BlockIds -> WireBlock \cup {NoBlock}] /\ current \in BlockIds \cup {NoBlock}
           /\ List \subseteq Allocated(heap) /\ List \subseteq BlockIds
           /\ current # NoBlock => current \in List
           /\ \A b \in List : heap[b].used \in Nat /\ heap[b].capacity \in Nat /\ heap[b] \in WireBlock
<1>1. /\ heap \in [BlockIds -> WireBlock \cup {NoBlock}] /\ current \in BlockIds \cup {NoBlock}
      /\ NoDangling(heap, current)
  BY DEF WireArenaInv, Good, ArenaTyped
<1>2. List \subseteq Allocated(heap) /\ List \subseteq BlockIds
      /\ \A b \in List : heap[b].used \in Nat /\ heap[b].capacity \in Nat
  BY <1>1, ListFacts DEF List
<1>3. IsChain(List, heap, current)
  BY <1>1, ChainIs DEF List
<1>4. current # NoBlock => current \in List
  BY <1>3 DEF IsChain, Start
<1> QED BY <1>1, <1>2, <1>4, BlockTypes

\* The thread goes from x to d within its call.
GoesOn(x, d, p) ==
    d \in Call /\ d.at = p /\ d.what = x.what /\ d.size = x.size /\ d.region = x.region

\* The thread goes on with its locals as they are.
LEMMA OneChanges ==
    ASSUME NEW x \in Call, NEW p \in Places
    PROVE  LET d == [x EXCEPT !.at = p]
           IN  GoesOn(x, d, p) /\ d.cur = x.cur /\ d.old = x.old /\ d.new = x.new
BY DEF Call, GoesOn

\* The thread goes on with another block.
LEMMA CurChanges ==
    ASSUME NEW x \in Call, NEW p \in Places, NEW b \in BlockIds \cup {NoBlock}
    PROVE  LET d == [x EXCEPT !.cur = b, !.at = p]
           IN  GoesOn(x, d, p) /\ d.cur = b /\ d.old = x.old /\ d.new = x.new
BY DEF Call, GoesOn

\* The thread goes on with a block of its own.
LEMMA NewChanges ==
    ASSUME NEW x \in Call, NEW p \in Places, NEW b \in BlockIds \cup {NoBlock}
    PROVE  LET d == [x EXCEPT !.new = b, !.at = p]
           IN  GoesOn(x, d, p) /\ d.cur = x.cur /\ d.old = x.old /\ d.new = b
BY DEF Call, GoesOn

\* The thread goes on with the mark it read.
LEMMA OldChanges ==
    ASSUME NEW x \in Call, NEW p \in Places, NEW m \in Nat
    PROVE  LET d == [x EXCEPT !.old = m, !.at = p]
           IN  GoesOn(x, d, p) /\ d.cur = x.cur /\ d.old = m /\ d.new = x.new
BY DEF Call, GoesOn

\* Only the thread's own locals change.
LEMMA QuietAction ==
    ASSUME WireArenaInv, NEW t \in Threads, NEW d, d \in Call \cup {Idle}, thread' = Moved(thread, t, d),
           UNCHANGED arenaState, regions' = regions, writer' = writer,
           thread[t].at \notin Loud, d.at \notin Loud, Local(heap, List, regions, writer[t], t, d)
    PROVE  WireArenaInv'
<1>1. Good(heap, current, totalAllocated, totalUsed, thread, regions, writer)
  BY DEF WireArenaInv
<1>2. Good(heap, current, totalAllocated, totalUsed, Moved(thread, t, d), regions, writer)
  BY <1>1, QuietStep DEF List
<1> QED BY <1>2 DEF WireArenaInv, arenaState

\* A call begins with nothing but what was asked for.
LEMMA BeginKeeps ==
    ASSUME WireArenaInv, NEW t \in Threads, NEW what \in {"alloc", "realloc", "writer"},
           NEW size \in Nat \ {0}, NEW r, BeginCall(t, what, size, r),
           what # "realloc" => r = NoBlock,
           what = "realloc" => r \in regions /\ r.owner = t /\ r.size < size /\ r # writer[t]
    PROVE  WireArenaInv'
<1> DEFINE p == IF what = "realloc" THEN "top" ELSE "load"
           d == [at |-> p, what |-> what, size |-> size, region |-> r, cur |-> NoBlock, old |-> 0,
                 new |-> NoBlock]
<1>1. regions \subseteq Region
  BY DEF WireArenaInv, Good, ArenaTyped
<1>2. p \in {"top", "load"} /\ (p = "top" => what = "realloc") /\ r \in Region \cup {NoBlock}
  BY <1>1
<1>3. thread' = Moved(thread, t, d)
  BY DEF BeginCall, Moved
<1> HIDE DEF p
<1>4. d \in Call
  BY <1>2 DEF Call, Places
<1>5. thread[t].at \notin Loud
  BY DEF BeginCall, At, Loud
<1>6. /\ d.at = p /\ d.what = what /\ d.size = size /\ d.region = r /\ d.cur = NoBlock
  OBVIOUS
<1> HIDE DEF d
<1>7. d.at \notin Loud
  BY <1>2, <1>6 DEF Loud
<1>8. Local(heap, List, regions, writer[t], t, d)
  BY <1>2, <1>6 DEF Local, OfRealloc, InBlock
<1>9. UNCHANGED arenaState /\ regions' = regions /\ writer' = writer
  BY DEF BeginCall
<1> QED BY <1>3, <1>4, <1>5, <1>7, <1>8, <1>9, QuietAction

\* bebop_context_alloc.
LEMMA BeginAllocKeeps ==
    ASSUME WireArenaInv, NEW t \in Threads, BeginAlloc(t)
    PROVE  WireArenaInv'
<1>1. PICK size \in RequestSizes \ {0} : BeginCall(t, "alloc", size, NoBlock)
  BY DEF BeginAlloc
<1>2. size \in Nat \ {0}
  BY WireArenaAssumption
<1> QED BY <1>1, <1>2, BeginKeeps

\* bebop_context_realloc.
LEMMA BeginReallocKeeps ==
    ASSUME WireArenaInv, NEW t \in Threads, BeginRealloc(t)
    PROVE  WireArenaInv'
<1>1. PICK r \in regions, size \in RequestSizes :
        r.owner = t /\ r # writer[t] /\ size > r.size /\ BeginCall(t, "realloc", size, r)
  BY DEF BeginRealloc
<1>2. r \in Region
  BY DEF WireArenaInv, Good, ArenaTyped
<1>3. size \in Nat /\ r.size \in Nat
  BY <1>2, RegionTypes, WireArenaAssumption
<1>4. size \in Nat \ {0} /\ r.size < size
  BY <1>1, <1>3
<1> QED BY <1>1, <1>4, BeginKeeps

\* bebop_context_writer.
LEMMA BeginWriterKeeps ==
    ASSUME WireArenaInv, NEW t \in Threads, BeginWriter(t)
    PROVE  WireArenaInv'
<1>1. PICK size \in RequestSizes \ {0} : BeginCall(t, "writer", size, NoBlock)
  BY DEF BeginWriter
<1>2. size \in Nat \ {0}
  BY WireArenaAssumption
<1> QED BY <1>1, <1>2, BeginKeeps

\* bebop_writer_reserve.
LEMMA BeginReserveKeeps ==
    ASSUME WireArenaInv, NEW t \in Threads, BeginReserve(t)
    PROVE  WireArenaInv'
<1>1. PICK more \in RequestSizes \ {0} :
        BeginCall(t, "writer", Doubled(writer[t].size, writer[t].size + more), NoBlock)
  BY DEF BeginReserve
<1> DEFINE k == writer[t].size
           size == Doubled(k, k + more)
<1>2. writer[t] \in Region
  BY DEF BeginReserve, WireArenaInv, Good, ArenaTyped
<1>3. k \in Nat \ {0} /\ more \in Nat
  BY <1>2, RegionTypes, WireArenaAssumption
<1> HIDE DEF k
<1>4. k + more \in Nat
  BY <1>3
<1>5. size \in Nat \ {0}
  BY <1>3, <1>4, DoubledTyped
<1>6. BeginCall(t, "writer", size, NoBlock)
  BY <1>1 DEF k
<1> HIDE DEF size
<1> QED BY <1>5, <1>6, BeginKeeps

\* The list of blocks is not empty once its head was read.
LEMMA LoadCurrentKeeps ==
    ASSUME WireArenaInv, NEW t \in Threads, LoadCurrent(t)
    PROVE  WireArenaInv'
<1> DEFINE x == thread[t]
           p == IF current = NoBlock THEN "grow" ELSE "room"
           d == [x EXCEPT !.cur = current, !.at = p]
<1>1. x.at = "load"
  BY DEF LoadCurrent, At
<1>2. x \in Call /\ thread \in [Threads -> Call \cup {Idle}] /\ Local(heap, List, regions, writer[t], t, x)
      /\ x # Idle
  BY <1>1, Inside
<1>3. current \in BlockIds \cup {NoBlock} /\ (current # NoBlock => current \in List)
  BY TheList
<1>4. thread' = Moved(thread, t, d)
  BY <1>2 DEF LoadCurrent, Moved
<1>5. p \in Places /\ (p = "grow" \/ (p = "room" /\ current # NoBlock))
  BY DEF Places
<1> HIDE DEF p, x
<1>6. GoesOn(x, d, p) /\ d.cur = current
  <2>1. x \in Call /\ p \in Places /\ current \in BlockIds \cup {NoBlock}
    BY <1>2, <1>3, <1>5
  <2> QED BY <2>1, CurChanges
<1> HIDE DEF d
<1>7. Local(heap, List, regions, writer[t], t, d)
  BY <1>2, <1>3, <1>5, <1>6 DEF Local, GoesOn, OfRealloc, InBlock
<1>8. d \in Call \cup {Idle} /\ d.at \notin Loud /\ thread[t].at \notin Loud
  BY <1>1, <1>5, <1>6 DEF GoesOn, Loud, x
<1>9. UNCHANGED arenaState /\ regions' = regions /\ writer' = writer
  BY DEF LoadCurrent
<1> QED BY <1>4, <1>7, <1>8, <1>9, QuietAction

\* The first look at the mark decides only where to go.
LEMMA CheckRoomKeeps ==
    ASSUME WireArenaInv, NEW t \in Threads, CheckRoom(t)
    PROVE  WireArenaInv'
<1> DEFINE x == thread[t]
           p == IF Fits(t, heap[Cur(t)].used) THEN "use" ELSE "grow"
           d == [x EXCEPT !.at = p]
<1>1. x.at = "room"
  BY DEF CheckRoom, At
<1>2. x \in Call /\ Local(heap, List, regions, writer[t], t, x) /\ x # Idle
  BY <1>1, Inside
<1>3. x.cur \in List
  BY <1>1, <1>2 DEF Local, InBlock
<1>4. thread' = Moved(thread, t, d)
  BY DEF CheckRoom, GoTo, Moved
<1>5. p \in Places /\ p \in {"use", "grow"}
  BY DEF Places
<1> HIDE DEF p, x
<1>6. GoesOn(x, d, p) /\ d.cur = x.cur
  BY <1>2, <1>5, OneChanges
<1> HIDE DEF d
<1>7. Local(heap, List, regions, writer[t], t, d)
  BY <1>2, <1>3, <1>5, <1>6 DEF Local, GoesOn, OfRealloc, InBlock
<1>8. d \in Call \cup {Idle} /\ d.at \notin Loud /\ thread[t].at \notin Loud
  BY <1>1, <1>5, <1>6 DEF GoesOn, Loud, x
<1>9. UNCHANGED arenaState /\ regions' = regions /\ writer' = writer
  BY DEF CheckRoom
<1> QED BY <1>4, <1>7, <1>8, <1>9, QuietAction

\* NULL, and nothing changed.
LEMMA AllocFailsKeeps ==
    ASSUME WireArenaInv, NEW t \in Threads, AllocFails(t)
    PROVE  WireArenaInv'
<1>1. thread' = Moved(thread, t, Idle)
  BY DEF AllocFails, Moved
<1>2. Idle \in Call \cup {Idle} /\ Idle.at \notin Loud /\ thread[t].at \notin Loud
  BY DEF AllocFails, At, Idle, Loud
<1>3. Local(heap, List, regions, writer[t], t, Idle)
  BY DEF Local
<1>4. UNCHANGED arenaState /\ regions' = regions /\ writer' = writer
  BY DEF AllocFails
<1> QED BY <1>1, <1>2, <1>3, <1>4, QuietAction

\* The room that was seen is still there when the mark has not moved.
LEMMA LoadUsedKeeps ==
    ASSUME WireArenaInv, NEW t \in Threads, LoadUsed(t)
    PROVE  WireArenaInv'
<1> DEFINE x == thread[t]
           m == heap[x.cur].used
           p == IF Fits(t, heap[Cur(t)].used) THEN "claim" ELSE "load"
           d == [x EXCEPT !.old = m, !.at = p]
<1>1. x.at = "use"
  BY DEF LoadUsed, At
<1>2. x \in Call /\ thread \in [Threads -> Call \cup {Idle}] /\ Local(heap, List, regions, writer[t], t, x)
      /\ x # Idle
  BY <1>1, Inside
<1>3. x.cur \in List
  BY <1>1, <1>2 DEF Local, InBlock
<1>4. m \in Nat
  BY <1>3, TheList
<1>5. thread' = Moved(thread, t, d)
  BY <1>2 DEF LoadUsed, Moved, Cur
<1>6. p \in Places /\ p \in {"claim", "load"}
      /\ (p = "claim" => m + AlignSize(x.size) <= heap[x.cur].capacity)
  BY DEF Places, Fits, Cur, Aligned
<1> HIDE DEF p, x, m
<1>7. GoesOn(x, d, p) /\ d.cur = x.cur /\ d.old = m
  <2>1. x \in Call /\ p \in Places
    BY <1>2, <1>6
  <2> QED BY <1>4, <2>1, OldChanges
<1> HIDE DEF d
<1>8. Local(heap, List, regions, writer[t], t, d)
  BY <1>2, <1>3, <1>6, <1>7 DEF Local, GoesOn, OfRealloc, InBlock
<1>9. d \in Call \cup {Idle} /\ d.at \notin Loud /\ thread[t].at \notin Loud
  BY <1>1, <1>6, <1>7 DEF GoesOn, Loud, x
<1>10. UNCHANGED arenaState /\ regions' = regions /\ writer' = writer
  BY DEF LoadUsed
<1> QED BY <1>5, <1>8, <1>9, <1>10, QuietAction

\* A thread that lost the race starts over.
LEMMA StartOverKeeps ==
    ASSUME WireArenaInv, NEW t \in Threads, ClaimFails(t) \/ StretchFails(t)
    PROVE  WireArenaInv'
<1> DEFINE x == thread[t]
           d == [x EXCEPT !.at = "load"]
<1>1. x.at \in {"claim", "stretch"}
  BY DEF ClaimFails, StretchFails, At
<1>2. x \in Call /\ Local(heap, List, regions, writer[t], t, x) /\ x # Idle
  BY <1>1, Inside
<1>3. thread' = Moved(thread, t, d)
  BY DEF ClaimFails, StretchFails, GoTo, Moved
<1>4. "load" \in Places
  BY DEF Places
<1> HIDE DEF x
<1>5. GoesOn(x, d, "load") /\ d.cur = x.cur
  BY <1>2, <1>4, OneChanges
<1> HIDE DEF d
<1>6. Local(heap, List, regions, writer[t], t, d)
  BY <1>2, <1>5 DEF Local, GoesOn, OfRealloc, InBlock
<1>7. d \in Call \cup {Idle} /\ d.at \notin Loud /\ thread[t].at \notin Loud
  BY <1>1, <1>5 DEF GoesOn, Loud, x
<1>8. UNCHANGED arenaState /\ regions' = regions /\ writer' = writer
  BY DEF ClaimFails, StretchFails
<1> QED BY <1>3, <1>6, <1>7, <1>8, QuietAction

\* bebop_wire_arena_realloc reads the current block.
LEMMA LoadTopKeeps ==
    ASSUME WireArenaInv, NEW t \in Threads, LoadTop(t)
    PROVE  WireArenaInv'
<1> DEFINE x == thread[t]
           p == IF current = NoBlock THEN "load" ELSE "extend"
           d == [x EXCEPT !.cur = current, !.at = p]
<1>1. x.at = "top"
  BY DEF LoadTop, At
<1>2. x \in Call /\ thread \in [Threads -> Call \cup {Idle}] /\ Local(heap, List, regions, writer[t], t, x)
      /\ x # Idle
  BY <1>1, Inside
<1>3. current \in BlockIds \cup {NoBlock} /\ (current # NoBlock => current \in List)
  BY TheList
<1>4. thread' = Moved(thread, t, d)
  BY <1>2 DEF LoadTop, Moved
<1>5. p \in Places /\ (p = "load" \/ (p = "extend" /\ current # NoBlock))
  BY DEF Places
<1> HIDE DEF p, x
<1>6. GoesOn(x, d, p) /\ d.cur = current
  <2>1. x \in Call /\ p \in Places /\ current \in BlockIds \cup {NoBlock}
    BY <1>2, <1>3, <1>5
  <2> QED BY <2>1, CurChanges
<1> HIDE DEF d
<1>7. Local(heap, List, regions, writer[t], t, d)
  BY <1>1, <1>2, <1>3, <1>5, <1>6 DEF Local, GoesOn, OfRealloc, InBlock
<1>8. d \in Call \cup {Idle} /\ d.at \notin Loud /\ thread[t].at \notin Loud
  BY <1>1, <1>5, <1>6 DEF GoesOn, Loud, x
<1>9. UNCHANGED arenaState /\ regions' = regions /\ writer' = writer
  BY DEF LoadTop
<1> QED BY <1>4, <1>7, <1>8, <1>9, QuietAction

\* The region is on top of the block when its end is the mark that was read.
LEMMA CheckTopKeeps ==
    ASSUME WireArenaInv, NEW t \in Threads, CheckTop(t)
    PROVE  WireArenaInv'
<1> DEFINE x == thread[t]
           m == heap[x.cur].used
           r == x.region
           e == AlignSize(x.size) - AlignSize(x.region.size)
           p == IF (r.block = x.cur /\ r.at + AlignSize(r.size) = m) /\ m + e <= heap[x.cur].capacity
                THEN "stretch" ELSE "load"
           d == [x EXCEPT !.old = m, !.at = p]
<1>1. x.at = "extend"
  BY DEF CheckTop, At
<1>2. x \in Call /\ thread \in [Threads -> Call \cup {Idle}] /\ Local(heap, List, regions, writer[t], t, x)
      /\ x # Idle
  BY <1>1, Inside
<1>3. x.cur \in List
  BY <1>1, <1>2 DEF Local, InBlock
<1>4. m \in Nat
  BY <1>3, TheList
<1>5. thread' = Moved(thread, t, d)
  BY <1>2 DEF CheckTop, Moved, Cur, Extra, Aligned
<1>6. p \in Places /\ p \in {"stretch", "load"}
      /\ (p = "stretch" => /\ r.block = x.cur /\ r.at + AlignSize(r.size) = m
                           /\ m + e <= heap[x.cur].capacity)
  BY DEF Places
<1> HIDE DEF p, x, m
<1>7. GoesOn(x, d, p) /\ d.cur = x.cur /\ d.old = m
  <2>1. x \in Call /\ p \in Places
    BY <1>2, <1>6
  <2> QED BY <1>4, <2>1, OldChanges
<1> HIDE DEF d
<1>8. Local(heap, List, regions, writer[t], t, d)
  BY <1>1, <1>2, <1>3, <1>6, <1>7 DEF Local, GoesOn, OfRealloc, InBlock
<1>9. d \in Call \cup {Idle} /\ d.at \notin Loud /\ thread[t].at \notin Loud
  BY <1>1, <1>6, <1>7 DEF GoesOn, Loud, x
<1>10. UNCHANGED arenaState /\ regions' = regions /\ writer' = writer
  BY DEF CheckTop
<1> QED BY <1>5, <1>8, <1>9, <1>10, QuietAction

\* bebop_wire_arena_allocate_block.
LEMMA AllocateBlockKeeps ==
    ASSUME WireArenaInv, NEW t \in Threads, AllocateBlock(t)
    PROVE  WireArenaInv'
<1> DEFINE x == thread[t]
           k == BlockCapacity(Aligned(t))
           z == [next |-> x.cur, used |-> 0, capacity |-> k]
<1>1. x.at = "grow"
  BY DEF AllocateBlock, At
<1>2. /\ x \in Call /\ thread \in [Threads -> Call \cup {Idle}] /\ x.size \in Nat
      /\ x.cur \in BlockIds \cup {NoBlock}
  BY <1>1, Inside
<1>3. k \in Nat
  BY <1>2, AlignFacts, CapacityTyped DEF Aligned
<1>4. PICK b \in BlockIds :
        /\ heap[b] = NoBlock
        /\ heap' = [heap EXCEPT ![b] = z]
        /\ thread' = [thread EXCEPT ![t].new = b, ![t].at = "publish"]
  BY DEF AllocateBlock, Cur
<1> HIDE DEF k
<1>5. z \in WireBlock /\ z.next = x.cur /\ z.used = 0
  BY <1>2, <1>3 DEF WireBlock
<1> HIDE DEF z
<1> DEFINE d == [x EXCEPT !.new = b, !.at = "publish"]
<1>6. thread' = Moved(thread, t, d)
  BY <1>2, <1>4 DEF Moved
<1>7. "publish" \in Places
  BY DEF Places
<1> HIDE DEF x
<1>8. GoesOn(x, d, "publish") /\ d.cur = x.cur /\ d.new = b
  <2>1. x \in Call /\ b \in BlockIds \cup {NoBlock}
    BY <1>2
  <2> QED BY <1>7, <2>1, NewChanges
<1> HIDE DEF d
<1>9. Good(heap, current, totalAllocated, totalUsed, thread, regions, writer)
  BY DEF WireArenaInv
<1>10. Good([heap EXCEPT ![b] = z], current, totalAllocated, totalUsed, Moved(thread, t, d), regions, writer)
  BY <1>1, <1>4, <1>5, <1>8, <1>9, AllocateStep DEF GoesOn, x
<1> QED BY <1>4, <1>6, <1>10 DEF WireArenaInv, AllocateBlock

\* The swap of the current block succeeds.
LEMMA PublishKeeps ==
    ASSUME WireArenaInv, NEW t \in Threads, Publish(t)
    PROVE  WireArenaInv'
<1> DEFINE x == thread[t]
           b == thread[t].new
           d == [x EXCEPT !.cur = b, !.at = "count"]
<1>1. x.at = "publish" /\ current = x.cur
  BY DEF Publish, At, Cur
<1>2. x \in Call /\ thread \in [Threads -> Call \cup {Idle}] /\ b \in BlockIds \cup {NoBlock}
  BY <1>1, Inside
<1>3. thread' = Moved(thread, t, d)
  BY <1>2 DEF Publish, Moved
<1>4. "count" \in Places
  BY DEF Places
<1>5. b = x.new
  OBVIOUS
<1> HIDE DEF x, b
<1>6. GoesOn(x, d, "count") /\ d.cur = b
  <2>1. x \in Call /\ b \in BlockIds \cup {NoBlock}
    BY <1>2
  <2> QED BY <1>4, <2>1, CurChanges
<1> HIDE DEF d
<1>7. Good(heap, current, totalAllocated, totalUsed, thread, regions, writer)
  BY DEF WireArenaInv
<1>8. Good(heap, b, totalAllocated, totalUsed, Moved(thread, t, d), regions, writer)
  BY <1>1, <1>5, <1>6, <1>7, PublishStep DEF GoesOn, x
<1> QED BY <1>3, <1>8 DEF WireArenaInv, Publish, b

\* The swap fails, and the block is freed.
LEMMA PublishFailsKeeps ==
    ASSUME WireArenaInv, NEW t \in Threads, PublishFails(t)
    PROVE  WireArenaInv'
<1> DEFINE x == thread[t]
           b == thread[t].new
           d == [x EXCEPT !.new = NoBlock, !.at = "load"]
<1>1. x.at = "publish"
  BY DEF PublishFails, At
<1>2. x \in Call /\ thread \in [Threads -> Call \cup {Idle}]
  BY <1>1, Inside
<1>3. thread' = Moved(thread, t, d)
  BY <1>2 DEF PublishFails, Moved
<1>4. "load" \in Places /\ NoBlock \in BlockIds \cup {NoBlock}
  BY DEF Places
<1>5. b = x.new
  OBVIOUS
<1> HIDE DEF x, b
<1>6. GoesOn(x, d, "load")
  <2>1. x \in Call
    BY <1>2
  <2> QED BY <1>4, <2>1, NewChanges
<1> HIDE DEF d
<1>7. Good(heap, current, totalAllocated, totalUsed, thread, regions, writer)
  BY DEF WireArenaInv
<1>8. Good([heap EXCEPT ![b] = NoBlock], current, totalAllocated, totalUsed, Moved(thread, t, d), regions,
           writer)
  BY <1>1, <1>5, <1>6, <1>7, PublishFailsStep DEF GoesOn, x
<1> QED BY <1>3, <1>8 DEF WireArenaInv, PublishFails, b

\* total_allocated is made up for.
LEMMA CountAllocatedKeeps ==
    ASSUME WireArenaInv, NEW t \in Threads, CountAllocated(t)
    PROVE  WireArenaInv'
<1> DEFINE x == thread[t]
           d == [x EXCEPT !.at = "use"]
<1>1. x.at = "count"
  BY DEF CountAllocated, At
<1>2. x \in Call
  BY <1>1, Inside
<1>3. thread' = Moved(thread, t, d)
  BY DEF CountAllocated, GoTo, Moved
<1>4. "use" \in Places
  BY DEF Places
<1> HIDE DEF x
<1>5. GoesOn(x, d, "use") /\ d.cur = x.cur
  BY <1>2, <1>4, OneChanges
<1> HIDE DEF d
<1>6. Good(heap, current, totalAllocated, totalUsed, thread, regions, writer)
  BY DEF WireArenaInv
<1>7. Good(heap, current, totalAllocated + HeaderSize + heap[thread[t].cur].capacity, totalUsed,
           Moved(thread, t, d), regions, writer)
  BY <1>1, <1>5, <1>6, CountStep DEF GoesOn, x
<1> QED BY <1>3, <1>7 DEF WireArenaInv, CountAllocated, Cur

\* The swap of the mark succeeds: nobody moved it since it was read.
LEMMA ClaimKeeps ==
    ASSUME WireArenaInv, NEW t \in Threads, Claim(t)
    PROVE  WireArenaInv'
<1> DEFINE x == thread[t]
           k == thread[t].cur
           m == AlignSize(thread[t].size)
           z == [heap[k] EXCEPT !.used = heap[k].used + m]
           d == [x EXCEPT !.at = "tally"]
<1>1. x.at = "claim" /\ heap[k].used = x.old
  BY DEF Claim, At, Cur
<1>2. x \in Call /\ Local(heap, List, regions, writer[t], t, x) /\ x # Idle /\ x.size \in Nat
  BY <1>1, Inside
<1>3. k \in List
  BY <1>1, <1>2 DEF Local, InBlock
<1>4. heap[k] \in WireBlock /\ heap[k].used \in Nat /\ m \in Nat
      /\ heap \in [BlockIds -> WireBlock \cup {NoBlock}] /\ k \in BlockIds
  BY <1>2, <1>3, TheList, AlignFacts
<1>5. thread' = Moved(thread, t, d) /\ heap' = [heap EXCEPT ![k] = z]
  BY <1>4 DEF Claim, GoTo, Moved, Cur, Aligned
<1>6. "tally" \in Places
  BY DEF Places
<1>7. m = AlignSize(x.size) /\ k = x.cur
  OBVIOUS
<1> HIDE DEF x, m, k
<1>8. z \in WireBlock /\ z.next = heap[k].next /\ z.capacity = heap[k].capacity /\ z.used = heap[k].used + m
  <2>1. heap[k].used + m \in Nat
    BY <1>4
  <2> QED BY <1>4, <2>1 DEF WireBlock
<1> HIDE DEF z
<1>9. GoesOn(x, d, "tally") /\ d.cur = x.cur /\ d.old = x.old
  BY <1>2, <1>6, OneChanges
<1> HIDE DEF d
<1>10. Good(heap, current, totalAllocated, totalUsed, thread, regions, writer)
  BY DEF WireArenaInv
<1>11. Good([heap EXCEPT ![k] = z], current, totalAllocated, totalUsed, Moved(thread, t, d), regions, writer)
  BY <1>1, <1>7, <1>8, <1>9, <1>10, ClaimStep DEF GoesOn, x
<1> QED BY <1>5, <1>11 DEF WireArenaInv, Claim

\* The same, for the region on top.
LEMMA StretchKeeps ==
    ASSUME WireArenaInv, NEW t \in Threads, Stretch(t)
    PROVE  WireArenaInv'
<1> DEFINE x == thread[t]
           k == thread[t].cur
           p == AlignSize(thread[t].size)
           q == AlignSize(thread[t].region.size)
           m == p - q
           z == [heap[k] EXCEPT !.used = heap[k].used + m]
           d == [x EXCEPT !.at = "stretched"]
<1>1. x.at = "stretch" /\ heap[k].used = x.old
  BY DEF Stretch, At, Cur
<1>2. x \in Call /\ Local(heap, List, regions, writer[t], t, x) /\ x # Idle /\ x.size \in Nat
  BY <1>1, Inside
<1>3. k \in List /\ x.region \in regions /\ x.region.size < x.size
  BY <1>1, <1>2 DEF Local, InBlock, OfRealloc
<1>4. heap[k] \in WireBlock /\ heap[k].used \in Nat
      /\ heap \in [BlockIds -> WireBlock \cup {NoBlock}] /\ k \in BlockIds
  BY <1>3, TheList
<1>5. p \in Nat /\ q \in Nat /\ q <= p
  <2>1. x.region.size \in Nat
    BY <1>3, RegionTypes DEF WireArenaInv, Good, ArenaTyped
  <2>2. x.region.size <= x.size
    BY <1>2, <1>3, <2>1
  <2> QED BY <1>2, <2>1, <2>2, AlignFacts, AlignMonotone
<1>6. thread' = Moved(thread, t, d) /\ heap' = [heap EXCEPT ![k] = z]
  BY <1>4 DEF Stretch, GoTo, Moved, Cur, Aligned, Extra
<1>7. "stretched" \in Places
  BY DEF Places
<1>8. m = AlignSize(x.size) - AlignSize(x.region.size) /\ k = x.cur
  OBVIOUS
<1> HIDE DEF x, k, p, q
<1>9. m \in Nat
  BY <1>5
<1> HIDE DEF m
<1>10. z \in WireBlock /\ z.next = heap[k].next /\ z.capacity = heap[k].capacity /\ z.used = heap[k].used + m
  <2>1. heap[k].used + m \in Nat
    BY <1>4, <1>9
  <2> QED BY <1>4, <2>1 DEF WireBlock
<1> HIDE DEF z
<1>11. GoesOn(x, d, "stretched") /\ d.cur = x.cur /\ d.old = x.old
  BY <1>2, <1>7, OneChanges
<1> HIDE DEF d
<1>12. Good(heap, current, totalAllocated, totalUsed, thread, regions, writer)
  BY DEF WireArenaInv
<1>13. Good([heap EXCEPT ![k] = z], current, totalAllocated, totalUsed, Moved(thread, t, d), regions, writer)
  BY <1>1, <1>8, <1>10, <1>11, <1>12, StretchStep DEF GoesOn, x
<1> QED BY <1>6, <1>13 DEF WireArenaInv, Stretch

\* bebop_wire_arena_alloc returns, to the caller, to realloc or to the writer.
LEMMA ReturnKeeps ==
    ASSUME WireArenaInv, NEW t \in Threads, Return(t)
    PROVE  WireArenaInv'
<1> DEFINE x == thread[t]
           q == ClaimOf(x, t)
           o == IF x.what = "writer" THEN writer[t] ELSE Idle
<1>1. x.at = "tally"
  BY DEF Return, At
<1>2. x \in Call /\ Local(heap, List, regions, writer[t], t, x) /\ x # Idle
      /\ x.size \in Nat \ {0} /\ x.old \in Nat
  BY <1>1, Inside
<1>3. /\ regions \subseteq Region /\ writer \in [Threads -> Region \cup {Idle}] /\ WritersOwn(regions, writer)
  BY DEF WireArenaInv, Good, ArenaTyped
<1>4. x.cur \in BlockIds
  BY <1>1, <1>2, TheList DEF Local, InBlock
<1>5. q \in Region /\ q.owner = t /\ q.size = x.size
  BY <1>2, <1>4 DEF ClaimOf, Region
<1>6. /\ regions' = (regions \ {x.region, o}) \cup {q}
      /\ writer' = (IF x.what = "writer" THEN [writer EXCEPT ![t] = q] ELSE writer)
      /\ totalUsed' = totalUsed + AlignSize(x.size) /\ thread' = Moved(thread, t, Idle)
      /\ heap' = heap /\ current' = current /\ totalAllocated' = totalAllocated
  BY DEF Return, ClaimOf, Cur, Aligned, Moved
<1>7. x.region = NoBlock \/ (x.what = "realloc" /\ x.region.owner = t /\ x.region # writer[t])
  BY <1>2 DEF Local
<1>8. o = Idle \/ o.owner = t
  BY <1>3 DEF WritersOwn
<1>9. \A r \in regions : r # Idle /\ r # NoBlock
  BY <1>3, NotRecords
<1> HIDE DEF q, x
<1>10. Exchanged(regions, writer, t, q, regions', writer')
  <2>1. q \in regions' /\ regions' \subseteq regions \cup {q}
    BY <1>6
  <2>2. \A r \in regions : r.owner # t => r \in regions'
    BY <1>6, <1>7, <1>8, <1>9
  <2>3. writer' \in [Threads -> Region \cup {Idle}] /\ \A i \in Threads : i # t => writer'[i] = writer[i]
    BY <1>3, <1>5, <1>6
  <2>4. writer'[t] = Idle \/ (writer'[t] \in regions' /\ writer'[t].owner = t)
    <3>1. CASE x.what = "writer"
      <4>1. writer'[t] = q
        BY <1>3, <1>6, <3>1
      <4> QED BY <1>5, <2>1, <4>1
    <3>2. CASE x.what # "writer"
      <4>1. writer' = writer /\ o = Idle
        BY <1>6, <3>2
      <4>2. writer[t] = Idle \/ (writer[t] \in regions /\ writer[t].owner = t)
        BY <1>3 DEF WritersOwn
      <4>3. writer[t] \in regions => writer[t] # x.region
        BY <1>7, <1>9
      <4>4. writer[t] \in regions => writer[t] \in regions'
        BY <1>6, <1>9, <4>1, <4>3
      <4> QED BY <4>1, <4>2, <4>4
    <3> QED BY <3>1, <3>2
  <2> QED BY <2>1, <2>2, <2>3, <2>4 DEF Exchanged
<1>11. Good(heap, current, totalAllocated, totalUsed, thread, regions, writer)
  BY DEF WireArenaInv
<1>12. q = ClaimOf(thread[t], t) /\ thread[t].at = "tally"
  BY <1>1 DEF q, x
<1>13. Good(heap, current, totalAllocated, totalUsed + AlignSize(thread[t].size), Moved(thread, t, Idle),
            regions', writer')
  BY <1>10, <1>11, <1>12, ReturnStep
<1> QED BY <1>6, <1>13 DEF WireArenaInv, x

\* bebop_wire_arena_realloc returns the region it was given.
LEMMA ReturnStretchedKeeps ==
    ASSUME WireArenaInv, NEW t \in Threads, ReturnStretched(t)
    PROVE  WireArenaInv'
<1> DEFINE o == thread[t].region
           q == [o EXCEPT !.size = thread[t].size]
           more == (regions \ {o}) \cup {q}
<1>1. thread[t].at = "stretched"
  BY DEF ReturnStretched, At
<1>2. /\ regions' = more /\ thread' = Moved(thread, t, Idle) /\ writer' = writer
      /\ totalUsed' = totalUsed + (AlignSize(thread[t].size) - AlignSize(o.size))
      /\ heap' = heap /\ current' = current /\ totalAllocated' = totalAllocated
  BY DEF ReturnStretched, Aligned, Extra, Moved
<1>3. Good(heap, current, totalAllocated, totalUsed, thread, regions, writer)
  BY DEF WireArenaInv
<1>4. o = thread[t].region /\ Resized(regions, o, thread[t].size, more, q)
  BY DEF Resized
<1> HIDE DEF o, q, more
<1>5. Good(heap, current, totalAllocated, totalUsed + (AlignSize(thread[t].size) - AlignSize(o.size)),
           Moved(thread, t, Idle), more, writer)
  BY <1>1, <1>3, <1>4, ReturnStretchedStep
<1> QED BY <1>2, <1>5 DEF WireArenaInv

\* Every block is in the list when no thread is inside: reset frees them all.
LEMMA ContextResetKeeps ==
    ASSUME WireArenaInv, ContextReset
    PROVE  WireArenaInv'
<1>1. /\ heap \in [BlockIds -> WireBlock \cup {NoBlock}] /\ BlocksKept(heap, List, thread)
      /\ thread \in [Threads -> Call \cup {Idle}]
  BY DEF WireArenaInv, Good, ArenaTyped, List
<1>2. \A t \in Threads : thread[t].at = "idle"
  BY DEF ContextReset, At
<1>3. \A b \in Allocated(heap) : b \in List
  BY <1>1, <1>2 DEF BlocksKept
<1>4. heap' = [b \in BlockIds |-> IF b \in List THEN NoBlock ELSE heap[b]]
  BY ChainIsOf DEF ContextReset, List
<1>5. heap' \in [BlockIds -> WireBlock \cup {NoBlock}] /\ Allocated(heap') = {}
  BY <1>1, <1>3, <1>4 DEF Allocated
<1>6. \A t \in Threads : thread[t] = Idle
  BY <1>2, NotInside
<1>7. thread' = [t \in Threads |-> Idle]
  BY <1>1, <1>6 DEF ContextReset
<1>8. writer' = [t \in Threads |-> Idle]
  BY DEF ContextReset
<1>9. Good(heap', NoBlock, 0, 0, thread', {}, writer')
  BY <1>5, <1>7, <1>8, EmptyGood
<1> QED BY <1>9 DEF ContextReset, WireArenaInv

\* Every step of every thread, and the reset.
LEMMA WireArenaStep ==
    ASSUME WireArenaInv, [WireArenaNext]_wireArenaVars
    PROVE  WireArenaInv'
<1>1. ASSUME NEW t \in Threads, Step(t) PROVE WireArenaInv'
  <2>1. CASE BeginAlloc(t)       BY <2>1, BeginAllocKeeps
  <2>2. CASE BeginRealloc(t)     BY <2>2, BeginReallocKeeps
  <2>3. CASE BeginWriter(t)      BY <2>3, BeginWriterKeeps
  <2>4. CASE BeginReserve(t)     BY <2>4, BeginReserveKeeps
  <2>5. CASE LoadCurrent(t)      BY <2>5, LoadCurrentKeeps
  <2>6. CASE CheckRoom(t)        BY <2>6, CheckRoomKeeps
  <2>7. CASE AllocateBlock(t)    BY <2>7, AllocateBlockKeeps
  <2>8. CASE AllocFails(t)       BY <2>8, AllocFailsKeeps
  <2>9. CASE Publish(t)          BY <2>9, PublishKeeps
  <2>10. CASE PublishFails(t)    BY <2>10, PublishFailsKeeps
  <2>11. CASE CountAllocated(t)  BY <2>11, CountAllocatedKeeps
  <2>12. CASE LoadUsed(t)        BY <2>12, LoadUsedKeeps
  <2>13. CASE Claim(t)           BY <2>13, ClaimKeeps
  <2>14. CASE ClaimFails(t)      BY <2>14, StartOverKeeps
  <2>15. CASE Return(t)          BY <2>15, ReturnKeeps
  <2>16. CASE LoadTop(t)         BY <2>16, LoadTopKeeps
  <2>17. CASE CheckTop(t)        BY <2>17, CheckTopKeeps
  <2>18. CASE Stretch(t)         BY <2>18, StretchKeeps
  <2>19. CASE StretchFails(t)    BY <2>19, StartOverKeeps
  <2>20. CASE ReturnStretched(t) BY <2>20, ReturnStretchedKeeps
  <2> QED BY <1>1, <2>1, <2>2, <2>3, <2>4, <2>5, <2>6, <2>7, <2>8, <2>9, <2>10, <2>11, <2>12, <2>13,
             <2>14, <2>15, <2>16, <2>17, <2>18, <2>19, <2>20 DEF Step
<1>2. CASE ContextReset
  BY <1>2, ContextResetKeeps
<1>3. CASE UNCHANGED wireArenaVars
  BY <1>3 DEF wireArenaVars, WireArenaInv
<1> QED BY <1>1, <1>2, <1>3 DEF WireArenaNext

\* What is held covers what was asked for.
LEMMA EndsCover ==
    ASSUME WireArenaInv, NEW r \in regions
    PROVE  /\ r \in Region /\ r \in Holders(regions, thread) /\ r.at \in Nat /\ r.size \in Nat
           /\ Ends(thread, r) \in Nat /\ r.at + r.size <= Ends(thread, r)
<1>1. regions \subseteq Region /\ thread \in [Threads -> Call \cup {Idle}]
  BY DEF WireArenaInv, Good, ArenaTyped
<1>2. r \in Region /\ r \in Holders(regions, thread)
  BY <1>1 DEF Holders
<1>3. r.at \in Nat /\ r.size \in Nat /\ r.owner \in Threads
  BY <1>2, RegionTypes
<1>4. Ends(thread, r) \in Nat
  BY <1>1, <1>2, EndsTyped
<1>5. ASSUME NEW s \in Nat, r.size <= s PROVE r.at + r.size <= r.at + AlignSize(s)
  <2> DEFINE q == AlignSize(s)
             p == r.at
             k == r.size
  <2>1. q \in Nat /\ s <= q /\ p \in Nat /\ k \in Nat /\ k <= s
    BY <1>3, <1>5, AlignFacts
  <2> HIDE DEF q, p, k
  <2>2. p + k <= p + q
    BY <2>1
  <2> QED BY <2>2 DEF p, q, k
<1>6. CASE Stretching(thread, r)
  <2> DEFINE v == r.owner
  <2>1. thread[v].at = "stretched" /\ thread[v].region = r
    BY <1>6 DEF Stretching
  <2>2. /\ thread[v].size \in Nat /\ thread[v] # Idle
        /\ Local(heap, List, regions, writer[v], v, thread[v])
    BY <1>3, <2>1, Inside
  <2>3. r.size < thread[v].size
    BY <2>1, <2>2 DEF Local, OfRealloc
  <2>4. r.size <= thread[v].size
    BY <1>3, <2>2, <2>3
  <2>5. r.at + r.size <= r.at + AlignSize(thread[v].size)
    BY <1>5, <2>2, <2>4
  <2> QED BY <1>2, <1>3, <1>4, <1>6, <2>5 DEF Ends
<1>7. CASE ~ Stretching(thread, r)
  <2>1. r.at + r.size <= r.at + AlignSize(r.size)
    BY <1>3, <1>5
  <2> QED BY <1>2, <1>3, <1>4, <1>7, <2>1 DEF Ends
<1> QED BY <1>6, <1>7

\* What is held lies apart.
LEMMA InvDistinct ==
    ASSUME WireArenaInv
    PROVE  RegionsDistinct
<1>1. /\ HeldBelow(heap, List, regions, thread) /\ HeldApart(regions, thread)
      /\ BlocksKept(heap, List, thread) /\ WritersOwn(regions, writer)
  BY DEF WireArenaInv, Good, List
<1>2. Chain = List
  BY ChainIsOf DEF List
<1>3. ASSUME NEW r \in regions
      PROVE  /\ r.block \in Chain /\ r.at + r.size <= heap[r.block].used
             /\ heap[r.block].used <= heap[r.block].capacity
  <2>1. r \in Holders(regions, thread)
    BY EndsCover
  <2>2. r.block \in List /\ Ends(thread, r) <= heap[r.block].used
    BY <1>1, <2>1 DEF HeldBelow
  <2>3. r.block \in Allocated(heap) /\ heap[r.block].used \in Nat
    BY <2>2, TheList
  <2> DEFINE e == Ends(thread, r)
             p == r.at
             k == r.size
             m == heap[r.block].used
  <2>4. p \in Nat /\ k \in Nat /\ e \in Nat /\ m \in Nat /\ p + k <= e /\ e <= m
    BY <2>2, <2>3, EndsCover
  <2> HIDE DEF e, p, k, m
  <2>5. p + k <= m
    BY <2>4
  <2>6. heap[r.block].used <= heap[r.block].capacity
    BY <1>1, <2>3 DEF BlocksKept
  <2> QED BY <1>2, <2>2, <2>5, <2>6 DEF p, k, m
<1>4. ASSUME NEW r \in regions, NEW s \in regions, Ends(thread, r) <= s.at
      PROVE  BytesOf(r) \cap BytesOf(s) = {}
  <2> DEFINE p == r.at
             k == r.size
             e == Ends(thread, r)
             q == s.at
             m == s.size
  <2>1. p \in Nat /\ k \in Nat /\ e \in Nat /\ p + k <= e /\ q \in Nat /\ m \in Nat /\ e <= q
    BY <1>4, EndsCover
  <2> HIDE DEF p, k, e, q, m
  <2>2. (p .. p + k - 1) \cap (q .. q + m - 1) = {}
    BY <2>1
  <2> QED BY <2>2 DEF BytesOf, p, k, q, m
<1>5. ASSUME NEW r \in regions, NEW s \in regions, r # s, r.block = s.block
      PROVE  BytesOf(r) \cap BytesOf(s) = {}
  <2>1. r \in Holders(regions, thread) /\ s \in Holders(regions, thread)
    BY EndsCover
  <2>2. Ends(thread, r) <= s.at \/ Ends(thread, s) <= r.at
    BY <1>1, <1>5, <2>1 DEF HeldApart
  <2>3. CASE Ends(thread, r) <= s.at
    BY <1>4, <2>3
  <2>4. CASE Ends(thread, s) <= r.at
    <3>1. BytesOf(s) \cap BytesOf(r) = {}
      BY <1>4, <2>4
    <3> QED BY <3>1
  <2> QED BY <2>2, <2>3, <2>4
<1>6. \A t \in Threads : writer[t] = Idle \/ writer[t] \in regions
  BY <1>1 DEF WritersOwn
<1> QED BY <1>3, <1>5, <1>6 DEF RegionsDistinct

\* No block is lost, and the counters are right when all is quiet.
LEMMA InvNoLeak ==
    ASSUME WireArenaInv
    PROVE  NothingLeaks
<1>1. /\ heap \in [BlockIds -> WireBlock \cup {NoBlock}] /\ NoDangling(heap, current)
      /\ BlocksKept(heap, List, thread)
      /\ Counted(heap, List, thread, totalAllocated) /\ Tallied(heap, List, thread, totalUsed)
  BY DEF WireArenaInv, Good, ArenaTyped, List
<1>2. Chain = List
  BY ChainIsOf DEF List
<1>3. ASSUME NEW b \in BlockIds, heap[b] # NoBlock
      PROVE  b \in Chain \/ \E t \in Threads : At(t, "publish") /\ thread[t].new = b
  BY <1>1, <1>2, <1>3 DEF BlocksKept, Allocated, At
<1>4. ASSUME \A t \in Threads : At(t, "idle")
      PROVE  /\ totalAllocated = MapThenSumSet(LAMBDA b : HeaderSize + heap[b].capacity, Chain)
             /\ totalUsed = MapThenSumSet(LAMBDA b : heap[b].used, Chain)
  <2>1. \A t \in Threads : thread[t].at = "idle"
    BY <1>4 DEF At
  <2>2. TotalOf(PendHeld(heap, thread), Threads) = 0 /\ TotalOf(PendUsed(thread), Threads) = 0
    <3>1. PendHeld(heap, thread) \in [Threads -> Int] /\ \A t \in Threads : PendHeld(heap, thread)[t] = 0
      BY <2>1 DEF PendHeld
    <3>2. PendUsed(thread) \in [Threads -> Int] /\ \A t \in Threads : PendUsed(thread)[t] = 0
      BY <2>1 DEF PendUsed, Owed
    <3> QED BY <3>1, <3>2, TotalZero, WireArenaAssumption
  <2>3. IsFiniteSet(List) /\ \A b \in List : heap[b].used \in Nat /\ heap[b].capacity \in Nat
    BY <1>1, ListFacts DEF List
  <2>4. /\ HeldIn(heap, List) \in [List -> Int] /\ SumHeld(heap, List) = TotalOf(HeldIn(heap, List), List)
        /\ UsedIn(heap, List) \in [List -> Int] /\ SumUsed(heap, List) = TotalOf(UsedIn(heap, List), List)
    BY <2>3, SumsAre
  <2>5. TotalOf(HeldIn(heap, List), List) \in Int /\ TotalOf(UsedIn(heap, List), List) \in Int
    BY <2>3, <2>4, TotalIs
  <2>6. totalAllocated = SumHeld(heap, List) /\ totalUsed = SumUsed(heap, List)
    BY <1>1, <2>2, <2>4, <2>5 DEF Counted, Tallied
  <2> QED BY <1>2, <2>6 DEF SumHeld, SumUsed
<1> QED BY <1>3, <1>4 DEF NothingLeaks

\* The invariant of bebop_wire_arena_alloc and bebop_wire_arena_realloc, every access to an atomic being
\* a step: the list holds every block but those about to be published, each thread's locals are what
\* its next step needs, what is held or claimed lies apart and below its block's mark, and the
\* counters lack exactly what the threads have yet to add.
THEOREM WireArenaInvariance == WireArenaSpec => []WireArenaInv
<1>1. WireArenaInit => WireArenaInv
  <2> SUFFICES ASSUME WireArenaInit PROVE WireArenaInv
    OBVIOUS
  <2>1. heap \in [BlockIds -> WireBlock \cup {NoBlock}] /\ Allocated(heap) = {}
    BY DEF WireArenaInit, Allocated
  <2>2. thread = [t \in Threads |-> Idle] /\ writer = [t \in Threads |-> Idle]
    BY DEF WireArenaInit
  <2>3. Good(heap, NoBlock, 0, 0, thread, {}, writer)
    BY <2>1, <2>2, EmptyGood
  <2> QED BY <2>3 DEF WireArenaInit, WireArenaInv
<1>2. WireArenaInv /\ [WireArenaNext]_wireArenaVars => WireArenaInv'
  BY WireArenaStep
<1> QED BY <1>1, <1>2, PTL DEF WireArenaSpec

\* Whatever the threads, the blocks, the sizes and the interleaving of the compare-and-swaps of
\* bebop_wire_arena_alloc, bebop_wire_arena_realloc and bebop_writer_reserve: what two callers hold
\* never overlaps, no block is lost, and the counters are the sums over the list when all is quiet.
THEOREM WireArenaStaysConsistent == WireArenaSpec => []WireArenaConsistent
<1>1. WireArenaInv => WireArenaConsistent
  BY InvDistinct, InvNoLeak DEF WireArenaConsistent
<1> QED BY <1>1, WireArenaInvariance, PTL

-----------------------------------------------------------------------------
(***************************************************************************)
(* The language server.                                                    *)
(***************************************************************************)
\* The schemas of a document as a function of what they depend on.
SourceOn(d, p, t, q) == IF q = p THEN t ELSE d[q]

Reach(d, p, t, dirs, S) ==
    S \cup {q \in UNION {Imports(SourceOn(d, p, t, r)) : r \in S} : q \in dirs /\ d[q] # NoText}

Reached(d, p, t, dirs) ==
    CHOOSE h : h = [n \in 0 .. Cardinality(Paths) |->
                      IF n = 0 THEN {p} ELSE Reach(d, p, t, dirs, h[n - 1])]

SchemasOn(d, p, t, dirs) ==
    [q \in Reached(d, p, t, dirs)[Cardinality(Paths)] |-> SourceOn(d, p, t, q)]

\* The schemas of a document depend on its text, the disk and the include paths alone.
LEMMA SchemasAre ==
    ASSUME NEW p, NEW t, NEW dirs
    PROVE  Schemas(p, t, dirs) = SchemasOn(disk, p, t, dirs)
BY DEF Schemas, SchemasOn, SourceOn, Reached, Reach, Resolvable

\* The work list: it starts with the document and only ever takes files that can be opened.
LEMMA ReachedIs ==
    ASSUME NEW d, NEW p \in Paths, NEW t, NEW dirs \in SUBSET Paths
    PROVE  \A n \in 0 .. Cardinality(Paths) :
              /\ p \in Reached(d, p, t, dirs)[n] /\ Reached(d, p, t, dirs)[n] \in SUBSET Paths
              /\ n = 0 => Reached(d, p, t, dirs)[n] = {p}
              /\ n # 0 => Reached(d, p, t, dirs)[n] =
                             Reach(d, p, t, dirs, Reached(d, p, t, dirs)[n - 1])
<1> DEFINE D == 0 .. Cardinality(Paths)
           V == {S \in SUBSET Paths : p \in S}
           E(n, f) == IF n = 0 THEN {p} ELSE Reach(d, p, t, dirs, f[n - 1])
           r == [n \in D |-> n]
           G == [n \in D |-> [f \in [D -> V] |-> E(n, f)]]
<1>0. Cardinality(Paths) \in Nat
  BY ServerAssumption, FS_CardinalityType
<1>1. {p} \in V
  OBVIOUS
<1>2. \A n \in D : n # 0 => n - 1 \in D /\ n - 1 < n
  BY <1>0
<1>3. \A S \in V : Reach(d, p, t, dirs, S) \in V
  BY DEF Reach
<1> HIDE DEF V
<1>4. ASSUME NEW f, NEW n \in D, n - 1 \in D => f[n - 1] \in V PROVE E(n, f) \in V
  BY <1>1, <1>2, <1>3, <1>4
<1>5. ASSUME NEW n \in D, NEW f, NEW g, \A y \in D : r[y] < r[n] => f[y] = g[y]
      PROVE  E(n, f) = E(n, g)
  <2>1. CASE n = 0
    BY <2>1
  <2>2. CASE n # 0
    <3>1. f[n - 1] = g[n - 1]
      BY <1>2, <1>5, <2>2
    <3> QED BY <3>1
  <2> QED BY <2>1, <2>2
<1>6. r \in [D -> Nat]
  BY <1>0
<1> HIDE DEF r, D
<1>7. Body(D, V, r, G)
  <2>1. \A n \in D : \A f \in [D -> V] : E(n, f) \in V
    BY <1>4
  <2> HIDE DEF E
  <2>2. G \in [D -> [[D -> V] -> V]]
    BY <2>1
  <2>3. \A n \in D : \A f \in [D -> V] : G[n][f] = E(n, f)
    OBVIOUS
  <2>4. ASSUME NEW n \in D, NEW f \in [D -> V], NEW g \in [D -> V],
               \A y \in D : r[y] < r[n] => f[y] = g[y]
        PROVE  G[n][f] = G[n][g]
    <3>1. E(n, f) = E(n, g)
      BY <1>5, <2>4
    <3> HIDE DEF G
    <3> QED BY <2>3, <3>1
  <2> HIDE DEF G
  <2> QED BY <1>6, <2>2, <2>4 DEF Body
<1> DEFINE H == CHOOSE h : h = [n \in D |-> E(n, h)]
<1>8. Reached(d, p, t, dirs) = H
  BY DEF Reached, D
<1>9. \E h : h = [n \in D |-> E(n, h)]
  <2>1. PICK h \in [D -> V] : \A n \in D : h[n] = G[n][h]
    <3>1. V # {}
      BY <1>1
    <3> HIDE DEF G
    <3> QED BY <1>7, <3>1, SolutionExists
  <2> HIDE DEF E
  <2>2. \A n \in D : h[n] = E(n, h)
    BY <2>1
  <2> HIDE DEF G
  <2>3. h = [n \in D |-> E(n, h)]
    BY <2>1, <2>2
  <2> QED BY <2>3
<1>10. H = [n \in D |-> E(n, H)]
  <2> HIDE DEF E
  <2> QED BY <1>9
<1> HIDE DEF H, G
<1>11. \A n \in D : H[n] = E(n, H)
  <2> HIDE DEF E
  <2> QED BY <1>10
<1>12. \A n \in D : H[n] \in V
  <2> HIDE DEF E
  <2> DEFINE T == {n \in D : H[n] \notin V}
  <2>1. SUFFICES ASSUME T # {} PROVE FALSE
    OBVIOUS
  <2>2. PICK n \in T : \A m \in T : n <= m
    <3>1. T \subseteq Nat
      BY <1>0 DEF D
    <3> HIDE DEF T
    <3> QED BY <2>1, <3>1, LeastNatural
  <2>3. n \in D /\ H[n] \notin V
    BY <2>2
  <2>4. n - 1 \in D => H[n - 1] \in V
    <3>1. n \in Int /\ ~ (n <= n - 1)
      BY <1>0, <2>3 DEF D
    <3> QED BY <2>2, <3>1
  <2>5. E(n, H) \in V
    BY <1>4, <2>3, <2>4
  <2> QED BY <1>11, <2>3, <2>5
<1> QED BY <1>8, <1>11, <1>12 DEF V, D

\* The document is in its result, with the text that was parsed.
LEMMA ResultHasItsText ==
    ASSUME NEW d, NEW p \in Paths, NEW t, NEW dirs \in SUBSET Paths
    PROVE  p \in DOMAIN SchemasOn(d, p, t, dirs) /\ SchemasOn(d, p, t, dirs)[p] = t
<1>1. Cardinality(Paths) \in Nat /\ Cardinality(Paths) \in 0 .. Cardinality(Paths)
  BY ServerAssumption, FS_CardinalityType
<1>2. p \in Reached(d, p, t, dirs)[Cardinality(Paths)]
  BY <1>1, ReachedIs
<1> QED BY <1>2 DEF SchemasOn, SourceOn

SameBut(d, e, p) == \A q \in Paths : (q # p => e[q] = d[q]) /\ (e[q] # NoText <=> d[q] # NoText)

\* Saving a document that is on disk changes nothing in its own result.
LEMMA SavedIsNotRead ==
    ASSUME NEW d, NEW e, NEW p \in Paths, NEW t, NEW dirs \in SUBSET Paths,
           SameBut(d, e, p)
    PROVE  SchemasOn(e, p, t, dirs) = SchemasOn(d, p, t, dirs)
<1> DEFINE N == Cardinality(Paths)
           D == 0 .. N
           F == Reached(d, p, t, dirs)
           G == Reached(e, p, t, dirs)
<1>0. N \in Nat
  BY ServerAssumption, FS_CardinalityType
<1>1. D \subseteq Nat /\ N \in D /\ \A n \in D : n # 0 => n - 1 \in D /\ ~ (n <= n - 1)
  BY <1>0
<1>2. \A n \in D : /\ p \in F[n] /\ F[n] \in SUBSET Paths
                   /\ n = 0 => F[n] = {p}
                   /\ n # 0 => F[n] = Reach(d, p, t, dirs, F[n - 1])
  BY ReachedIs
<1>3. \A n \in D : /\ p \in G[n] /\ G[n] \in SUBSET Paths
                   /\ n = 0 => G[n] = {p}
                   /\ n # 0 => G[n] = Reach(e, p, t, dirs, G[n - 1])
  BY ReachedIs
<1>4. \A q \in Paths : SourceOn(e, p, t, q) = SourceOn(d, p, t, q)
  BY DEF SourceOn, SameBut
<1>5. ASSUME NEW S \in SUBSET Paths
      PROVE  Reach(e, p, t, dirs, S) = Reach(d, p, t, dirs, S)
  <2>1. {Imports(SourceOn(e, p, t, r)) : r \in S} = {Imports(SourceOn(d, p, t, r)) : r \in S}
    BY <1>4
  <2> QED BY <2>1 DEF Reach, SameBut
<1> HIDE DEF F, G, N, D
<1>6. \A n \in D : G[n] = F[n]
  <2> DEFINE T == {n \in D : G[n] # F[n]}
  <2>1. SUFFICES ASSUME T # {} PROVE FALSE
    OBVIOUS
  <2>2. PICK n \in T : \A m \in T : n <= m
    <3>1. T \subseteq Nat
      BY <1>1
    <3> HIDE DEF T
    <3> QED BY <2>1, <3>1, LeastNatural
  <2>3. n \in D /\ G[n] # F[n]
    BY <2>2
  <2>4. CASE n = 0
    BY <1>2, <1>3, <2>3, <2>4
  <2>5. CASE n # 0
    <3>1. n - 1 \in D /\ ~ (n <= n - 1)
      BY <1>1, <2>3, <2>5
    <3>2. G[n - 1] = F[n - 1] /\ F[n - 1] \in SUBSET Paths
      BY <1>2, <2>2, <3>1
    <3>3. Reach(e, p, t, dirs, G[n - 1]) = Reach(d, p, t, dirs, F[n - 1])
      BY <1>5, <3>2
    <3> QED BY <1>2, <1>3, <2>3, <2>5, <3>3
  <2> QED BY <2>4, <2>5
<1>7. G[N] = F[N] /\ F[N] \in SUBSET Paths
  BY <1>1, <1>2, <1>6
<1>8. [q \in G[N] |-> SourceOn(e, p, t, q)] = [q \in F[N] |-> SourceOn(d, p, t, q)]
  BY <1>4, <1>7
<1> QED BY <1>8 DEF SchemasOn, F, G, N

-----------------------------------------------------------------------------
DocTypes ==
    /\ includes \in SUBSET Paths
    /\ DOMAIN opened = Paths /\ opened = [p \in Paths |-> opened[p]]
    /\ DOMAIN result = Paths /\ result = [p \in Paths |-> result[p]]
    /\ DOMAIN published = Paths /\ published = [p \in Paths |-> published[p]]
    /\ DOMAIN disk = Paths /\ disk = [p \in Paths |-> disk[p]]

\* What is kept of document p: a closed one shows nothing, the result of an open one holds its text,
\* and its diagnostics are those of its text unless something else changed.
DocSound(p) ==
    /\ opened[p] \in Texts[p] \cup {NoText}
    /\ p \notin Untitled => disk[p] # NoText
    /\ opened[p] = NoText => published[p] = {}
    /\ opened[p] # NoText => p \in DOMAIN result[p] /\ result[p][p] = opened[p]
    /\ opened[p] # NoText /\ p \notin stale => published[p] = Errors(SchemasOn(disk, p, opened[p], includes))

RangeSound(r) == Alone(r.by) /\ r.kind # "insert" => Shows(r)

ServerInv ==
    /\ DocTypes /\ \A p \in Paths : DocSound(p)
    /\ running => \A r \in reply : RangeSound(r)

\* The invariant says what the editor shows.
LEMMA ServerInvImplies == ASSUME ServerInv PROVE EditorShowsItsText
<1>1. ASSUME NEW p \in Paths \ stale
      PROVE  published[p] = IF opened[p] = NoText THEN {} ELSE Errors(Schemas(p, opened[p], includes))
  <2>1. DocSound(p) /\ p \in Paths /\ p \notin stale
    BY DEF ServerInv
  <2>2. Schemas(p, opened[p], includes) = SchemasOn(disk, p, opened[p], includes)
    BY SchemasAre
  <2> QED BY <2>1, <2>2 DEF DocSound
<1>2. running => \A r \in reply : Alone(r.by) /\ r.kind # "insert" => Shows(r)
  BY DEF ServerInv, RangeSound
<1> QED BY <1>1, <1>2 DEF EditorShowsItsText

\* No document is open at first, and the editor shows nothing.
LEMMA ServerStarts == ASSUME ServerInit PROVE ServerInv
<1>1. /\ opened = [p \in Paths |-> NoText] /\ result = [p \in Paths |-> <<>>]
      /\ includes = {} /\ published = [p \in Paths |-> {}] /\ reply = {}
  BY DEF ServerInit
<1>2. DOMAIN disk = Paths /\ disk = [p \in Paths |-> disk[p]]
  BY DEF ServerInit
<1>3. \A p \in Paths : p \notin Untitled => disk[p] # NoText
  BY ServerAssumption DEF ServerInit
<1> QED BY <1>1, <1>2, <1>3 DEF ServerInv, DocTypes, DocSound

\* A document that is parsed: parseDocument and publishDiagnostics.
LEMMA ParseKeeps ==
    ASSUME ServerInv, NEW p \in Paths, NEW text \in Texts[p],
           NEW dirs \in SUBSET Paths, ParseDocument(p, text, dirs),
           includes' = dirs, disk' = disk, reply' = {},
           p \notin stale',
           \A q \in Paths : q # p /\ q \notin stale' /\ opened[q] # NoText => q \notin stale /\ dirs = includes
    PROVE  ServerInv'
<1> DEFINE s == SchemasOn(disk, p, text, dirs)
<1>1. /\ opened' = [opened EXCEPT ![p] = text] /\ result' = [result EXCEPT ![p] = s]
      /\ published' = [published EXCEPT ![p] = Errors(s)]
  BY SchemasAre DEF ParseDocument
<1>2. p \in DOMAIN s /\ s[p] = text
  BY ResultHasItsText
<1> HIDE DEF s
<1>3. DocTypes
  BY DEF ServerInv
<1>4. /\ opened'[p] = text /\ result'[p] = s /\ published'[p] = Errors(s)
      /\ \A q \in Paths : q # p => opened'[q] = opened[q] /\ result'[q] = result[q]
                                    /\ published'[q] = published[q]
  BY <1>1, <1>3 DEF DocTypes
<1>5. DocTypes'
  BY <1>1, <1>3 DEF DocTypes
<1>6. text # NoText
  BY ServerAssumption
<1>7. DocSound(p)'
  <2>1. DocSound(p)
    BY DEF ServerInv
  <2> QED BY <1>2, <1>4, <1>6, <2>1 DEF DocSound, s
<1>8. ASSUME NEW q \in Paths, q # p PROVE DocSound(q)'
  <2>1. DocSound(q)
    BY DEF ServerInv
  <2>2. opened'[q] = opened[q] /\ result'[q] = result[q] /\ published'[q] = published[q]
    BY <1>4, <1>8
  <2>3. opened[q] # NoText /\ q \notin stale' => q \notin stale /\ dirs = includes
    BY <1>8
  <2> QED BY <2>1, <2>2, <2>3 DEF DocSound
<1> QED BY <1>5, <1>7, <1>8 DEF ServerInv

\* didOpen parses the text it got and publishes of that text.
LEMMA DidOpenKeeps ==
    ASSUME ServerInv, NEW p \in Paths, NEW text \in Texts[p], DidOpen(p, text)
    PROVE  ServerInv'
<1>1. includes \in SUBSET Paths
  BY DEF ServerInv, DocTypes
<1>2. /\ includes' = includes \cup ({p} \ Untitled) /\ ParseDocument(p, text, includes')
      /\ stale' = (IF includes' = includes THEN stale ELSE {q \in Paths : opened[q] # NoText}) \ {p}
      /\ reply' = {} /\ disk' = disk
  BY DEF DidOpen
<1>3. includes' \in SUBSET Paths
  BY <1>1, <1>2
<1>4. p \notin stale'
  BY <1>2
<1>5. \A q \in Paths : q # p /\ q \notin stale' /\ opened[q] # NoText => q \notin stale /\ includes' = includes
  <2>1. CASE includes' = includes
    BY <1>2, <2>1
  <2>2. CASE includes' # includes
    BY <1>2, <2>2
  <2> QED BY <2>1, <2>2
<1> QED BY <1>2, <1>3, <1>4, <1>5, ParseKeeps

\* didChange replaces the text, parses it and publishes of it.
LEMMA DidChangeKeeps ==
    ASSUME ServerInv, NEW p \in Paths, NEW text \in Texts[p], DidChange(p, text)
    PROVE  ServerInv'
<1>1. includes \in SUBSET Paths
  BY DEF ServerInv, DocTypes
<1>2. /\ includes' = includes /\ ParseDocument(p, text, includes) /\ stale' = stale \ {p}
      /\ reply' = {} /\ disk' = disk
  BY DEF DidChange
<1>3. p \notin stale' /\ \A q \in Paths : q # p /\ q \notin stale' => q \notin stale
  BY <1>2
<1> QED BY <1>1, <1>2, <1>3, ParseKeeps

\* didClose forgets the text and the result together.
LEMMA DidCloseKeeps ==
    ASSUME ServerInv, NEW p \in Paths, DidClose(p)
    PROVE  ServerInv'
<1>1. /\ opened' = [opened EXCEPT ![p] = NoText] /\ result' = [result EXCEPT ![p] = <<>>]
      /\ published' = [published EXCEPT ![p] = {}] /\ stale' = stale \ {p}
      /\ reply' = {} /\ disk' = disk /\ includes' = includes
  BY DEF DidClose
<1>2. DocTypes /\ \A q \in Paths : DocSound(q)
  BY DEF ServerInv
<1>3. /\ opened'[p] = NoText /\ published'[p] = {}
      /\ \A q \in Paths : q # p => opened'[q] = opened[q] /\ result'[q] = result[q]
                                    /\ published'[q] = published[q] /\ (q \notin stale' => q \notin stale)
  BY <1>1, <1>2 DEF DocTypes
<1>4. DocTypes'
  BY <1>1, <1>2 DEF DocTypes
<1>5. DocSound(p)'
  BY <1>1, <1>2, <1>3 DEF DocSound
<1>6. ASSUME NEW q \in Paths, q # p PROVE DocSound(q)'
  BY <1>1, <1>2, <1>3, <1>6 DEF DocSound
<1> QED BY <1>1, <1>4, <1>5, <1>6 DEF ServerInv

\* The saved document reads its own text from the editor, and the others are stale.
LEMMA DidSaveKeeps ==
    ASSUME ServerInv, NEW p \in Paths, DidSave(p)
    PROVE  ServerInv'
<1>1. /\ opened[p] # NoText /\ p \notin Untitled
      /\ disk' = [disk EXCEPT ![p] = opened[p]]
      /\ stale' = stale \cup {q \in Paths \ {p} : opened[q] # NoText}
      /\ reply' = {} /\ opened' = opened /\ result' = result /\ published' = published /\ includes' = includes
  BY DEF DidSave
<1>2. DocTypes /\ \A q \in Paths : DocSound(q)
  BY DEF ServerInv
<1>3. includes \in SUBSET Paths
  BY <1>2 DEF DocTypes
<1>4. disk'[p] = opened[p] /\ \A q \in Paths : q # p => disk'[q] = disk[q]
  BY <1>1, <1>2 DEF DocTypes
<1>5. disk[p] # NoText
  BY <1>1, <1>2 DEF DocSound
<1>6. SameBut(disk, disk', p)
  BY <1>1, <1>4, <1>5 DEF SameBut
<1>7. SchemasOn(disk', p, opened[p], includes) = SchemasOn(disk, p, opened[p], includes)
  BY <1>3, <1>6, SavedIsNotRead
<1>8. DocTypes'
  BY <1>1, <1>2 DEF DocTypes
<1>9. DocSound(p)'
  <2>1. DocSound(p) /\ (p \notin stale' => p \notin stale)
    BY <1>1, <1>2
  <2> QED BY <1>1, <1>4, <1>7, <2>1 DEF DocSound
<1>10. ASSUME NEW q \in Paths, q # p PROVE DocSound(q)'
  <2>1. DocSound(q) /\ disk'[q] = disk[q] /\ (opened[q] # NoText => q \in stale')
    BY <1>1, <1>2, <1>4, <1>10
  <2> QED BY <1>1, <2>1 DEF DocSound
<1> QED BY <1>1, <1>8, <1>9, <1>10 DEF ServerInv

-----------------------------------------------------------------------------
\* Requests: they change the answer only.
LEMMA AnswerKeeps ==
    ASSUME ServerInv, NEW ranges, Answer(ranges), \A r \in ranges : RangeSound(r)
    PROVE  ServerInv'
<1>1. /\ reply' = ranges /\ running' = running /\ disk' = disk /\ opened' = opened /\ result' = result
      /\ includes' = includes /\ published' = published /\ stale' = stale
  BY DEF Answer, docVars
<1>2. DocTypes' /\ \A p \in Paths : DocSound(p)'
  BY <1>1 DEF ServerInv, DocTypes, DocSound
<1>3. \A r \in reply' : RangeSound(r)'
  BY <1>1 DEF RangeSound, Alone, Shows
<1> QED BY <1>2, <1>3 DEF ServerInv

\* What a range in an answer is made of.
LEMMA RangeIs ==
    ASSUME NEW by, NEW file, NEW offset, NEW kind, NEW name
    PROVE  LET r == RangeOf(by, file, offset, kind, name)
           IN  r.by = by /\ r.file = file /\ r.offset = offset /\ r.kind = kind /\ r.name = name
BY DEF RangeOf

\* An item of the text of an open document is shown by a range that says what it is.
LEMMA ItemShown ==
    ASSUME ServerInv, NEW p \in Paths, opened[p] # NoText, NEW n \in 1 .. Len(opened[p]), NEW by,
           NEW kind, NEW name, opened[p][n].kind = kind, opened[p][n].name = name
    PROVE  Shows(RangeOf(by, p, n, kind, name)) /\ RangeSound(RangeOf(by, p, n, kind, name))
<1>1. opened[p] \in Texts[p]
  BY DEF ServerInv, DocSound
<1>2. opened[p][n] = [kind |-> kind, name |-> name]
  BY <1>1, ServerAssumption
<1> DEFINE r == RangeOf(by, p, n, kind, name)
<1>3. r.file = p /\ r.offset = n /\ r.kind = kind /\ r.name = name
  BY RangeIs
<1> HIDE DEF r
<1>4. Shows(r)
  BY <1>2, <1>3 DEF Shows
<1> QED BY <1>4 DEF RangeSound, r

\* A name's place is where it is defined.
LEMMA PlaceIs ==
    ASSUME NEW t, NEW name \in Names(t)
    PROVE  Place(name, t) \in 1 .. Len(t) /\ t[Place(name, t)].kind = "def" /\ t[Place(name, t)].name = name
<1>1. \E n \in Items("def", t) : t[n].name = name
  BY DEF Names
<1>2. Place(name, t) \in Items("def", t) /\ t[Place(name, t)].name = name
  BY <1>1 DEF Place
<1> QED BY <1>2 DEF Items

\* So does a range for a definition that is in the document itself.
LEMMA PlaceShown ==
    ASSUME ServerInv, NEW p \in Paths, opened[p] # NoText, NEW by, NEW name \in Names(opened[p])
    PROVE  RangeSound(RangeOf(by, p, Place(name, opened[p]), "def", name))
<1> DEFINE n == Place(name, opened[p])
<1>1. n \in 1 .. Len(opened[p]) /\ opened[p][n].kind = "def" /\ opened[p][n].name = name
  BY PlaceIs
<1> HIDE DEF n
<1>2. RangeSound(RangeOf(by, p, n, "def", name))
  BY <1>1, ItemShown
<1> QED BY <1>2 DEF n

\* The result of an open document has the document's own text.
LEMMA ResultIs ==
    ASSUME ServerInv, NEW p \in Paths, opened[p] # NoText
    PROVE  p \in DOMAIN result[p] /\ result[p][p] = opened[p]
BY DEF ServerInv, DocSound

\* A range made from a definition in some schema of the result of an open document.
LEMMA DefinitionShown ==
    ASSUME ServerInv, NEW o \in Paths, opened[o] # NoText, NEW q \in DOMAIN result[o],
           NEW name \in Names(result[o][q]), NEW file \in {o, q}
    PROVE  RangeSound(RangeOf(o, file, Place(name, result[o][q]), "def", name))
<1> DEFINE r == RangeOf(o, file, Place(name, result[o][q]), "def", name)
<1>1. r.by = o
  BY RangeIs
<1>2. CASE ~ Alone(o)
  <2> HIDE DEF r
  <2>1. RangeSound(r)
    BY <1>1, <1>2 DEF RangeSound
  <2> QED BY <2>1 DEF r
<1>3. CASE Alone(o)
  <2>1. q = o /\ file = o /\ result[o][q] = opened[o]
    BY <1>3, ResultIs DEF Alone
  <2>2. name \in Names(opened[o])
    BY <2>1
  <2>3. RangeSound(RangeOf(o, o, Place(name, opened[o]), "def", name))
    BY <2>2, PlaceShown
  <2> QED BY <2>1, <2>3
<1> QED BY <1>2, <1>3

\* The range of a use shows that use in the text it was parsed from.
LEMMA UseShown ==
    ASSUME ServerInv, NEW o \in Paths, opened[o] # NoText, NEW d, NEW name,
           NEW n \in ReferencesIn(result[o], d, name)
    PROVE  RangeSound(RangeOf(o, o, n, "use", name))
<1> DEFINE r == RangeOf(o, o, n, "use", name)
<1>1. r.by = o
  BY RangeIs
<1>2. PICK q \in DOMAIN result[o] : n \in Items("use", result[o][q]) /\ result[o][q][n].name = name
  BY DEF ReferencesIn
<1>3. CASE ~ Alone(o)
  <2> HIDE DEF r
  <2>1. RangeSound(r)
    BY <1>1, <1>3 DEF RangeSound
  <2> QED BY <2>1 DEF r
<1>4. CASE Alone(o)
  <2>1. result[o][q] = opened[o]
    BY <1>4, ResultIs DEF Alone
  <2>2. n \in 1 .. Len(opened[o]) /\ opened[o][n].kind = "use" /\ opened[o][n].name = name
    BY <1>2, <2>1 DEF Items
  <2> QED BY <2>2, ItemShown
<1> QED BY <1>3, <1>4

\* The ranges of an outline are those of the document's own definitions.
LEMMA OutlineShown ==
    ASSUME ServerInv, NEW p \in Paths, opened[p] # NoText
    PROVE  \A r \in Outline(p) : RangeSound(r)
<1>1. result[p][p] = opened[p]
  BY ResultIs
<1>2. \A name \in Names(opened[p]) : RangeSound(RangeOf(p, p, Place(name, opened[p]), "def", name))
  BY PlaceShown
<1> QED BY <1>1, <1>2 DEF Outline

\* Where a use or a definition of an open document leads: to a schema of its result that defines it.
LEMMA LocatedIs ==
    ASSUME ServerInv, NEW p \in Paths, opened[p] # NoText, NEW n \in 1 .. Len(opened[p]), NEW d \in Located(p, n)
    PROVE  /\ d.name = opened[p][n].name
           /\ d.file \in DOMAIN result[p] /\ d.name \in Names(result[p][d.file])
<1> DEFINE item == opened[p][n]
<1>1. p \in DOMAIN result[p] /\ result[p][p] = opened[p]
  BY ResultIs
<1>2. d.name = item.name
  BY DEF Located
<1>3. CASE item.kind = "def"
  <2>1. d.file = p
    BY <1>3 DEF Located
  <2>2. item.name \in Names(opened[p])
    BY <1>3 DEF Names, Items
  <2> QED BY <1>1, <1>2, <2>1, <2>2
<1>4. CASE item.kind = "use" /\ Imports(result[p][p]) \subseteq DOMAIN result[p]
  <2>1. d.file \in Defines(result[p], p, item.name)
    BY <1>4 DEF Located
  <2> HIDE DEF item
  <2>2. d.file \in DOMAIN result[p] /\ item.name \in Names(result[p][d.file])
    BY <1>1, <2>1 DEF Defines
  <2> QED BY <1>2, <2>2 DEF item
<1>5. CASE item.kind # "def" /\ ~ (item.kind = "use" /\ Imports(result[p][p]) \subseteq DOMAIN result[p])
  BY <1>5 DEF Located
<1> QED BY <1>2, <1>3, <1>4, <1>5

\* The occurrences of a name in a schema are in the text it was parsed from.
LEMMA OccurrencesShown ==
    ASSUME ServerInv, NEW o \in Paths, opened[o] # NoText, NEW name, NEW defToo \in BOOLEAN
    PROVE  \A r \in Occurrences(o, name, defToo) : RangeSound(r)
<1> SUFFICES ASSUME NEW r \in Occurrences(o, name, defToo)
             PROVE  RangeSound(r)
  OBVIOUS
<1> DEFINE uses(d) == {RangeOf(o, o, n, "use", name) : n \in ReferencesIn(result[o], d, name)}
           defs(d) == IF defToo THEN {RangeOf(o, o, Place(name, result[o][d]), "def", name)} ELSE {}
<1>1. PICK d \in {q \in DOMAIN result[o] : name \in Names(result[o][q])} : r \in uses(d) \cup defs(d)
  BY DEF Occurrences
<1>2. d \in DOMAIN result[o] /\ name \in Names(result[o][d])
  OBVIOUS
<1>3. CASE r \in uses(d)
  <2>1. PICK n \in ReferencesIn(result[o], d, name) : r = RangeOf(o, o, n, "use", name)
    BY <1>3
  <2> QED BY <2>1, UseShown
<1>4. CASE r \in defs(d)
  <2>1. r = RangeOf(o, o, Place(name, result[o][d]), "def", name)
    BY <1>4
  <2>2. RangeSound(RangeOf(o, o, Place(name, result[o][d]), "def", name))
    BY <1>2, DefinitionShown
  <2> QED BY <2>1, <2>2
<1> HIDE DEF uses, defs
<1> QED BY <1>1, <1>3, <1>4

\* The ranges of every request are sound.
LEMMA WholeDocumentRequests ==
    ASSUME ServerInv, NEW p \in Paths,
           DocumentSymbol(p) \/ FoldingRange(p) \/ Formatting(p) \/ DocumentLink(p)
    PROVE  ServerInv'
<1>1. opened[p] # NoText
  BY DEF DocumentSymbol, FoldingRange, Formatting, DocumentLink, GetDocument
<1>2. CASE DocumentSymbol(p) \/ FoldingRange(p)
  <2>1. Answer(Outline(p))
    BY <1>2 DEF DocumentSymbol, FoldingRange
  <2> QED BY <1>1, <2>1, OutlineShown, AnswerKeeps
<1>3. CASE Formatting(p)
  <2> DEFINE t == opened[p]
             ranges == {RangeOf(p, p, n, t[n].kind, t[n].name) : n \in 1 .. Len(t)}
  <2>1. result[p][p] = t
    BY <1>1, ResultIs
  <2>2. Answer(ranges)
    BY <1>3, <2>1 DEF Formatting
  <2>3. \A r \in ranges : RangeSound(r)
    BY <1>1, ItemShown
  <2> HIDE DEF ranges
  <2> QED BY <2>2, <2>3, AnswerKeeps
<1>4. CASE DocumentLink(p)
  <2>1. Answer(Link(p))
    BY <1>4 DEF DocumentLink
  <2>2. ASSUME NEW n \in Items("import", opened[p])
        PROVE  RangeSound(RangeOf(p, p, n, "import", opened[p][n].name))
    <3>1. n \in 1 .. Len(opened[p]) /\ opened[p][n].kind = "import"
      BY DEF Items
    <3> QED BY <1>1, <3>1, ItemShown
  <2>3. \A r \in Link(p) : RangeSound(r)
    BY <2>2 DEF Link
  <2> QED BY <2>1, <2>3, AnswerKeeps
<1> QED BY <1>2, <1>3, <1>4

\* workspace/symbol answers from the results and changes nothing else.
LEMMA WorkspaceSymbolKeeps == ASSUME ServerInv, WorkspaceSymbol PROVE ServerInv'
<1> DEFINE ranges == UNION {Outline(p) : p \in {q \in Paths : opened[q] # NoText}}
<1>1. Answer(ranges)
  BY DEF WorkspaceSymbol
<1>2. ASSUME NEW p \in {q \in Paths : opened[q] # NoText} PROVE \A r \in Outline(p) : RangeSound(r)
  BY OutlineShown
<1>3. \A r \in ranges : RangeSound(r)
  BY <1>2
<1> HIDE DEF ranges
<1> QED BY <1>1, <1>3, AnswerKeeps

\* The range of a definition shows the definition it points to.
LEMMA DefinitionRangeShown ==
    ASSUME ServerInv, NEW p \in Paths, opened[p] # NoText, NEW n \in 1 .. Len(opened[p]), NEW d \in Located(p, n)
    PROVE  /\ RangeSound(DefinitionRange(p, d))
           /\ RangeSound(RangeOf(p, p, Place(d.name, result[p][d.file]), "def", d.name))
<1>1. d.file \in DOMAIN result[p] /\ d.name \in Names(result[p][d.file])
  BY LocatedIs
<1>2. RangeSound(RangeOf(p, d.file, Place(d.name, result[p][d.file]), "def", d.name))
  BY <1>1, DefinitionShown
<1>3. RangeSound(RangeOf(p, p, Place(d.name, result[p][d.file]), "def", d.name))
  BY <1>1, DefinitionShown
<1> QED BY <1>2, <1>3 DEF DefinitionRange

\* The occurrences that references and rename collect over the open documents.
LEMMA OccurrencesEverywhere ==
    ASSUME ServerInv, NEW name, NEW defToo \in BOOLEAN
    PROVE  \A r \in UNION {Occurrences(o, name, defToo) : o \in {q \in Paths : opened[q] # NoText}} : RangeSound(r)
<1>1. ASSUME NEW o \in {q \in Paths : opened[q] # NoText}
      PROVE  \A r \in Occurrences(o, name, defToo) : RangeSound(r)
  BY OccurrencesShown
<1> QED BY <1>1

\* The requests at a position answer and change nothing else.
LEMMA RequestsAtKeep ==
    ASSUME ServerInv, NEW p \in Paths, NEW n \in OffsetsIn(p),
           \/ Hover(p, n) \/ Definition(p, n) \/ PrepareRename(p, n) \/ ReferencesTo(p, n)
           \/ Rename(p, n) \/ Highlight(p, n)
    PROVE  ServerInv'
<1>0. opened[p] # NoText /\ n \in 1 .. Len(opened[p])
  BY DEF OffsetsIn, GetDocument
<1>1. CASE Hover(p, n)
  <2> DEFINE ranges == {RangeOf(p, p, n, opened[p][n].kind, d.name) : d \in Located(p, n)}
  <2>1. Answer(ranges)
    BY <1>1 DEF Hover
  <2>2. \A d \in Located(p, n) : d.name = opened[p][n].name
    BY <1>0, LocatedIs
  <2>3. RangeSound(RangeOf(p, p, n, opened[p][n].kind, opened[p][n].name))
    BY <1>0, ItemShown
  <2>4. \A r \in ranges : RangeSound(r)
    BY <2>2, <2>3
  <2> HIDE DEF ranges
  <2> QED BY <2>1, <2>4, AnswerKeeps
<1>2. CASE Definition(p, n)
  <2> DEFINE ranges == {DefinitionRange(p, d) : d \in Located(p, n)}
  <2>1. Answer(ranges)
    BY <1>2 DEF Definition
  <2>2. \A d \in Located(p, n) : RangeSound(DefinitionRange(p, d))
    BY <1>0, DefinitionRangeShown
  <2>3. \A r \in ranges : RangeSound(r)
    BY <2>2
  <2> HIDE DEF ranges
  <2> QED BY <2>1, <2>3, AnswerKeeps
<1>3. CASE PrepareRename(p, n)
  <2> DEFINE ranges == {RangeOf(p, p, n, "def", opened[p][n].name)}
  <2>1. Answer(ranges) /\ opened[p][n].kind = "def"
    BY <1>3 DEF PrepareRename
  <2>2. \A r \in ranges : RangeSound(r)
    BY <1>0, <2>1, ItemShown
  <2> HIDE DEF ranges
  <2> QED BY <2>1, <2>2, AnswerKeeps
<1>4. CASE ReferencesTo(p, n)
  <2> DEFINE all(d) == UNION {Occurrences(o, d.name, FALSE) : o \in {q \in Paths : opened[q] # NoText}}
             ranges == UNION {{DefinitionRange(p, d)} \cup all(d) : d \in Located(p, n)}
  <2>1. Answer(ranges)
    BY <1>4 DEF ReferencesTo
  <2>2. \A d \in Located(p, n) : RangeSound(DefinitionRange(p, d))
    BY <1>0, DefinitionRangeShown
  <2>3. \A d \in Located(p, n) : \A r \in all(d) : RangeSound(r)
    BY OccurrencesEverywhere
  <2> HIDE DEF all
  <2>4. \A r \in ranges : RangeSound(r)
    BY <2>2, <2>3
  <2> HIDE DEF ranges
  <2> QED BY <2>1, <2>4, AnswerKeeps
<1>5. CASE Rename(p, n)
  <2> DEFINE all(d) == UNION {Occurrences(o, d.name, TRUE) : o \in {q \in Paths : opened[q] # NoText}}
  <2>1. Answer(RenameEdits(p, n))
    BY <1>5 DEF Rename
  <2>2. \A d \in Located(p, n) : \A r \in all(d) : RangeSound(r)
    BY OccurrencesEverywhere
  <2>3. RenameEdits(p, n) = UNION {all(d) : d \in Located(p, n)}
    BY DEF RenameEdits
  <2> HIDE DEF all
  <2>4. \A r \in RenameEdits(p, n) : RangeSound(r)
    BY <2>2, <2>3
  <2> QED BY <2>1, <2>4, AnswerKeeps
<1>6. CASE Highlight(p, n)
  <2> DEFINE def(d) == RangeOf(p, p, Place(d.name, result[p][d.file]), "def", d.name)
             uses(d) == {RangeOf(p, p, k, "use", d.name) : k \in ReferencesIn(result[p], d.file, d.name)}
             ranges == UNION {{def(d)} \cup uses(d) : d \in Located(p, n)}
  <2>1. Answer(ranges)
    BY <1>6 DEF Highlight
  <2>2. \A d \in Located(p, n) : RangeSound(def(d))
    BY <1>0, DefinitionRangeShown
  <2>3. ASSUME NEW d \in Located(p, n), NEW r \in uses(d) PROVE RangeSound(r)
    <3>1. PICK k \in ReferencesIn(result[p], d.file, d.name) : r = RangeOf(p, p, k, "use", d.name)
      OBVIOUS
    <3>2. RangeSound(RangeOf(p, p, k, "use", d.name))
      BY <1>0, UseShown
    <3> QED BY <3>1, <3>2
  <2> HIDE DEF def, uses
  <2>4. \A r \in ranges : RangeSound(r)
    BY <2>2, <2>3
  <2> HIDE DEF ranges
  <2> QED BY <2>1, <2>4, AnswerKeeps
<1> QED BY <1>1, <1>2, <1>3, <1>4, <1>5, <1>6

\* The requests about a whole document answer and change nothing else.
LEMMA OtherRequestsKeep ==
    ASSUME ServerInv, NEW p \in Paths, NEW n \in OffsetsIn(p),
           (\E m \in 1 .. n : RangeFormatting(p, m, n)) \/ CodeAction(p, n)
    PROVE  ServerInv'
<1>0. opened[p] # NoText
  BY DEF OffsetsIn, GetDocument
<1>1. CASE \E m \in 1 .. n : RangeFormatting(p, m, n)
  <2>1. PICK m \in 1 .. n : Answer({r \in Outline(p) : r.offset \in m .. n})
    BY <1>1 DEF RangeFormatting
  <2>2. \A r \in {s \in Outline(p) : s.offset \in m .. n} : RangeSound(r)
    BY <1>0, OutlineShown
  <2> QED BY <2>1, <2>2, AnswerKeeps
<1>2. CASE CodeAction(p, n)
  <2>1. \/ Answer({})
        \/ \E q, k : Answer({RangeOf(p, p, k, "insert", q)})
    BY <1>2 DEF CodeAction
  <2>2. CASE Answer({})
    BY <2>2, AnswerKeeps
  <2>3. CASE \E q, k : Answer({RangeOf(p, p, k, "insert", q)})
    <3>1. PICK q, k : Answer({RangeOf(p, p, k, "insert", q)})
      BY <2>3
    <3> DEFINE r == RangeOf(p, p, k, "insert", q)
    <3>2. r.kind = "insert"
      BY RangeIs
    <3>3. Answer({r})
      BY <3>1
    <3> HIDE DEF r
    <3>4. \A s \in {r} : RangeSound(s)
      BY <3>2 DEF RangeSound
    <3> QED BY <3>3, <3>4, AnswerKeeps
  <2> QED BY <2>1, <2>2, <2>3
<1> QED BY <1>1, <1>2

\* Every message keeps the invariant.
LEMMA ServerStep == ASSUME ServerInv, [ServerNext]_serverVars PROVE ServerInv'
<1>1. CASE Notification
  <2>1. ASSUME Exit PROVE ServerInv'
    <3>1. running' = FALSE /\ UNCHANGED docVars
      BY <2>1 DEF Exit
    <3> QED BY <3>1 DEF ServerInv, DocTypes, DocSound, docVars
  <2> QED BY <1>1, <2>1, DidCloseKeeps, DidSaveKeeps, DidOpenKeeps, DidChangeKeeps DEF Notification
<1>2. CASE Request
  BY <1>2, WorkspaceSymbolKeeps, WholeDocumentRequests, RequestsAtKeep, OtherRequestsKeep DEF Request
<1>3. CASE UNCHANGED serverVars
  <2>1. /\ disk' = disk /\ opened' = opened /\ result' = result /\ includes' = includes
        /\ published' = published /\ stale' = stale /\ reply' = reply /\ running' = running
    BY <1>3 DEF serverVars, docVars
  <2>2. DocTypes' /\ \A p \in Paths : DocSound(p)'
    BY <2>1 DEF ServerInv, DocTypes, DocSound
  <2> QED BY <2>1, <2>2 DEF ServerInv, RangeSound, Alone, Shows
<1> QED BY <1>1, <1>2, <1>3 DEF ServerNext

\* The invariant of handleDidOpen, handleDidChange, handleDidClose and the requests: the result of
\* each open document is that of its text as long as no input changed, and an answer's ranges come
\* from such results.
THEOREM ServerInvariance == ServerSpec => []ServerInv
<1>1. ServerInit => ServerInv
  BY ServerStarts
<1>2. ServerInv /\ [ServerNext]_serverVars => ServerInv'
  BY ServerStep
<1> QED BY <1>1, <1>2, PTL DEF ServerSpec

\* For any files, texts and messages: the diagnostics of a document whose inputs did not change since
\* its last didOpen or didChange are those of its text, and every range in the answer to a request
\* that comes from a result of one file shows in the editor's text what it is meant to show.
THEOREM EditorAlwaysShowsItsText == ServerSpec => []EditorShowsItsText
<1>1. ServerInv => EditorShowsItsText
  BY ServerInvImplies
<1> QED BY <1>1, ServerInvariance, PTL

-----------------------------------------------------------------------------
(***************************************************************************)
(* The watcher, for any set of files and any sizes of ring, poll and list. *)
(***************************************************************************)
\* What FSEvents reports and what the ring holds: the root is only ever
\* reported to be scanned, which makes a "modify".
Reported ==
    {r \in [flags : SUBSET {"created", "modified", "removed", "renamed", "scan"},
            path : DiskFiles \cup {Root}, inode : Nat, about : SUBSET DiskFiles] :
        r.path = Root => r.flags = {"scan"}}
Queued ==
    {e \in [action : {"add", "modify", "delete", "rename"},
            path : DiskFiles \cup {Root}, about : SUBSET DiskFiles] :
        e.path = Root => e.action = "modify"}

\* The inductive invariant: the types, with finite lists and the sequences of
\* reports and events, and the account of the permits.
WatchInv ==
    /\ WatchTypeOK /\ IsFiniteSet(changed)
    /\ content \in [DiskFiles -> [inode : Nat, edit : Nat]] /\ edits \in Nat
    /\ reports \in Seq(Reported) /\ callback \in Seq(Reported)
    /\ ring \in Seq(Queued)
    /\ PermitsMatchEvents

USE WatchAssumption
-----------------------------------------------------------------------------
\* What the callback makes of one report is events that the ring may hold.
LEMMA EventTypes ==
    ASSUME NEW r \in Reported
    PROVE  EventsAt(r) \in Seq(Queued)
<1>0. r.path \in DiskFiles \cup {Root} /\ r.about \in SUBSET DiskFiles /\ (r.path = Root => r.flags = {"scan"})
  BY DEF Reported
<1>1. \A a \in {"add", "modify", "delete"} :
         (a = "modify" \/ r.path # Root) => Event(r, a) \in Queued
  BY <1>0 DEF Event, Queued
<1>2. CASE "scan" \in r.flags
  <2>1. EventsAt(r) = <<Event(r, "modify")>>
    BY <1>2 DEF EventsAt
  <2>2. Event(r, "modify") \in Queued
    BY <1>1
  <2> QED BY <2>1, <2>2
<1>3. CASE "scan" \notin r.flags /\ "renamed" \in r.flags
  <2>1. PICK a \in {"add", "delete"} : EventsAt(r) = <<Event(r, a)>>
    BY <1>3 DEF EventsAt
  <2>2. Event(r, a) \in Queued
    BY <1>0, <1>1, <1>3
  <2> QED BY <2>1, <2>2
<1>4. CASE "scan" \notin r.flags /\ "renamed" \notin r.flags
  <2> DEFINE some(flag, cond, a) == IF flag \in r.flags /\ cond THEN <<Event(r, a)>> ELSE <<>>
             A == some("created", content[r.path] # Absent, "add")
             B == some("modified", TRUE, "modify")
             C == some("removed", ~ (content[r.path] # Absent), "delete")
  <2>1. EventsAt(r) = (A \o B) \o C
    BY <1>4 DEF EventsAt
  <2>2. A \in Seq(Queued) /\ B \in Seq(Queued) /\ C \in Seq(Queued)
    <3>1. \A a \in {"add", "modify", "delete"} : Event(r, a) \in Queued
      BY <1>0, <1>1, <1>4
    <3>2. \A a \in {"add", "modify", "delete"} : <<Event(r, a)>> \in Seq(Queued)
      BY <3>1
    <3>3. <<>> \in Seq(Queued)
      BY EmptySeq
    <3> QED BY <3>2, <3>3
  <2> HIDE DEF A, B, C
  <2>3. A \o B \in Seq(Queued)
    BY <2>2, ConcatProperties
  <2> QED BY <2>1, <2>2, <2>3, ConcatProperties
<1> QED BY <1>2, <1>3, <1>4

\* The event of a rename whose halves come together.
RenameEvent(batch, n) ==
    [Event(batch[n + 1], "rename") EXCEPT !.about = @ \cup batch[n].about]

\* What it makes of a batch is too.
LEMMA EventsTypes ==
    ASSUME NEW batch \in Seq(Reported)
    PROVE  EventsOf(batch) \in Seq(Queued)
<1> DEFINE L == Len(batch)
           D == 1 .. L + 2
           V == Seq(Queued)
           E(n, f) == IF n > L THEN <<>>
                      ELSE IF Paired(batch, n) THEN <<RenameEvent(batch, n)>> \o f[n + 2]
                           ELSE EventsAt(batch[n]) \o f[n + 1]
           r == [n \in D |-> L + 2 - n]
           G == [n \in D |-> [f \in [D -> V] |-> E(n, f)]]
<1>0. L \in Nat /\ \A n \in 1 .. L : batch[n] \in Reported
  OBVIOUS
<1>1. <<>> \in V
  BY EmptySeq
<1>2. \A n \in D : ~ (n > L) => n \in 1 .. L /\ n + 1 \in D /\ n + 2 \in D
  BY <1>0
<1>3. ASSUME NEW n \in 1 .. L, Paired(batch, n) PROVE <<RenameEvent(batch, n)>> \in V
  <2>1. n + 1 \in 1 .. L /\ "renamed" \in batch[n + 1].flags
    BY <1>0, <1>3 DEF Paired
  <2>2. batch[n] \in Reported /\ batch[n + 1] \in Reported
    BY <1>0, <2>1
  <2>3. /\ batch[n].about \in SUBSET DiskFiles /\ batch[n + 1].about \in SUBSET DiskFiles
        /\ batch[n + 1].path \in DiskFiles \cup {Root}
        /\ batch[n + 1].path # Root
    BY <2>1, <2>2 DEF Reported
  <2>4. RenameEvent(batch, n) \in Queued
    BY <2>3 DEF RenameEvent, Event, Queued
  <2> QED BY <2>4
<1>4. ASSUME NEW n \in 1 .. L PROVE EventsAt(batch[n]) \in V
  BY <1>0, EventTypes
<1>5. ASSUME NEW f, NEW n \in D, n + 1 \in D => f[n + 1] \in V, n + 2 \in D => f[n + 2] \in V
      PROVE  E(n, f) \in V
  <2>1. CASE n > L
    BY <1>1, <2>1
  <2>2. CASE ~ (n > L)
    <3>1. n \in 1 .. L /\ f[n + 1] \in V /\ f[n + 2] \in V
      BY <1>2, <1>5, <2>2
    <3>2. CASE Paired(batch, n)
      <4>1. <<RenameEvent(batch, n)>> \o f[n + 2] \in V
        BY <1>3, <3>1, <3>2, ConcatProperties
      <4> QED BY <2>2, <3>2, <4>1
    <3>3. CASE ~ Paired(batch, n)
      <4>1. EventsAt(batch[n]) \o f[n + 1] \in V
        BY <1>4, <3>1, <3>3, ConcatProperties
      <4> QED BY <2>2, <3>3, <4>1
    <3> QED BY <3>2, <3>3
  <2> QED BY <2>1, <2>2
<1>6. ASSUME NEW n \in D, NEW f, NEW g, \A y \in D : r[y] < r[n] => f[y] = g[y]
      PROVE  E(n, f) = E(n, g)
  <2>1. CASE n > L
    BY <2>1
  <2>2. CASE ~ (n > L)
    <3>1. n + 1 \in D /\ n + 2 \in D /\ r[n + 1] < r[n] /\ r[n + 2] < r[n]
      BY <1>0, <1>2, <2>2
    <3>2. f[n + 1] = g[n + 1] /\ f[n + 2] = g[n + 2]
      BY <1>6, <3>1
    <3> QED BY <3>2
  <2> QED BY <2>1, <2>2
<1>7. r \in [D -> Nat]
  BY <1>0
<1> HIDE DEF r, V, D
<1>8. Body(D, V, r, G)
  <2>1. \A n \in D : \A f \in [D -> V] : E(n, f) \in V
    BY <1>5
  <2> HIDE DEF E
  <2>2. G \in [D -> [[D -> V] -> V]]
    BY <2>1
  <2>3. \A n \in D : \A f \in [D -> V] : G[n][f] = E(n, f)
    OBVIOUS
  <2>4. ASSUME NEW n \in D, NEW f \in [D -> V], NEW g \in [D -> V],
               \A y \in D : r[y] < r[n] => f[y] = g[y]
        PROVE  G[n][f] = G[n][g]
    <3>1. E(n, f) = E(n, g)
      BY <1>6, <2>4
    <3> HIDE DEF G
    <3> QED BY <2>3, <3>1
  <2> HIDE DEF G
  <2> QED BY <1>7, <2>2, <2>4 DEF Body
<1> DEFINE H == CHOOSE h : h = [n \in D |-> E(n, h)]
<1>9. EventsOf(batch) = H[1]
  BY DEF EventsOf, D, RenameEvent
<1>10. \E h : h = [n \in D |-> E(n, h)]
  <2>1. PICK h \in [D -> V] : \A n \in D : h[n] = G[n][h]
    <3>1. V # {}
      BY <1>1
    <3> HIDE DEF G
    <3> QED BY <1>8, <3>1, SolutionExists
  <2> HIDE DEF E
  <2>2. \A n \in D : h[n] = E(n, h)
    BY <2>1
  <2> HIDE DEF G
  <2>3. h = [n \in D |-> E(n, h)]
    BY <2>1, <2>2
  <2> QED BY <2>3
<1>11. H = [n \in D |-> E(n, H)]
  <2> HIDE DEF E
  <2> QED BY <1>10
<1> HIDE DEF H, E, G
<1>12. \A n \in D : H[n] = E(n, H)
  BY <1>11
<1>13. \A n \in D : H[n] \in V
  <2> DEFINE T == {n \in D : H[n] \notin V}
  <2>1. SUFFICES ASSUME T # {} PROVE FALSE
    OBVIOUS
  <2>2. PICK n \in T : \A m \in T : r[n] <= r[m]
    <3>1. T \subseteq D
      OBVIOUS
    <3> HIDE DEF T
    <3> QED BY <1>7, <2>1, <3>1, LeastRank
  <2>3. n \in D /\ H[n] \notin V
    BY <2>2
  <2>4. ASSUME NEW m \in D, m > n PROVE H[m] \in V
    <3>1. ~ (r[n] <= r[m])
      BY <1>0, <2>3, <2>4 DEF r, D
    <3> QED BY <2>2, <3>1
  <2>5. n + 1 > n /\ n + 2 > n
    BY <1>0, <2>3 DEF D
  <2>6. E(n, H) \in V
    BY <1>5, <2>3, <2>4, <2>5
  <2> QED BY <1>12, <2>3, <2>6
<1>14. 1 \in D
  BY <1>0 DEF D
<1> QED BY <1>9, <1>13, <1>14 DEF V
-----------------------------------------------------------------------------
\* One step of the list of changed files.
LEMMA AddChangedKeeps ==
    ASSUME NEW fs, fs \subseteq Watched, IsFiniteSet(fs), Cardinality(fs) <= MaxChanged,
           NEW e \in Queued, Notes(e)
    PROVE  /\ AddChanged(fs, e) \subseteq Watched /\ IsFiniteSet(AddChanged(fs, e))
           /\ Cardinality(AddChanged(fs, e)) <= MaxChanged
<1>1. e.path \in Watched
  BY DEF Notes, ShouldReport, Queued
<1>2. CASE Cardinality(fs) < MaxChanged
  <2>1. AddChanged(fs, e) = fs \cup {e.path}
    BY <1>2 DEF AddChanged
  <2>2. /\ IsFiniteSet(fs \cup {e.path})
        /\ Cardinality(fs \cup {e.path}) \in {Cardinality(fs), Cardinality(fs) + 1}
    BY FS_AddElement
  <2>3. Cardinality(fs) \in Nat /\ MaxChanged \in Nat
    BY FS_CardinalityType
  <2> QED BY <1>1, <1>2, <2>1, <2>2, <2>3
<1>3. CASE ~ (Cardinality(fs) < MaxChanged)
  BY <1>3 DEF AddChanged
<1> QED BY <1>2, <1>3

\* The list after a poll is one the array can hold.
LEMMA ChangedTypes ==
    ASSUME NEW events \in Seq(Queued),
           changed \subseteq Watched, IsFiniteSet(changed), Cardinality(changed) <= MaxChanged
    PROVE  /\ ChangedAfter(events) \subseteq Watched /\ IsFiniteSet(ChangedAfter(events))
           /\ Cardinality(ChangedAfter(events)) <= MaxChanged
<1> DEFINE L == Len(events)
           D == 0 .. L
           V == {fs \in SUBSET Watched : IsFiniteSet(fs) /\ Cardinality(fs) <= MaxChanged}
           E(n, f) == IF n = 0 THEN changed
                      ELSE IF Notes(events[n]) THEN AddChanged(f[n - 1], events[n]) ELSE f[n - 1]
           r == [n \in D |-> n]
           G == [n \in D |-> [f \in [D -> V] |-> E(n, f)]]
<1>0. L \in Nat /\ \A n \in 1 .. L : events[n] \in Queued
  OBVIOUS
<1>1. changed \in V
  OBVIOUS
<1>2. \A n \in D : n # 0 => n \in 1 .. L /\ n - 1 \in D /\ n - 1 < n
  BY <1>0
<1>3. ASSUME NEW fs \in V, NEW n \in 1 .. L, Notes(events[n]) PROVE AddChanged(fs, events[n]) \in V
  BY <1>0, <1>3, AddChangedKeeps
<1> HIDE DEF V
<1>4. ASSUME NEW f, NEW n \in D, n - 1 \in D => f[n - 1] \in V PROVE E(n, f) \in V
  <2>1. CASE n = 0
    BY <1>1, <2>1
  <2>2. CASE n # 0
    <3>1. n \in 1 .. L /\ f[n - 1] \in V
      BY <1>2, <1>4, <2>2
    <3>2. CASE Notes(events[n])
      <4>1. AddChanged(f[n - 1], events[n]) \in V
        BY <1>3, <3>1, <3>2
      <4> QED BY <2>2, <3>2, <4>1
    <3>3. CASE ~ Notes(events[n])
      BY <2>2, <3>1, <3>3
    <3> QED BY <3>2, <3>3
  <2> QED BY <2>1, <2>2
<1>5. ASSUME NEW n \in D, NEW f, NEW g, \A y \in D : r[y] < r[n] => f[y] = g[y]
      PROVE  E(n, f) = E(n, g)
  <2>1. CASE n = 0
    BY <2>1
  <2>2. CASE n # 0
    <3>1. f[n - 1] = g[n - 1]
      BY <1>2, <1>5, <2>2
    <3> QED BY <3>1
  <2> QED BY <2>1, <2>2
<1>6. r \in [D -> Nat]
  BY <1>0
<1>7. \A n \in D : r[n] = n
  OBVIOUS
<1> HIDE DEF r, D
<1>8. Body(D, V, r, G)
  <2>1. \A n \in D : \A f \in [D -> V] : E(n, f) \in V
    BY <1>4
  <2> HIDE DEF E
  <2>2. G \in [D -> [[D -> V] -> V]]
    BY <2>1
  <2>3. \A n \in D : \A f \in [D -> V] : G[n][f] = E(n, f)
    OBVIOUS
  <2>4. ASSUME NEW n \in D, NEW f \in [D -> V], NEW g \in [D -> V],
               \A y \in D : r[y] < r[n] => f[y] = g[y]
        PROVE  G[n][f] = G[n][g]
    <3>1. E(n, f) = E(n, g)
      BY <1>5, <2>4
    <3> HIDE DEF G
    <3> QED BY <2>3, <3>1
  <2> HIDE DEF G
  <2> QED BY <1>6, <2>2, <2>4 DEF Body
<1> DEFINE H == CHOOSE h : h = [n \in D |-> E(n, h)]
<1>9. ChangedAfter(events) = H[L]
  BY DEF ChangedAfter, D
<1>10. \E h : h = [n \in D |-> E(n, h)]
  <2>1. PICK h \in [D -> V] : \A n \in D : h[n] = G[n][h]
    <3>1. V # {}
      BY <1>1
    <3> HIDE DEF G
    <3> QED BY <1>8, <3>1, SolutionExists
  <2> HIDE DEF E
  <2>2. \A n \in D : h[n] = E(n, h)
    BY <2>1
  <2> HIDE DEF G
  <2>3. h = [n \in D |-> E(n, h)]
    BY <2>1, <2>2
  <2> QED BY <2>3
<1>11. H = [n \in D |-> E(n, H)]
  <2> HIDE DEF E
  <2> QED BY <1>10
<1> HIDE DEF H, E, G
<1>12. \A n \in D : H[n] = E(n, H)
  BY <1>11
<1>13. \A n \in D : H[n] \in V
  <2> DEFINE T == {n \in D : H[n] \notin V}
  <2>1. SUFFICES ASSUME T # {} PROVE FALSE
    OBVIOUS
  <2>2. PICK n \in T : \A m \in T : n <= m
    <3>1. T \subseteq Nat
      BY <1>0 DEF D
    <3> HIDE DEF T
    <3> QED BY <2>1, <3>1, LeastNatural
  <2>3. n \in D /\ H[n] \notin V
    BY <2>2
  <2>4. n - 1 \in D => H[n - 1] \in V
    <3>1. n \in Int /\ ~ (n <= n - 1)
      BY <1>0, <2>3 DEF D
    <3> QED BY <2>2, <3>1
  <2>5. E(n, H) \in V
    BY <1>4, <2>3, <2>4
  <2> QED BY <1>12, <2>3, <2>5
<1>14. L \in D
  BY <1>0 DEF D
<1> QED BY <1>9, <1>13, <1>14 DEF V
-----------------------------------------------------------------------------
\* cmd_watch starts with an empty ring and no permit.
LEMMA WatchStarts == WatchInit => WatchInv
<1> SUFFICES ASSUME WatchInit PROVE WatchInv
  OBVIOUS
<1>1. IsFiniteSet({}) /\ Cardinality({}) = 0
  BY FS_EmptySet
<1>2. <<>> \in Seq(Reported) /\ <<>> \in Seq(Queued) /\ Len(<<>>) = 0
  BY EmptySeq
<1>3. content \in [DiskFiles -> [inode : Nat, edit : Nat]]
  BY DEF WatchInit, Absent
<1>4. /\ mutex = "free" /\ ring = <<>> /\ semaphore = 0 /\ overdrawn = 0 /\ changed = {}
      /\ mainPc \in {"poll", "compile"} /\ toRead \subseteq Watched /\ lost = {}
      /\ edits = 0 /\ reports = <<>> /\ callback = <<>>
  BY DEF WatchInit
<1>5. WatchTypeOK
  BY <1>1, <1>2, <1>4 DEF WatchTypeOK
<1>6. PermitsMatchEvents
  BY <1>2, <1>4 DEF PermitsMatchEvents
<1> QED BY <1>1, <1>2, <1>3, <1>4, <1>5, <1>6 DEF WatchInv

\* What FSEvents is told of a change.
LEMMA EditKeeps ==
    ASSUME WatchInv, NEW new \in [DiskFiles -> [inode : Nat, edit : Nat]],
           NEW rs \in Seq(Reported), Edit(new, rs)
    PROVE  WatchInv'
<1>1. /\ edits' = edits + 1 /\ content' = new /\ reports' = reports \o rs
      /\ UNCHANGED <<callback, mutex, ring, semaphore, overdrawn, mainPc, changed, toRead, lost>>
  BY DEF Edit, fswVars, noteVars, buildVars
<1>2. reports' \in Seq(Reported)
  BY <1>1, ConcatProperties DEF WatchInv
<1>3. edits' \in Nat
  BY <1>1 DEF WatchInv
<1>4. WatchTypeOK' /\ PermitsMatchEvents'
  BY <1>1 DEF WatchInv, WatchTypeOK, PermitsMatchEvents
<1> QED BY <1>1, <1>2, <1>3, <1>4 DEF WatchInv

\* A change of a file is reported as an event that the ring may hold.
LEMMA ReportTypes ==
    ASSUME NEW flags \in SUBSET {"created", "modified", "removed", "renamed", "scan"},
           NEW f \in DiskFiles, NEW inode \in Nat
    PROVE  Report(flags, f, inode) \in Reported
  BY DEF Report, Reported

\* Changes of the file system touch neither the ring nor cmd_watch.
LEMMA FileSystemKeeps ==
    ASSUME WatchInv, FileSystem
    PROVE  WatchInv'
<1>0. content \in [DiskFiles -> [inode : Nat, edit : Nat]] /\ edits \in Nat
  BY DEF WatchInv
<1>a. Absent \in [inode : Nat, edit : Nat]
  BY DEF Absent
<1>b. \A f \in DiskFiles : content[f] \in [inode : Nat, edit : Nat] /\ content[f].inode \in Nat
  BY <1>0
<1>1. ASSUME NEW f \in DiskFiles, Write(f) PROVE WatchInv'
  <2> DEFINE inode == IF content[f] = Absent THEN edits + 2 ELSE content[f].inode
             flags == IF content[f] = Absent THEN {"created", "modified"} ELSE {"modified"}
  <2>0. /\ inode \in Nat
        /\ flags \in SUBSET {"created", "modified", "removed", "renamed", "scan"}
    BY <1>0, <1>b
  <2>1. Edit([content EXCEPT ![f] = [inode |-> inode, edit |-> edits + 1]],
             <<Report(flags, f, inode)>>)
    BY <1>1 DEF Write
  <2> HIDE DEF inode, flags
  <2>2. [inode |-> inode, edit |-> edits + 1] \in [inode : Nat, edit : Nat]
    BY <1>0, <2>0
  <2>3. [content EXCEPT ![f] = [inode |-> inode, edit |-> edits + 1]]
           \in [DiskFiles -> [inode : Nat, edit : Nat]]
    BY <1>0, <2>2
  <2>4. Report(flags, f, inode) \in Reported
    BY <2>0, ReportTypes
  <2>5. <<Report(flags, f, inode)>> \in Seq(Reported)
    BY <2>4
  <2> QED BY <2>1, <2>3, <2>5, EditKeeps
<1>2. ASSUME NEW f \in DiskFiles, Delete(f) PROVE WatchInv'
  <2>1. Edit([content EXCEPT ![f] = Absent], <<Report({"removed"}, f, content[f].inode)>>)
    BY <1>2 DEF Delete
  <2>2. [content EXCEPT ![f] = Absent] \in [DiskFiles -> [inode : Nat, edit : Nat]]
    BY <1>0, <1>a
  <2>3. Report({"removed"}, f, content[f].inode) \in Reported
    BY <1>b, ReportTypes
  <2>4. <<Report({"removed"}, f, content[f].inode)>> \in Seq(Reported)
    BY <2>3
  <2> QED BY <2>1, <2>2, <2>4, EditKeeps
<1>3. ASSUME NEW f \in DiskFiles, NEW g \in DiskFiles, Move(f, g) PROVE WatchInv'
  <2> DEFINE A == Report({"renamed"}, f, content[f].inode)
             B == Report({"renamed"}, g, content[f].inode)
  <2>1. Edit([content EXCEPT ![f] = Absent, ![g] = content[f]], <<A, B>>)
    BY <1>3 DEF Move
  <2>2. [content EXCEPT ![f] = Absent, ![g] = content[f]] \in [DiskFiles -> [inode : Nat, edit : Nat]]
    BY <1>0, <1>a, <1>b
  <2>3. A \in Reported /\ B \in Reported
    BY <1>b, ReportTypes
  <2> HIDE DEF A, B
  <2>4. <<A, B>> \in Seq(Reported)
    BY <2>3
  <2> QED BY <2>1, <2>2, <2>4, EditKeeps
<1>4. CASE KernelDrops
  <2> DEFINE all == [Report({"scan"}, Root, 0) EXCEPT !.about = About(reports)]
  <2>1. reports \in Seq(Reported)
    BY DEF WatchInv
  <2>2. About(reports) \in SUBSET DiskFiles
    <3>1. \A n \in 1 .. Len(reports) : reports[n] \in Reported
      BY <2>1
    <3>2. \A n \in 1 .. Len(reports) : reports[n].about \in SUBSET DiskFiles
      BY <3>1 DEF Reported
    <3> QED BY <3>2 DEF About
  <2>3. all \in Reported
    BY <2>2 DEF Report, Reported
  <2>4. /\ reports' = <<all>>
        /\ UNCHANGED <<content, edits, callback, mutex, ring, semaphore, overdrawn, mainPc, changed,
                       toRead, lost>>
    BY <1>4 DEF KernelDrops, fswVars, noteVars, buildVars
  <2> HIDE DEF all
  <2>5. reports' \in Seq(Reported)
    BY <2>3, <2>4
  <2>6. WatchTypeOK' /\ PermitsMatchEvents'
    BY <2>4 DEF WatchInv, WatchTypeOK, PermitsMatchEvents
  <2> QED BY <2>4, <2>5, <2>6 DEF WatchInv
<1> QED BY <1>1, <1>2, <1>3, <1>4 DEF FileSystem

\* A batch is cut off the reports.
LEMMA CallbackStartsKeeps ==
    ASSUME WatchInv, CallbackStarts
    PROVE  WatchInv'
<1>1. PICK n \in 1 .. Len(reports) :
         /\ callback' = SubSeq(reports, 1, n)
         /\ reports' = SubSeq(reports, n + 1, Len(reports))
  BY DEF CallbackStarts
<1>2. UNCHANGED <<content, edits, mutex, ring, semaphore, overdrawn, mainPc, changed, toRead, lost>>
  BY DEF CallbackStarts, fswVars, noteVars, buildVars
<1>3. reports \in Seq(Reported) /\ Len(reports) \in Nat
  BY DEF WatchInv
<1>4. callback' \in Seq(Reported)
  BY <1>1, <1>3
<1>5. reports' \in Seq(Reported)
  BY <1>1, <1>3
<1>6. WatchTypeOK' /\ PermitsMatchEvents'
  BY <1>2 DEF WatchInv, WatchTypeOK, PermitsMatchEvents
<1> QED BY <1>2, <1>4, <1>5, <1>6 DEF WatchInv

\* The files that events stand for.
LEMMA AboutTypes ==
    ASSUME NEW s \in Seq(Queued)
    PROVE  About(s) \in SUBSET DiskFiles
<1>1. \A n \in 1 .. Len(s) : s[n] \in Queued
  OBVIOUS
<1>2. \A n \in 1 .. Len(s) : s[n].about \in SUBSET DiskFiles
  BY <1>1 DEF Queued
<1> QED BY <1>2 DEF About

\* The callback signals once for each event it puts into the ring.
LEMMA CallbackRunsKeeps ==
    ASSUME WatchInv, CallbackRuns
    PROVE  WatchInv'
<1> DEFINE events == IF linked THEN EventsOf(callback) ELSE <<>>
           pushed == Pushed(events)
           over == SubSeq(events, Len(pushed) + 1, Len(events))
<1>0. /\ ring \in Seq(Queued) /\ Len(ring) \in Nat /\ Len(ring) <= RingCap /\ RingCap \in Nat
      /\ semaphore \in Nat /\ overdrawn \in Nat /\ lost \in SUBSET DiskFiles
      /\ semaphore + overdrawn + (IF mainPc = "drain" THEN 1 ELSE 0) = Len(ring)
  BY DEF WatchInv, WatchTypeOK, PermitsMatchEvents
<1>1. /\ ring' = ring \o pushed
      /\ semaphore' = semaphore + Len(pushed)
      /\ lost' = lost \cup About(over)
      /\ callback' = <<>>
      /\ UNCHANGED <<content, edits, reports, mutex, overdrawn, mainPc, changed, toRead>>
  BY DEF CallbackRuns, Signals, fsVars, noteVars, buildVars
<1>2. events \in Seq(Queued) /\ Len(events) \in Nat
  <2>1. EventsOf(callback) \in Seq(Queued)
    BY EventsTypes DEF WatchInv
  <2>2. events \in Seq(Queued)
    BY <2>1, EmptySeq
  <2> HIDE DEF events
  <2> QED BY <2>2
<1> HIDE DEF events
<1>3. /\ pushed \in Seq(Queued) /\ Len(pushed) \in 0 .. Len(events)
      /\ Len(ring) + Len(pushed) <= RingCap
  <2> DEFINE k == Least(RingCap - Len(ring), Len(events))
  <2>1. k \in 0 .. Len(events) /\ Len(ring) + k <= RingCap
    BY <1>0, <1>2 DEF Least
  <2> HIDE DEF k
  <2>2. SubSeq(events, 1, k) \in Seq(Queued) /\ Len(SubSeq(events, 1, k)) = k
    BY <1>2, <2>1
  <2> QED BY <2>1, <2>2 DEF Pushed, k
<1> HIDE DEF pushed
<1>4. over \in Seq(Queued)
  BY <1>2, <1>3
<1> HIDE DEF over
<1>5. lost' \in SUBSET DiskFiles
  BY <1>0, <1>1, <1>4, AboutTypes
<1>6. ring' \in Seq(Queued) /\ Len(ring') = Len(ring) + Len(pushed)
  BY <1>0, <1>1, <1>3, ConcatProperties
<1>7. Len(pushed) \in Nat /\ semaphore' \in Nat
  BY <1>0, <1>1, <1>2, <1>3
<1>8. WatchTypeOK'
  BY <1>1, <1>3, <1>5, <1>6, <1>7 DEF WatchInv, WatchTypeOK
<1>9. PermitsMatchEvents'
  <2> DEFINE d == IF mainPc = "drain" THEN 1 ELSE 0
  <2>1. d \in Nat /\ semaphore + overdrawn + d = Len(ring)
    BY <1>0
  <2>2. d = IF mainPc' = "drain" THEN 1 ELSE 0
    BY <1>1
  <2> HIDE DEF d
  <2>3. semaphore' = semaphore + Len(pushed) /\ overdrawn' = overdrawn
    BY <1>1
  <2>4. semaphore \in Nat /\ overdrawn \in Nat /\ Len(ring) \in Nat
    BY <1>0
  <2> DEFINE a == Len(ring)
             b == Len(pushed)
             c == Len(ring')
  <2>5. a \in Nat /\ b \in Nat /\ c = a + b /\ semaphore + overdrawn + d = a
    BY <1>6, <1>7, <2>1, <2>4
  <2>6. semaphore' = semaphore + b
    BY <2>3
  <2> HIDE DEF a, b, c
  <2>7. semaphore' + overdrawn' + d = c
    BY <2>1, <2>3, <2>4, <2>5, <2>6
  <2> QED BY <2>2, <2>7 DEF PermitsMatchEvents, c
<1>10. callback' \in Seq(Reported)
  BY <1>1, EmptySeq
<1> QED BY <1>1, <1>6, <1>8, <1>9, <1>10 DEF WatchInv

Skipped(e, N) == UNION {e[n].about : n \in (1 .. Len(e)) \ N}
PathsOf(e, N) == {e[n].path : n \in N}

\* A poll takes an event for each permit; the permit that it takes after the
\* last event it may pop is the one of an event it leaves.
LEMMA DrainKeeps ==
    ASSUME WatchInv, Drain
    PROVE  WatchInv'
<1> DEFINE events == SubSeq(ring, 1, Popped)
           noted == {n \in 1 .. Len(events) : Notes(events[n])}
<1>0. /\ ring \in Seq(Queued) /\ Len(ring) \in Nat /\ Len(ring) <= RingCap /\ RingCap \in Nat
      /\ semaphore \in Nat /\ overdrawn \in Nat /\ lost \in SUBSET DiskFiles
      /\ PollMax \in Nat \ {0} /\ mainPc = "drain"
      /\ semaphore + overdrawn + 1 = Len(ring)
  <2>1. mainPc = "drain"
    BY DEF Drain
  <2>2. WatchTypeOK /\ PermitsMatchEvents /\ ring \in Seq(Queued)
    BY DEF WatchInv
  <2>3. semaphore + overdrawn + 1 = Len(ring)
    BY <2>1, <2>2 DEF PermitsMatchEvents
  <2> QED BY <2>1, <2>2, <2>3 DEF WatchTypeOK
<1>1. /\ Popped \in 1 .. Len(ring) /\ Taken \in Nat /\ Taken <= semaphore
      /\ Taken - (Popped - 1) \in Nat /\ Taken >= Popped - 1
  BY <1>0 DEF Popped, Taken, Least
<1>2. /\ ring' = SubSeq(ring, Popped + 1, Len(ring))
      /\ semaphore' = semaphore - Taken
      /\ overdrawn' = overdrawn + Taken - (Len(events) - 1)
      /\ changed' = ChangedAfter(events)
      /\ mainPc' = "loop"
      /\ UNCHANGED <<content, edits, reports, callback, mutex, toRead>>
  BY DEF Drain, fsVars, buildVars
<1>drops. lost' = lost \cup Skipped(events, noted)
                       \cup (IF checkOnly THEN PathsOf(events, noted) \ changed' ELSE {})
  BY DEF Drain, Skipped, PathsOf
<1>3. events \in Seq(Queued) /\ Len(events) = Popped
  BY <1>0, <1>1
<1>4. ring' \in Seq(Queued) /\ Len(ring') = Len(ring) - Popped
  BY <1>0, <1>1, <1>2
<1> HIDE DEF events
<1>5. /\ changed' \subseteq Watched /\ IsFiniteSet(changed') /\ Cardinality(changed') <= MaxChanged
  BY <1>2, <1>3, ChangedTypes DEF WatchInv, WatchTypeOK
<1>6. lost' \in SUBSET DiskFiles
  <2>1. \A n \in 1 .. Len(events) : events[n] \in Queued
    BY <1>3
  <2>2. \A n \in 1 .. Len(events) : events[n].about \in SUBSET DiskFiles
    BY <2>1 DEF Queued
  <2>3. \A n \in noted : events[n].path \in DiskFiles
    BY <2>1 DEF Queued, Notes, ShouldReport
  <2> HIDE DEF noted
  <2>5. lost' \subseteq lost \cup Skipped(events, noted) \cup PathsOf(events, noted)
    BY <1>drops
  <2>6. Skipped(events, noted) \subseteq DiskFiles
    BY <2>2 DEF Skipped
  <2>7. PathsOf(events, noted) \subseteq DiskFiles
    BY <2>3 DEF PathsOf
  <2> QED BY <1>0, <2>5, <2>6, <2>7
<1> HIDE DEF noted
<1>7. semaphore' \in Nat /\ overdrawn' \in Nat /\ Len(ring') <= RingCap
  BY <1>0, <1>1, <1>2, <1>3, <1>4
<1>8. semaphore' + overdrawn' = Len(ring')
  <2> DEFINE a == Len(ring)
             c == Len(ring')
             t == Taken
             p == Popped
  <2>1. a \in Nat /\ t \in Nat /\ p \in Nat /\ semaphore \in Nat /\ overdrawn \in Nat
    BY <1>0, <1>1
  <2>2. c = a - p /\ semaphore + overdrawn + 1 = a
    BY <1>0, <1>4
  <2>3. semaphore' = semaphore - t /\ overdrawn' = overdrawn + t - (p - 1)
    BY <1>2, <1>3
  <2> HIDE DEF a, c, t, p
  <2>4. semaphore' + overdrawn' = c
    BY <2>1, <2>2, <2>3
  <2> QED BY <2>4 DEF c
<1>9. WatchTypeOK'
  BY <1>2, <1>5, <1>6, <1>7 DEF WatchInv, WatchTypeOK
<1>10. PermitsMatchEvents'
  <2>1. (IF mainPc' = "drain" THEN 1 ELSE 0) = 0
    BY <1>2
  <2> DEFINE d == IF mainPc' = "drain" THEN 1 ELSE 0
             c == Len(ring')
  <2>2. d = 0 /\ semaphore' + overdrawn' = c
    BY <1>8, <2>1
  <2> HIDE DEF d, c
  <2>3. semaphore' + overdrawn' + d = c
    BY <1>7, <2>2
  <2> QED BY <2>3 DEF PermitsMatchEvents, c, d
<1> QED BY <1>2, <1>4, <1>5, <1>9, <1>10 DEF WatchInv

\* The rest of the main loop and the end.
LEMMA MainKeeps ==
    ASSUME WatchInv, Main
    PROVE  WatchInv'
<1>0. /\ semaphore \in Nat /\ overdrawn \in Nat /\ Len(ring) \in Nat
      /\ IsFiniteSet({}) /\ Cardinality({}) = 0 /\ MaxChanged \in Nat
  BY FS_EmptySet DEF WatchInv, WatchTypeOK
<1>1. CASE PollWakes
  <2>1. /\ mainPc = "poll" /\ mainPc' = "drain" /\ semaphore > 0 /\ semaphore' = semaphore - 1
        /\ UNCHANGED <<content, edits, reports, callback, mutex, ring, overdrawn, changed,
                       toRead, lost>>
    BY <1>1 DEF PollWakes, fsVars, noteVars, buildVars
  <2>2. semaphore' \in Nat /\ semaphore' + 1 = semaphore
    BY <1>0, <2>1
  <2>3. PermitsMatchEvents'
    <3>1. semaphore + overdrawn = Len(ring)
      BY <1>0, <2>1 DEF WatchInv, PermitsMatchEvents
    <3> QED BY <1>0, <2>1, <2>2, <3>1 DEF PermitsMatchEvents
  <2>4. WatchTypeOK'
    BY <2>1, <2>2 DEF WatchInv, WatchTypeOK
  <2> QED BY <2>1, <2>3, <2>4 DEF WatchInv
<1>2. CASE WaitTimesOut \/ NothingToDo
  <2>1. /\ mainPc # "drain" /\ mainPc' \in {"poll", "loop"}
        /\ UNCHANGED <<content, edits, reports, callback, mutex, ring, semaphore, overdrawn,
                       changed, toRead, lost>>
    BY <1>2 DEF WaitTimesOut, NothingToDo, fsVars, fswVars, noteVars, buildVars
  <2>2. PermitsMatchEvents'
    BY <1>0, <2>1 DEF WatchInv, PermitsMatchEvents
  <2>3. WatchTypeOK'
    BY <2>1 DEF WatchInv, WatchTypeOK
  <2> QED BY <2>1, <2>2, <2>3 DEF WatchInv
<1>3. CASE Drain
  BY <1>3, DrainKeeps
<1>4. CASE StartCompile
  <2>1. /\ mainPc # "drain" /\ mainPc' = "compile"
        /\ UNCHANGED <<content, edits, reports, callback, mutex, ring, semaphore, overdrawn,
                       changed>>
    BY <1>4 DEF StartCompile, fsVars, fswVars
  <2>2. toRead' \subseteq Watched /\ lost' \in SUBSET DiskFiles
    BY <1>4 DEF StartCompile, WatchInv, WatchTypeOK
  <2>3. PermitsMatchEvents'
    BY <1>0, <2>1 DEF WatchInv, PermitsMatchEvents
  <2>4. WatchTypeOK'
    BY <2>1, <2>2 DEF WatchInv, WatchTypeOK
  <2> QED BY <2>1, <2>3, <2>4 DEF WatchInv
<1>5. CASE Compile
  <2>1. /\ mainPc # "drain" /\ mainPc' = "poll" /\ changed' = {} /\ toRead' = {}
        /\ UNCHANGED <<content, edits, reports, callback, mutex, ring, semaphore, overdrawn>>
    BY <1>5 DEF Compile, fsVars, fswVars
  <2>2. lost' \in SUBSET DiskFiles
    BY <1>5 DEF Compile, WatchInv, WatchTypeOK
  <2>3. PermitsMatchEvents'
    BY <1>0, <2>1 DEF WatchInv, PermitsMatchEvents
  <2>4. WatchTypeOK'
    BY <1>0, <2>1, <2>2 DEF WatchInv, WatchTypeOK
  <2> QED BY <1>0, <2>1, <2>3, <2>4 DEF WatchInv
<1>6. CASE Unlink
  <2>1. /\ mainPc # "drain" /\ mainPc' = "invalidate" /\ mutex' = "free"
        /\ UNCHANGED <<content, edits, reports, callback, ring, semaphore, overdrawn, changed,
                       toRead, lost>>
    BY <1>6 DEF Unlink, HeldWhileInvalidating, fsVars, noteVars, buildVars
  <2>2. PermitsMatchEvents'
    BY <1>0, <2>1 DEF WatchInv, PermitsMatchEvents
  <2>3. WatchTypeOK'
    BY <2>1 DEF WatchInv, WatchTypeOK
  <2> QED BY <2>1, <2>2, <2>3 DEF WatchInv
<1>7. CASE Invalidate
  <2>1. /\ mainPc' = "gone" /\ mutex' = "free" /\ ring' = <<>> /\ semaphore' = 0 /\ overdrawn' = 0
        /\ UNCHANGED <<content, edits, reports, callback, changed, toRead, lost>>
    BY <1>7 DEF Invalidate, fsVars, noteVars, buildVars
  <2>2. ring' \in Seq(Queued) /\ Len(ring') = 0
    BY <2>1, EmptySeq
  <2>3. PermitsMatchEvents'
    BY <2>1, <2>2 DEF PermitsMatchEvents
  <2>4. WatchTypeOK'
    BY <2>1, <2>2 DEF WatchInv, WatchTypeOK
  <2> QED BY <2>1, <2>2, <2>3, <2>4 DEF WatchInv
<1> QED BY <1>1, <1>2, <1>3, <1>4, <1>5, <1>6, <1>7 DEF Main

\* Every step of the file system, the callback and cmd_watch keeps the invariant.
LEMMA WatchStep ==
    ASSUME WatchInv, [WatchNext]_watchVars
    PROVE  WatchInv'
<1>1. CASE FileSystem
  BY <1>1, FileSystemKeeps
<1>2. CASE CallbackStarts
  BY <1>2, CallbackStartsKeeps
<1>3. CASE CallbackRuns
  BY <1>3, CallbackRunsKeeps
<1>4. CASE Main
  BY <1>4, MainKeeps
<1>5. CASE DebouncePasses \/ Interrupt \/ UNCHANGED watchVars
  <2>1. UNCHANGED <<content, edits, reports, callback, mutex, ring, semaphore, overdrawn, mainPc,
                    changed, toRead, lost>>
    BY <1>5 DEF DebouncePasses, Interrupt, watchVars, fsVars, fswVars, noteVars, buildVars
  <2>2. WatchTypeOK' /\ PermitsMatchEvents'
    BY <2>1 DEF WatchInv, WatchTypeOK, PermitsMatchEvents
  <2> QED BY <2>1, <2>2 DEF WatchInv
<1> QED BY <1>1, <1>2, <1>3, <1>4, <1>5 DEF WatchNext

\* The invariant holds of every behaviour of cmd_watch and its watcher.
THEOREM WatchInvariance == WatchSpec => []WatchInv
<1>1. WatchInit => WatchInv
  BY WatchStarts
<1>2. WatchInv /\ [WatchNext]_watchVars => WatchInv'
  BY WatchStep
<1> QED BY <1>1, <1>2, PTL DEF WatchSpec

\* The semaphore of bebop_fsw_poll has one permit for each event in the ring,
\* but for those that polls at their limit took: for any sizes of the ring and
\* of a poll, and however callbacks, polls and the end interleave.
THEOREM PermitsMatch == WatchSpec => []PermitsMatchEvents
<1>1. WatchInv => PermitsMatchEvents
  BY DEF WatchInv
<1> QED BY <1>1, WatchInvariance, PTL

\* The ring of _fsw_buffer_push and the list of watch_add_changed never hold
\* more than their arrays, and only watched files are compiled.
THEOREM WatchBounds == WatchSpec => []WatchTypeOK
<1>1. WatchInv => WatchTypeOK
  BY DEF WatchInv
<1> QED BY <1>1, WatchInvariance, PTL
=============================================================================
