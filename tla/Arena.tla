------------------------------- MODULE Arena -------------------------------
(***************************************************************************)
(* The bump allocator every parse, validation and descriptor of the C      *)
(* library lives in (bebop/src/bebop_arena.c): a list of chunks obtained   *)
(* from the host allocator, blocks carved from the last one, realloc that  *)
(* grows the newest block in place, reset and destroy.                     *)
(*                                                                         *)
(* Addresses and sizes are numbers of one address space, and size_t is     *)
(* 0 .. SizeMax with wrap-around.  A request that is refused (size 0, too  *)
(* large, or the host allocator has no memory) returns NULL and leaves     *)
(* everything as it is.                                                    *)
(***************************************************************************)
EXTENDS Naturals, Sequences, FiniteSets

CONSTANTS
    SizeMax,        \* SIZE_MAX
    MemTop,         \* the host's memory is 0 .. MemTop - 1
    MinAlign,       \* BEBOP_ARENA_MIN_ALIGN
    ChunkSize,      \* BEBOP_ARENA_CHUNK_SIZE
    StructSize,     \* sizeof(bebop__chunk_t)
    Initials,       \* initial sizes an arena may be created with; 0 is the default
    Sizes,          \* sizes callers ask for
    Aligns,         \* alignments callers ask for
    MaxBlocks       \* bound: blocks handed out and not given up

\* bebop__align_up, for a power of two.
AlignUp(val, align) == ((val + align - 1) \div align) * align

ChunkHeader == AlignUp(StructSize, MinAlign)

ASSUME ArenaAssumption ==
    /\ {SizeMax, MemTop, MinAlign, ChunkSize, StructSize, MaxBlocks} \subseteq Nat
    /\ MinAlign > 0 /\ StructSize > 0 /\ ChunkHeader <= ChunkSize /\ ChunkSize <= SizeMax
    /\ Initials \subseteq 0 .. SizeMax /\ Sizes \subseteq 0 .. SizeMax
    /\ Aligns \subseteq Nat \ {0}
    /\ \A a \in Aligns : MemTop + a <= SizeMax

VARIABLES
    hosted,       \* the host allocator's live allocations, [mem, total]
    chunks,     \* the arena's list of chunks, [mem, capacity, used]; empty before init and once destroyed
    blocks      \* the blocks callers hold, [addr, size, align]

arenaVars == <<hosted, chunks, blocks>>

Chunk == [mem : Nat, capacity : Nat, used : Nat]
Block == [addr : Nat, size : Nat, align : Nat]

\* size_t arithmetic.
Wrap(n) == n % (SizeMax + 1)

\* bebop__chunk_data: (char*)(chunk + 1).
Data(c) == c.mem + StructSize

Current == chunks[Len(chunks)]

----------------------------------------------------------------------------
NoArena == hosted = {} /\ chunks = <<>> /\ blocks = {}

Apart(a, m, b, n) == a + m <= b \/ b + n <= a

\* The host allocator (external): memory aligned for any type and apart from all it has
\* handed out.
HostAlloc(mem, total) ==
    /\ mem + total <= MemTop
    /\ mem % MinAlign = 0
    /\ \A h \in hosted : Apart(mem, total, h.mem, h.total)
    /\ hosted' = hosted \cup {[mem |-> mem, total |-> total]}

\* bebop__chunk_alloc: at least a default chunk unless the caller wants the exact size.
DataSize(minData, useDefault) ==
    IF useDefault /\ minData < ChunkSize - ChunkHeader THEN ChunkSize - ChunkHeader ELSE minData

ChunkAlloc(mem, minData, useDefault, used) ==
    LET size == DataSize(minData, useDefault)
    IN  /\ size <= SizeMax - ChunkHeader
        /\ HostAlloc(mem, ChunkHeader + size)
        /\ chunks' = Append(chunks, [mem |-> mem, capacity |-> size, used |-> used])

\* bebop_arena_init.
ArenaInit ==
    /\ chunks = <<>>
    /\ \E mem \in 0 .. MemTop, initial \in Initials :
          ChunkAlloc(mem, IF initial > 0 THEN initial ELSE ChunkSize, initial = 0, 0)
    /\ UNCHANGED blocks

\* bebop__chunk_free of the chunks cs, with the size each was allocated with.
Freed(cs) == hosted \ {[mem |-> cs[i].mem, total |-> ChunkHeader + cs[i].capacity] : i \in 1 .. Len(cs)}

\* bebop_arena_destroy: every chunk from the head on.
ArenaDestroy ==
    /\ chunks # <<>>
    /\ hosted' = Freed(chunks)
    /\ chunks' = <<>> /\ blocks' = {}

\* bebop_arena_reset: every chunk but the head, which is emptied.
ArenaReset ==
    /\ chunks # <<>>
    /\ hosted' = Freed(Tail(chunks))
    /\ chunks' = <<[Head(chunks) EXCEPT !.used = 0]>> /\ blocks' = {}

----------------------------------------------------------------------------
\* bebop_arena_alloc.

AtLeastMin(align) == IF align < MinAlign THEN MinAlign ELSE align

\* Where a block would start in a chunk that has `used' bytes in use.
Offset(data, used, align) == AlignUp(data + used, align) - data

FitsIn(c, offset, size) == offset <= c.capacity /\ size <= c.capacity - offset

InRange(size, align) == size # 0 /\ size <= SizeMax - align

NewBlock(addr, size, align) == [addr |-> addr, size |-> size, align |-> align]

\* The block fits in the current chunk.
FromCurrent(size, align, held) ==
    LET c == Current
        offset == Offset(Data(c), c.used, align)
    IN  /\ FitsIn(c, offset, size)
        /\ chunks' = [chunks EXCEPT ![Len(chunks)].used = offset + size]
        /\ blocks' = held \cup {NewBlock(Data(c) + offset, size, align)}
        /\ UNCHANGED hosted

\* It does not: a new chunk becomes the current one.
Needed(size, align) == Wrap(size + align)

FromNewChunk(size, align, held) ==
    /\ ~FitsIn(Current, Offset(Data(Current), Current.used, align), size)
    /\ \E mem \in 0 .. MemTop :
          LET data == mem + StructSize
              offset == Offset(data, 0, align)
          IN  /\ ChunkAlloc(mem, Needed(size, align), TRUE, offset + size)
              /\ blocks' = held \cup {NewBlock(data + offset, size, align)}

AllocInto(size, align, held) ==
    /\ chunks # <<>> /\ InRange(size, align)
    /\ FromCurrent(size, align, held) \/ FromNewChunk(size, align, held)

\* bebop_arena_alloc as callers use it; bebop_arena_dup and bebop_arena_malloc ask for the
\* minimal alignment.
Alloc ==
    /\ Cardinality(blocks) < MaxBlocks
    /\ \E size \in Sizes, align \in Aligns : AllocInto(size, AtLeastMin(align), blocks)

\* bebop_arena_strndup: one byte more than the string, unless that would wrap.
Strndup ==
    /\ Cardinality(blocks) < MaxBlocks
    /\ \E len \in Sizes : len # SizeMax /\ AllocInto(Wrap(len + 1), AtLeastMin(1), blocks)

\* bebop_arena_realloc.

InPlace_AnyBlock(b, new) ==
    LET c == Current IN
    /\ b.addr >= Data(c) /\ b.addr - Data(c) <= c.capacity
    /\ b.size <= c.used
    /\ new <= c.capacity - (b.addr - Data(c))

\* The block is the newest of the current chunk and there is room to grow it.
InPlace(b, new) ==
    LET c == Current IN
    /\ b.addr >= Data(c) /\ b.addr - Data(c) <= c.capacity
    /\ b.size <= c.used /\ b.addr - Data(c) = c.used - b.size
    /\ new <= c.capacity - (b.addr - Data(c))

ReallocInPlace ==
    /\ chunks # <<>>
    /\ \E b \in blocks, new \in Sizes \ {0} :
          /\ InPlace(b, new)
          /\ chunks' = [chunks EXCEPT ![Len(chunks)].used = b.addr - Data(Current) + new]
          /\ blocks' = (blocks \ {b}) \cup {[b EXCEPT !.size = new]}
    /\ UNCHANGED hosted

\* Otherwise the contents move to a new block and the old one is given up.
ReallocMoves ==
    /\ chunks # <<>>
    /\ \E b \in blocks, new \in Sizes \ {0} :
          /\ ~InPlace(b, new)
          /\ AllocInto(new, MinAlign, blocks \ {b})

ArenaNext == ArenaInit \/ ArenaDestroy \/ ArenaReset \/ Alloc \/ Strndup \/ ReallocInPlace \/ ReallocMoves

ArenaSpec == NoArena /\ [][ArenaNext]_arenaVars

----------------------------------------------------------------------------
\* Types of the variables; a chunk never counts more bytes in use than it has.
ArenaTypeOK ==
    /\ hosted \subseteq [mem : Nat, total : Nat]
    /\ chunks \in Seq(Chunk) /\ \A i \in 1 .. Len(chunks) : chunks[i].used <= chunks[i].capacity
    /\ blocks \subseteq Block

\* Every block a caller holds lies in the memory of a chunk of the arena, past the chunk's
\* header and inside what the host allocated, at the alignment asked for: whatever sizes,
\* alignments and chunk boundaries a sequence of allocations meets.
BlocksInChunks ==
    \A b \in blocks :
        /\ b.addr % b.align = 0
        /\ \E i \in 1 .. Len(chunks) :
              /\ chunks[i].mem + StructSize <= b.addr
              /\ b.addr + b.size <= chunks[i].mem + ChunkHeader + chunks[i].capacity

\* No two blocks share a byte: an allocation never hands out memory a caller still holds,
\* also not after a block was grown or shrunk in place.
BlocksDisjoint ==
    \A b, d \in blocks : b # d => Apart(b.addr, b.size, d.addr, d.size)

\* The host allocator's live allocations are exactly the chunks of the list, each with the
\* size it is freed with: nothing leaks on reset, and destroy frees everything once.
HeapIsTheChunks ==
    /\ hosted = {[mem |-> chunks[i].mem, total |-> ChunkHeader + chunks[i].capacity] : i \in 1 .. Len(chunks)}
    /\ \A i, j \in 1 .. Len(chunks) : chunks[i].mem = chunks[j].mem => i = j

\* The three together, of the blocks, the chunks and the host's memory: whatever sequence of
\* allocations, reallocations and resets there was.
ArenaConsistent == BlocksInChunks /\ BlocksDisjoint /\ HeapIsTheChunks

=============================================================================
