------------------------------ MODULE WireArena ------------------------------
(***************************************************************************)
(* The arena behind Bebop_Context (bebop_wire.c): a list of blocks, newest *)
(* first, from which threads take regions without a lock.  An allocation   *)
(* reads the current block, publishes a new one with a compare-and-swap if *)
(* there is no room, and moves the block's `used' with another; a weak     *)
(* compare-and-swap may fail for no reason.  Every access to an atomic is  *)
(* a step of its own.                                                      *)
(*                                                                         *)
(* Each thread also has a Bebop_Writer, whose buffer is such a region and  *)
(* is replaced by a larger one when it is full.                            *)
(***************************************************************************)
EXTENDS Integers, FiniteSetsExt, SequencesExt

CONSTANTS
    Threads,
    BlockIds,           \* addresses malloc may return; a freed one may come back
    NoBlock,
    AlignTo,            \* BEBOP_ARENA_ALIGN
    HeaderSize,         \* sizeof(bebop_wire_arena_block_impl_t)
    InitialBlock,       \* options.initial_block_size
    MaxBlock,           \* options.max_block_size
    RequestSizes,       \* what callers ask for
    MaxCalls            \* bound: calls before the next reset

ASSUME WireArenaAssumption ==
    /\ IsFiniteSet(Threads) /\ IsFiniteSet(BlockIds)
    /\ NoBlock \notin BlockIds
    /\ NoBlock \notin [next : BlockIds \cup {NoBlock}, used : Nat, capacity : Nat]
    /\ NoBlock \notin [block : BlockIds, at : Nat, size : Nat, owner : Threads]
    /\ AlignTo \in Nat \ {0} /\ HeaderSize \in Nat \ {0}
    /\ InitialBlock \in Nat /\ MaxBlock \in Nat
    /\ RequestSizes \subseteq Nat

VARIABLES
    heap,           \* BlockIds -> [next, used, capacity], or NoBlock for what is not allocated
    current,        \* arena->current_block
    totalAllocated, \* arena->total_allocated
    totalUsed,      \* arena->total_used
    thread,         \* Threads -> where each is in a call, and its locals
    regions,        \* what callers hold: [block, at, size, owner]
    writer,         \* Threads -> [buffer, size, length] of its Bebop_Writer
    calls           \* calls since the last reset

arenaState == <<heap, current, totalAllocated, totalUsed>>
wireArenaVars == <<heap, current, totalAllocated, totalUsed, thread, regions, writer, calls>>

\* bebop_wire_align_size, for sizes that do not come within AlignTo of SIZE_MAX, where it wraps.
AlignSize(size) == ((size + AlignTo - 1) \div AlignTo) * AlignTo

\* bebop_wire_arena_allocate_block: the capacity of the block for `size' bytes; 0 for none.
BlockCapacity(size) ==
    LET required == AlignSize(size)
    IN  IF required > MaxBlock THEN 0
        ELSE Min({Max({InitialBlock, required}), MaxBlock})

Idle == [at |-> "idle"]

At(t, where) == thread[t].at = where

\* The thread goes on with one of its locals changed.
GoTo(t, where) == thread' = [thread EXCEPT ![t].at = where]

Aligned(t) == AlignSize(thread[t].size)
Cur(t) == thread[t].cur

\* Is there room for the thread's request in the block it read, when `used' is taken?
Fits(t, used) == used + Aligned(t) <= heap[Cur(t)].capacity

----------------------------------------------------------------------------
WireArenaInit ==
    /\ heap = [b \in BlockIds |-> NoBlock]
    /\ current = NoBlock
    /\ totalAllocated = 0 /\ totalUsed = 0
    /\ thread = [t \in Threads |-> Idle]
    /\ regions = {}
    /\ writer = [t \in Threads |-> Idle]
    /\ calls = 0

BeginCall(t, what, size, region) ==
    /\ At(t, "idle")
    /\ calls < MaxCalls
    /\ calls' = calls + 1
    /\ thread' = [thread EXCEPT ![t] =
                    [at |-> IF what = "realloc" THEN "top" ELSE "load", what |-> what, size |-> size,
                     region |-> region, cur |-> NoBlock, old |-> 0, new |-> NoBlock]]
    /\ UNCHANGED <<arenaState, regions, writer>>

\* bebop_context_alloc, bebop_context_alloc_array; of size 0, it returns NULL at once.
BeginAlloc(t) == \E size \in RequestSizes \ {0} : BeginCall(t, "alloc", size, NoBlock)

\* bebop_context_realloc of a region the caller holds, to a larger size: otherwise it returns
\* at once.
BeginRealloc(t) ==
    \E r \in regions, size \in RequestSizes :
        r.owner = t /\ r # writer[t] /\ size > r.size /\ BeginCall(t, "realloc", size, r)

\* bebop_context_writer: a buffer (the writer itself is a region like any other).
BeginWriter(t) ==
    /\ writer[t] = Idle
    /\ \E size \in RequestSizes \ {0} : BeginCall(t, "writer", size, NoBlock)

\* bebop_writer_reserve, past the end of a full buffer: the size is doubled until it is enough.
Doubled(size, target) ==
    LET newSize[n \in 0 .. target] ==
            IF n = 0 THEN size
            ELSE IF newSize[n - 1] < target THEN newSize[n - 1] * 2 ELSE newSize[n - 1]
    IN  newSize[target]

BeginReserve(t) ==
    /\ writer[t] # Idle
    /\ \E more \in RequestSizes \ {0} :
          BeginCall(t, "writer", Doubled(writer[t].size, writer[t].size + more), NoBlock)

----------------------------------------------------------------------------
\* bebop_wire_arena_alloc, one atomic access at a time.

LoadCurrent(t) ==
    /\ At(t, "load")
    /\ thread' = [thread EXCEPT ![t].cur = current,
                                ![t].at = IF current = NoBlock THEN "grow" ELSE "room"]
    /\ UNCHANGED <<arenaState, regions, writer, calls>>

CheckRoom(t) ==
    /\ At(t, "room")
    /\ GoTo(t, IF Fits(t, heap[Cur(t)].used) THEN "use" ELSE "grow")
    /\ UNCHANGED <<arenaState, regions, writer, calls>>

\* A block of its own, linked to the one it read; or NULL.
AllocateBlock(t) ==
    /\ At(t, "grow")
    /\ BlockCapacity(Aligned(t)) # 0
    /\ \E b \in BlockIds :
          /\ heap[b] = NoBlock
          /\ heap' = [heap EXCEPT ![b] = [next |-> Cur(t), used |-> 0,
                                          capacity |-> BlockCapacity(Aligned(t))]]
          /\ thread' = [thread EXCEPT ![t].new = b, ![t].at = "publish"]
    /\ UNCHANGED <<current, totalAllocated, totalUsed, regions, writer, calls>>

\* The request is too large, or the allocator has nothing left: NULL, and nothing changed.
AllocFails(t) ==
    /\ At(t, "grow")
    /\ thread' = [thread EXCEPT ![t] = Idle]
    /\ UNCHANGED <<arenaState, regions, writer, calls>>

Publish(t) ==
    /\ At(t, "publish")
    /\ current = Cur(t)
    /\ current' = thread[t].new
    /\ thread' = [thread EXCEPT ![t].cur = thread[t].new, ![t].at = "count"]
    /\ UNCHANGED <<heap, totalAllocated, totalUsed, regions, writer, calls>>

\* The swap failed, whether or not another block was published: the new block is freed.
PublishFails(t) ==
    /\ At(t, "publish")
    /\ heap' = [heap EXCEPT ![thread[t].new] = NoBlock]
    /\ thread' = [thread EXCEPT ![t].new = NoBlock, ![t].at = "load"]
    /\ UNCHANGED <<current, totalAllocated, totalUsed, regions, writer, calls>>

CountAllocated(t) ==
    /\ At(t, "count")
    /\ totalAllocated' = totalAllocated + HeaderSize + heap[Cur(t)].capacity
    /\ GoTo(t, "use")
    /\ UNCHANGED <<heap, current, totalUsed, regions, writer, calls>>

LoadUsed(t) ==
    /\ At(t, "use")
    /\ thread' = [thread EXCEPT ![t].old = heap[Cur(t)].used,
                                ![t].at = IF Fits(t, heap[Cur(t)].used) THEN "claim" ELSE "load"]
    /\ UNCHANGED <<arenaState, regions, writer, calls>>

\* A plain store instead of a compare-and-swap.
Claim_Store(t) ==
    /\ At(t, "claim")
    /\ heap' = [heap EXCEPT ![Cur(t)].used = thread[t].old + Aligned(t)]
    /\ GoTo(t, "tally")
    /\ UNCHANGED <<current, totalAllocated, totalUsed, regions, writer, calls>>

Claim(t) ==
    /\ At(t, "claim")
    /\ heap[Cur(t)].used = thread[t].old
    /\ heap' = [heap EXCEPT ![Cur(t)].used = @ + Aligned(t)]
    /\ GoTo(t, "tally")
    /\ UNCHANGED <<current, totalAllocated, totalUsed, regions, writer, calls>>

ClaimFails(t) ==
    /\ At(t, "claim")
    /\ GoTo(t, "load")
    /\ UNCHANGED <<arenaState, regions, writer, calls>>

\* total_used, and the return: to the caller, to realloc, which copies and lets go of the old
\* region, or to the writer, whose buffer it becomes.
Return(t) ==
    LET region == [block |-> Cur(t), at |-> thread[t].old, size |-> thread[t].size, owner |-> t]
    IN  /\ At(t, "tally")
        /\ totalUsed' = totalUsed + Aligned(t)
        /\ regions' = (regions \ {thread[t].region, IF thread[t].what = "writer" THEN writer[t] ELSE Idle})
                      \cup {region}
        /\ writer' = IF thread[t].what = "writer" THEN [writer EXCEPT ![t] = region] ELSE writer
        /\ thread' = [thread EXCEPT ![t] = Idle]
        /\ UNCHANGED <<heap, current, totalAllocated, calls>>

----------------------------------------------------------------------------
\* bebop_wire_arena_realloc: in place if the region is on top of the current block.

LoadTop(t) ==
    /\ At(t, "top")
    /\ thread' = [thread EXCEPT ![t].cur = current,
                                ![t].at = IF current = NoBlock THEN "load" ELSE "extend"]
    /\ UNCHANGED <<arenaState, regions, writer, calls>>

Extra(t) == Aligned(t) - AlignSize(thread[t].region.size)

CheckTop(t) ==
    LET used == heap[Cur(t)].used
        r == thread[t].region
        onTop == r.block = Cur(t) /\ r.at + AlignSize(r.size) = used
    IN  /\ At(t, "extend")
        /\ thread' = [thread EXCEPT ![t].old = used,
                        ![t].at = IF onTop /\ used + Extra(t) <= heap[Cur(t)].capacity
                                  THEN "stretch" ELSE "load"]
        /\ UNCHANGED <<arenaState, regions, writer, calls>>

Stretch(t) ==
    /\ At(t, "stretch")
    /\ heap[Cur(t)].used = thread[t].old
    /\ heap' = [heap EXCEPT ![Cur(t)].used = @ + Extra(t)]
    /\ GoTo(t, "stretched")
    /\ UNCHANGED <<current, totalAllocated, totalUsed, regions, writer, calls>>

StretchFails(t) ==
    /\ At(t, "stretch")
    /\ GoTo(t, "load")
    /\ UNCHANGED <<arenaState, regions, writer, calls>>

ReturnStretched(t) ==
    LET r == thread[t].region
    IN  /\ At(t, "stretched")
        /\ totalUsed' = totalUsed + Extra(t)
        /\ regions' = (regions \ {r}) \cup {[r EXCEPT !.size = thread[t].size]}
        /\ thread' = [thread EXCEPT ![t] = Idle]
        /\ UNCHANGED <<heap, current, totalAllocated, writer, calls>>

----------------------------------------------------------------------------
\* The blocks that reset and destroy walk: from the current one, along next.
Chain ==
    LET After[i \in 0 .. Cardinality(BlockIds)] ==
            IF i = 0 THEN {current} \ {NoBlock}
            ELSE After[i - 1] \cup ({heap[b].next : b \in After[i - 1]} \ {NoBlock})
    IN  After[Cardinality(BlockIds)]

\* bebop_context_reset: every block is freed and whatever was handed out is gone; the callers
\* see to it that no thread is inside.
ContextReset ==
    /\ calls > 0
    /\ \A t \in Threads : At(t, "idle")
    /\ heap' = [b \in BlockIds |-> IF b \in Chain THEN NoBlock ELSE heap[b]]
    /\ current' = NoBlock
    /\ totalAllocated' = 0 /\ totalUsed' = 0
    /\ regions' = {} /\ writer' = [t \in Threads |-> Idle]
    /\ calls' = 0
    /\ UNCHANGED thread

Step(t) ==
    \/ BeginAlloc(t) \/ BeginRealloc(t) \/ BeginWriter(t) \/ BeginReserve(t)
    \/ LoadCurrent(t) \/ CheckRoom(t) \/ AllocateBlock(t) \/ AllocFails(t)
    \/ Publish(t) \/ PublishFails(t) \/ CountAllocated(t)
    \/ LoadUsed(t) \/ Claim(t) \/ ClaimFails(t) \/ Return(t)
    \/ LoadTop(t) \/ CheckTop(t) \/ Stretch(t) \/ StretchFails(t) \/ ReturnStretched(t)

WireArenaNext == (\E t \in Threads : Step(t)) \/ ContextReset

WireArenaSpec == WireArenaInit /\ [][WireArenaNext]_wireArenaVars

----------------------------------------------------------------------------
BytesOf(r) == r.at .. r.at + r.size - 1

\* What two callers hold never overlaps, lies below the mark and the capacity of a block that
\* is in the list, and each writer's buffer is one of those regions: whatever the order in
\* which the threads read, grow, publish, claim, stretch and give up.
RegionsDistinct ==
    /\ \A r \in regions :
          r.block \in Chain /\ r.at + r.size <= heap[r.block].used
          /\ heap[r.block].used <= heap[r.block].capacity
    /\ \A r, s \in regions : r # s /\ r.block = s.block => BytesOf(r) \cap BytesOf(s) = {}
    /\ \A t \in Threads : writer[t] = Idle \/ writer[t] \in regions

\* No block is lost: each one that is allocated is in the list or about to be published by
\* one thread; and when no thread is inside, the two counters are the sums over the list.
NothingLeaks ==
    /\ \A b \in BlockIds :
          heap[b] # NoBlock =>
              b \in Chain \/ \E t \in Threads : At(t, "publish") /\ thread[t].new = b
    /\ (\A t \in Threads : At(t, "idle")) =>
          /\ totalAllocated = MapThenSumSet(LAMBDA b : HeaderSize + heap[b].capacity, Chain)
          /\ totalUsed = MapThenSumSet(LAMBDA b : heap[b].used, Chain)

\* Both, of the arena that threads share.
WireArenaConsistent == RegionsDistinct /\ NothingLeaks
=============================================================================
