------------------------------ MODULE SwissMap ------------------------------
(***************************************************************************)
(* Bebop_Map of the C runtime (bebop_wire.c): an open-addressing table     *)
(* probed by groups of slots.  A control value per slot says "empty",      *)
(* "deleted", or the low 7 bits of its key's hash.  A search visits the    *)
(* groups of its probe sequence up to the first with an empty slot; a      *)
(* removal leaves a tombstone; a map with no growth left is rehashed into  *)
(* one of twice its capacity.                                              *)
(*                                                                         *)
(* The hash of a key is a constant: wyhash is not computed, so that keys   *)
(* collide or not as the instance says.                                    *)
(***************************************************************************)
EXTENDS Integers, FiniteSets, FiniteSetsExt

CONSTANTS
    Keys, Values,
    Hash,               \* Keys -> Nat
    GroupSize,          \* BEBOP_MAP_GROUP_SIZE
    InitialCapacity,    \* BEBOP_MAP_INITIAL_CAPACITY
    LoadFactor,         \* BEBOP_MAP_LOAD_FACTOR, in eighths
    MaxCapacity         \* bound: no map of the instance grows past it

ASSUME MapAssumption ==
    /\ Hash \in [Keys -> Nat]
    /\ GroupSize \in Nat \ {0} /\ LoadFactor \in 1 .. 8
    /\ InitialCapacity \in Nat \ {0} /\ InitialCapacity % GroupSize = 0

VARIABLES
    map,        \* the Bebop_Map: [capacity, ctrl, slots, length, growth_left]
    accepted,   \* the entries that were accepted and not removed since
    answered,   \* what the last bebop_map_set returned
    torn        \* a rehash gave up half way

mapVars == <<map, accepted, answered, torn>>

CtrlEmpty == -128
CtrlDeleted == -2

\* bebop_map_init: no storage yet.
NewMap == [capacity |-> 0, ctrl |-> <<>>, slots |-> <<>>, length |-> 0, growth_left |-> 0]

H1(k) == Hash[k] \div 128
H2(k) == Hash[k] % 128

IsFull(c) == c >= 0

----------------------------------------------------------------------------
\* bebop__map_probe_offset: 0, 1, 3, 6, 10, ...
ProbeOffset(i) == (i * (i + 1)) \div 2

\* The first slot of the group that the probe visits, aligned down to a group boundary.
GroupStart(m, k, probe) ==
    LET at == (H1(k) + ProbeOffset(probe)) % m.capacity
    IN  at - (at % GroupSize)

Group(m, k, probe) ==
    LET start == GroupStart(m, k, probe) IN start .. start + GroupSize - 1

MaxProbes(m) == m.capacity \div GroupSize + 2

\* A probe stops at any slot that is free, a tombstone included.
Probes_StopAtTombstone(m, k) ==
    LET stops == {p \in 0 .. MaxProbes(m) - 1 : \E i \in Group(m, k, p) : ~IsFull(m.ctrl[i])}
    IN  0 .. (IF stops = {} THEN MaxProbes(m) - 1 ELSE Min(stops))

\* The probes a search makes: all, or up to the first group that has an empty slot.
Probes(m, k) ==
    LET stops == {p \in 0 .. MaxProbes(m) - 1 : \E i \in Group(m, k, p) : m.ctrl[i] = CtrlEmpty}
    IN  0 .. (IF stops = {} THEN MaxProbes(m) - 1 ELSE Min(stops))

\* bebop__map_match_h2 and the comparison of the keys: where `k' is, over the probes.
Matches(m, k) ==
    {i \in UNION {Group(m, k, p) : p \in Probes(m, k)} : m.ctrl[i] = H2(k) /\ m.slots[i].key = k}

\* bebop__map_match_empty_or_deleted: the first free slot in the order of the probes.
FreeIn(m, k, probe) == {i \in Group(m, k, probe) : ~IsFull(m.ctrl[i])}
InsertSlot(m, k) ==
    LET withRoom == {p \in Probes(m, k) : FreeIn(m, k, p) # {}}
    IN  IF withRoom = {} THEN {} ELSE {Min(FreeIn(m, k, Min(withRoom)))}

----------------------------------------------------------------------------
\* bebop_map_get: the value, as a set of at most one.
Get(m, k) ==
    IF m.length = 0 THEN {} ELSE {m.slots[i].value : i \in Matches(m, k)}

\* A full slot, at i, for a new entry.
Fill(m, i, k, v) ==
    [m EXCEPT !.growth_left = IF m.ctrl[i] = CtrlEmpty THEN @ - 1 ELSE @,
              !.ctrl[i] = H2(k),
              !.slots[i] = [key |-> k, value |-> v],
              !.length = @ + 1]

\* bebop_map_set once there is growth left: replace, insert, or fail when every group that is
\* probed is full.
PutAt(m, k, v, found, free) ==
    CASE found # {} -> [ok |-> TRUE, m |-> [m EXCEPT !.slots[Min(found)].value = v]]
      [] found = {} /\ free = {} -> [ok |-> FALSE, m |-> m]
      [] found = {} /\ free # {} -> [ok |-> TRUE, m |-> Fill(m, Min(free), k, v)]
Put(m, k, v) == PutAt(m, k, v, Matches(m, k), InsertSlot(m, k))

Blank(capacity) ==
    [capacity |-> capacity,
     ctrl |-> [i \in 0 .. capacity - 1 |-> CtrlEmpty],
     slots |-> [i \in 0 .. capacity - 1 |-> <<>>],
     length |-> 0,
     growth_left |-> (capacity * LoadFactor) \div 8]

\* bebop__map_grow: a table of twice the capacity, into which the entries are put one after
\* the other; the first that finds no slot ends it, and the map keeps what it had by then.
Grow(m) ==
    LET bigger == Blank(IF m.capacity = 0 THEN InitialCapacity ELSE m.capacity * 2)
        Rehash(acc, i) ==
            IF acc.ok /\ IsFull(m.ctrl[i]) THEN Put(acc.m, m.slots[i].key, m.slots[i].value) ELSE acc
        rehashed[n \in 0 .. m.capacity] ==
            IF n = 0 THEN [ok |-> TRUE, m |-> bigger] ELSE Rehash(rehashed[n - 1], n - 1)
    IN  rehashed[m.capacity]

\* bebop_map_set, when the context can allocate.
PutInto(grown, k, v) == IF grown.ok THEN Put(grown.m, k, v) ELSE grown
Set(m, k, v) == PutInto(IF m.growth_left # 0 THEN [ok |-> TRUE, m |-> m] ELSE Grow(m), k, v)

\* bebop_map_remove: a tombstone, whatever follows it.  (What its slot held is not read again.)
Removed(m, k) ==
    IF m.length = 0 \/ Matches(m, k) = {} THEN m
    ELSE LET i == Min(Matches(m, k))
         IN  [m EXCEPT !.ctrl[i] = CtrlDeleted, !.slots[i] = <<>>, !.length = @ - 1]

\* bebop_map_clear
Cleared(m) ==
    IF m.capacity = 0 THEN m
    ELSE Blank(m.capacity)

\* bebop_map_iter_init and bebop_map_iter_next until it returns false.
Iterated(m) == {<<m.slots[i].key, m.slots[i].value>> : i \in {j \in DOMAIN m.ctrl : IsFull(m.ctrl[j])}}

----------------------------------------------------------------------------
MapInit == map = NewMap /\ accepted = {} /\ answered = TRUE /\ torn = FALSE

Without(k) == {e \in accepted : e[1] # k}

MapSet ==
    \E k \in Keys, v \in Values :
        \E result \in {Set(map, k, v)} :
            /\ result.m.capacity <= MaxCapacity
            /\ map' = result.m
            /\ answered' = result.ok
            /\ accepted' = IF result.ok THEN Without(k) \cup {<<k, v>>} ELSE accepted
            /\ torn' = (torn \/ (map.growth_left = 0 /\ ~Grow(map).ok))

\* bebop_context_alloc fails while the map grows: bebop_map_set returns false and changes nothing.
MapSetFails ==
    /\ map.growth_left = 0
    /\ answered' = FALSE
    /\ UNCHANGED <<map, accepted, torn>>

MapRemove ==
    \E k \in Keys :
        /\ map' = Removed(map, k)
        /\ accepted' = Without(k)
        /\ UNCHANGED <<answered, torn>>

MapClear ==
    /\ map' = Cleared(map)
    /\ accepted' = {}
    /\ UNCHANGED <<answered, torn>>

MapNext == MapSet \/ MapSetFails \/ MapRemove \/ MapClear

MapSpec == MapInit /\ [][MapNext]_mapVars

----------------------------------------------------------------------------
\* Whatever was inserted, replaced, removed and rehashed, over tombstones and collisions: a
\* lookup finds exactly the entries that were accepted, the iterator yields them and no
\* other, and length is their number, unless a rehash gave up.
MapKeepsEntries ==
    ~torn =>
        /\ \A k \in Keys : Get(map, k) = {e[2] : e \in {f \in accepted : f[1] = k}}
        /\ Iterated(map) = accepted
        /\ map.length = Cardinality(accepted)

\* What the tests of the map rely on: as long as memory can be had, bebop_map_set inserts.
\* (The runs that check it leave MapSetFails out.)
EveryInsertSucceeds == answered
=============================================================================
