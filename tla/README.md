# Verification of bebop-next

This directory holds a TLA+ model of bebop-next: the RPC runtimes in Swift and
TypeScript, the way the compiler runs its plugins and watches its sources, the
schema parser and formatter, the wire format with the code generated for it, the
allocators and the hash map of the C library, and the language server. TLC
checks the modules on small instances, TLAPS proves the safety of the RPC runtimes,
the build, the watcher, the C library's allocators and hash map, and the language
server for every value of their constants, and this file says what was modelled,
what the results mean and what is missing.

`PROJECT.json` lists the components, runs, mutants, findings, hazards and
theorems, and maps every definition that models code to the lines it stands for.

    tlc -workers 2 -config FutureStoreRun.cfg MCFutureStore     # one run
    tlapm FutureResolverProofs.tla                              # one proof module

## 1. The system

bebop-next is a schema language, a compiler for it, and runtimes for the
generated code.

| Component | State | Operations | Interacts with | What is hard, and what makes it right |
|---|---|---|---|---|
| Swift future store (`RPC/Server/FutureStore.swift`, handlers in `Router/BebopRouter+Futures.swift`) | futures, idempotency index and its reverse, completion order with an offset, subscribers | register, complete, notify, cancel, subscribe, evict | a background task per future, one `AsyncThrowingStream` per subscriber | everything runs under a mutex, but `notify` gives it up in the middle. A subscriber must get what is due to it once, and the indexes must stay consistent |
| Swift client resolver (`RPC/Client/FutureResolver.swift`) | pending continuations, result cache, the stream task | await, cancel, resolve, end of the stream | the server's resolve stream; cancellation of calling tasks | four parties race to resume one continuation |
| Swift streams (`RPC/BebopStreams.swift`) | two actors with continuation slots | send/next/finish; next/waitForDemand/yield/finish | the handler, the transport, cancellation handlers that spawn tasks | missed wake-ups, leaked continuations, elements lost or pulled ahead |
| Swift dispatch of streaming methods (`GenerateService.swift`) | none of its own | joins the two actors for one call | both stream actors | the end of the responses must release the sender of requests |
| Batches (`BebopRouter+Batch.swift`, `router.ts`) | outcomes per call | validate, order, execute | handlers; the deadline | dependencies between calls that run concurrently; two routers with different rules |
| TypeScript resolver (`future.ts`) | pending map of sets, cache, stream promise | resolve, abort, cancel, close | the resolve stream | steps between microtasks; sets captured by closures |
| TypeScript future storage (`future-storage.ts`, `handleResolve` in `router.ts`) | entries, index, queue, subscribers | register, cancel, complete, subscribe | one generator per resolve call | buffers that fill up; two places that decide when a call is done |
| Plugin invocation (`bebopc_runner.c`) | a child process, two pipes, a deadline | spawn, exchange, wait, kill | the plugin | a plugin may do anything; deadlock over full pipes; truncated output |
| Generated files (`bebopc_runner.c`, `bebopc_dir.c`) | the output directory | write, insert at a marker | several plugins in sequence | order of insertions; failures half way |
| Arena (`bebop_arena.c`) | chunks and blocks | alloc, strndup, realloc, reset, destroy | everything in the C library | size arithmetic; growth in place |
| Parser, semantic checks, formatter (`bebop_parser.c`, `bebop_sema.c`, `bebop_emit.c`, `cmd_fmt`) | tokens, a stack of frames, panic mode, the schema | a state of the machine per construct; write a schema out | the compiler, the language server | error recovery must move on; what fmt writes over a file must be read as the same schema |
| Wire format and generated codecs (`bebop_wire.c`, `plugins/c/src/generator.c`, `generated/*.bb.c`) | bytes; a reader's position and end | size, encode, decode, verify, view | every program with generated C code; the compiler and its plugins | offsets, widths and counts from the outside; three readers of one encoding |
| Context arena and writers (`bebop_wire.c`) | a list of blocks with atomic marks; buffers | alloc, grow, reset | threads that share a context | lock-free publication, weak compare-and-swap |
| Hash map (`bebop_wire.c`) | control bytes and slots | set, get, remove, clear, iterate | generated decoders | tombstones, bounded probing, rehash |
| Watcher and watch mode (`bebop_fsw*.c`, `cmd_watch`) | ring of events, a semaphore, pending files, debounce | event, poll, compile, teardown | a callback thread and the compiler | two threads and a mutex; a change during a compile |
| Language server (`beboplsp`) | open documents, results, published diagnostics | open, change, save, close, requests | the C library, the disk | results that are older than the text they are shown on |
| Swift router core, context, deadline, interceptors; TypeScript context and channel | a context per call | dispatch, cancel, deadline | all handlers | not modelled |
| Framing (`Framing/*.swift`, `frame.ts`) | a partial frame | feed, next | transports | not modelled |
| Client batch (Swift, TypeScript) | calls and references | add, execute | routers | not modelled |
| Scanner, Lua macros, validation after linking, descriptor building | see `bebop/src` | | the compiler | not modelled |
| Swift and TypeScript codecs | as the C wire format | | | ports of the modelled format; not modelled |
| Swift and TypeScript generators, editor grammar, fuzzing, benchmarks | | | | text or tables; will not be modelled |

## 2. The modules and how they correspond to the code

A component has a module with its state, one action per operation or per
section between two suspension points, and its properties. Modules that join
components extend one and instantiate the other. `MC*` modules give values and
bounds; `MCRpc`, `MCBuild` and `MCLibrary` put parts that share no state into one
run, in which a behaviour is of one part and the others stand still. Variables keep the names of the fields they stand for, and history
variables (marked so) are read by properties only.

**`FutureStore`** - the mutex makes each locked section one action. `complete`
and the three sections of `notify` are separate: snapshot of the matching
subscribers, a yield to each outside the lock, and the section that applies the
outcomes; then streams are finished or failed. A stream is a bounded buffer
with a status, as the Swift library provides it (external): `yield` reports
enqueued, dropped or terminated. The fire-and-forget path (`TaskDiscard`),
eviction with its delayed compaction and the termination handler are included.
UUIDs are distinct ids, payloads are left out: nothing depends on them.

**`FutureResolver`** - `await` is split where the code is: cache check, the
registration under the lock (which looks at the cache and at cancellation
again), the start of the stream task, suspension. The cancellation handler can
run at any moment after it is installed. Continuations taken out of the
dictionary under the lock are resumed later (`held`), as the code does.

**`RpcInbound`** and **`PullingMap`** - actors, so each stretch between two
suspension points is one action. Cancellation handlers spawn tasks; a spawned
task is a member of `cancelTasks` or counted in `finishers` until it runs.
The lifetime object that cancels the worker when the last reference goes is
`DropStream`. **`DuplexCall`** is the composition that the generated dispatch
code makes: the termination closure of the response map closes the request
stream. `method` chooses a client-stream call (requests only), a duplex call
(both) or the resolve method of the future service (a map with leading
elements).

**`BatchLayers`** (Swift) computes the layers as `buildExecutionLayers` does and
runs a layer's calls in any order on the outcomes before it; **`BatchGraph`**
(TypeScript) walks `inputFrom` chains as `orderBatchDependencies` does and then
resolves promises. What a method returns is a choice: success, success without
payload, error. **`BatchRouters`** gives the same batch to either.

**`TsFutureResolver`** - JavaScript runs a job to completion, so an action is
the code between two awaits. A `Set` is named by the call that created it, so
that the abort handler can hold one that is no longer in the map. The failing
stream's `catch` and its `finally` are two actions, as they are two microtasks.
**`TsFutureStorage`** has the storage and the generator of `handleResolve`, with
the `ReadableStream` between them (external). **`TsFutures`** puts both ends
over the same ids; a behaviour is of one end.

**`PluginExchange`** - the compiler's side is the poll loop of
`bebopc_process_exchange` step by step, then `bebopc_process_wait_timeout`, then
what `_invoke_plugin` makes of the outcome. The plugin is external: well-behaved
in three styles, or free to read, write, close, exit or hang at any time. Data
is counted in chunks, time in ticks. **`GeneratedFiles`** is the two passes of
`_write_generated_files` inside the loop over plugins; a file is a sequence of
tokens, some of which are insertion points; writes can fail half way. **`Build`**
is the run of the two halves of `bebopc_runner_generate`; a behaviour is of one
half, and `Patient` is the exchange with the deadline disabled.

**`Watch`** - the callback thread takes the mutex, pushes the events of a batch
into the ring and signals once for each; the main loop waits for a permit, drains
at most `PollMax` events, notes changed files, waits for quiet and compiles; an
interrupt leads to the teardown, which stops the stream and then destroys what
the callback uses. Only macOS has a working watch mode at this commit. FSEvents, the
disk and the clock are external.

**`Parser`** - `bebop__parse_file` is a machine over a stack of frames; each of
its states is an action, and the functions it calls are operators on the parser's
record with `ok` and `val` for what they return. Panic mode and the four
synchronize functions are as in the code, since they decide what is read next.
The checks of `bebop_sema.c` that are made during the parse are included with the
one current definition they know of. Tokens carry their kind, spelling and
documentation; the scanner is not modelled. **`Emitter`** writes a schema as
tokens, **`FrontEnd`** parses, formats and parses again as `cmd_fmt` and the
language server's formatting request do. Two schemas are compared by all that was
parsed but documentation, visibility that is the default, the order of imports and
the quotes of bytes (`Kept`); which definitions the emitter has words for is
`Expressible`. `MCFormat` has the texts.

**`Wire`** has the primitives of the reader and the writer and the encoding of a
message with its directory, byte by byte. **`Codec`** is what the C generator
emits for each kind of type, over a schema that is data; **`DescriptorTypes`** and
**`PluginTypes`** are the generated functions of the compiler's own two schemas as
instances of it. **`WireExchange`** sends a value: it is sized and encoded, the
bytes are cut, extended or changed, and a reader with the same or an older schema
decodes, verifies and views them. A float is its bits, a string its bytes. A string
or array may have no data pointer (`NoData`): the writers refuse it, and so they do a
union without a branch; the value then is not sent. `MCWireExchange` has the values
that decode or verify refuse.

**`Arena`** - memory is numbered, chunks are at addresses the host chooses,
arithmetic is that of `size_t` with a small `SIZE_MAX`. **`WireArena`** - every
access to an atomic is a step of a thread; a weak compare-and-swap may fail for
no reason; a writer's buffer is a region of the arena. **`SwissMap`** - groups,
control bytes and the probe sequence as in the code; the hash is a constant, and
the history variable `accepted` has the entries whose insertion was answered with
true and that were not removed since.

**`LanguageServer`** - one message at a time. A text is a sequence of imports,
definitions and uses, an offset a place in it; a parse reads imported files from
disk. The actions are the handlers of `server.cpp` with what they do in
`workspace.cpp`. **`MCLibrary`** runs the six C-side parts, from the parser to the
language server, in one run.

## 3. What the runs check

| Run | Instance | States | Properties |
|---|---|---|---|
| `store` | 3 futures of one caller, or 2 of two callers; 1 key, 1 subscriber, buffer 1, 1 retained result. Or 5 futures, 1 key, 3 retained results, no subscriber | 766,060 | `HandedOnlyWhatIsDue`, `FilteredExactlyOnce`, `NoStrandedWaiter`, `StoreBookkeeping` |
| `resolver` | 2 futures, 3 awaits, 1 cached result | 393,190 | `ResumedExactlyOnce`, `WaitersAreServed`, `NobodyWaitsForCached`, `CancellationNotLost` |
| `rpc` | streams: 2 sends, 2 receives (1 and 1 in a duplex call), 2 reads, 2 responses. Batches: up to 4 calls with ids in -1..2, limit 3. Futures: 2 futures, 2 callers of resolve with signals; 2 owners, 1 key, 1 resolve call, buffer 1, 1 retained result | 336,913 | `NobodyWaitsInVain`, `Rendezvous`, `CancelOnItsWay`, `DemandAnswered`, `EndOfResponsesReleasesAll`; `FailurePropagates`, `OutcomesAreFinal`, `BatchEnds`, `SwiftBatchesArePortable`, `TsDependenciesFirst`, `TsRunsWhatCanRun`; `EntriesAreWaiting`, `StorageBookkeeping`, `ResolveDelivers`, `OwedIsYielded` |
| `bebopc` | build: request and response of 3 chunks, pipes of 2, timeout 2, all styles, faults; 2 plugins with up to 2 entries. Watch: 2 files, 2 edits, ring of 2, one event per poll, one changed file noted | 395,077 | `GeneratedFromWholeOutput`, `NothingLeftBehind`, `EachPhaseInTime`, `InvocationEnds`, `InsertionsInOrder`, `FailuresAreReported`; `PermitsMatchEvents`, `ChangesAreCompiled`, `TeardownEnds` |
| `library` | see below | 217,533 | `RoundTrip`, `VerifiedIsDecodable`, `ArenaConsistent`, `MapKeepsEntries`, `WireArenaConsistent`, `EditorShowsItsText`, `ParsingAdvances`, `FormatPreserves` |
| `store_evicted_repeat` | 2 futures, 1 subscriber, 1 retained result | violation | `WildcardNoRepeat` |
| `ts_resolver_arrives` | 1 future, 2 callers | violation | `ResultArrives` |
| `ts_batch_rejects` | all batches of up to 2 calls with ids in -1..2 | violation | `TsRejectsAsDocumented` |
| `plugin_one_budget` | as `bebopc` | violation | `OneBudget` |
| `wire_encoded_is_accepted` | a timestamp; two empty structs | violation | `EncodedIsAccepted` |
| `format_is_faithful` | four schemas | violation | `FormatIsFaithful` |
| `map_inserts` | 9 keys with neighbouring hashes, the code's sizes | violation | `EveryInsertSucceeds` |

Each property's comment says what it means for the code. Each that holds has a mutant in
`PROJECT.json`: a plausible slip in one definition that makes the property fail
in its own run.

Why the bounds are enough to be interesting:
- `store`: a subscriber's notify can interleave with that of another future and
  with an eviction by a third; a buffer of one fills with the second result; a
  limit of one retained result makes every second completion evict. Two callers
  need only a future each to cross. The scenario with three retained results is there
  because the order list is compacted only when the offset reaches half its length;
  subscribers do not touch these tables and are left out of it. `Asked` are the ids a
  subscriber may ask for, `Few` those of the scenarios with subscribers, and `Last` is
  the id registered last.
- `resolver`: two awaits share an id while a third has another, and a cache of
  one evicts at the second result.
- `rpc`: a slot holds one call, so two of each kind contend for it (`DuplexCalls` are
  those that meet reads of the responses). Three calls are the shortest chain with a
  middle, and the shortest batch in which two chains converge; a fourth exceeds the
  limit, of which one batch for each first call is taken (`FewOversized`). A buffer of
  one overflows at the second result. Where both ends of the futures are of no account,
  they start in one state (`AnId`, `AnOwner`).
- `bebopc`: request and response do not fit their pipes, so each side can block
  on the other; with two plugins and two entries each an insertion can precede,
  follow or miss its file in the same or the earlier response. A ring of two overflows
  with the third event, one event per poll leaves others queued, and a second edit can
  come before, during and after the compile of the first.
- `library`, in parts. Exchange: at least one value of every generated type of the
  compiler, and a user's schema with every kind of type, among them an array of empty
  structs, timestamps, a value one level deeper than decode goes, strings and arrays
  without data and an unknown branch; each encoding is cut at every length, extended,
  and changed in each byte. A count of elements without bytes may be damaged into any
  number: a view is asked for the first `MaxItems` (4) of them, which all look alike. Arena: memory for two or three chunks,
  sizes that exceed a default chunk or wrap. Threads: two, with blocks that hold
  one or two regions. Map: groups of two slots and four keys, so that probes cross
  groups, meet tombstones and rehash. Server: three files with three texts, five
  messages. Schema: four texts that together use every construct of the grammar,
  and every text that has one word removed or one replaced by one of eight.

### Fairness

Safety properties assume none. The liveness properties assume weak fairness of
what the runtime or operating system runs without being asked. (`rpc` assumes it of the
tasks, jobs and handlers of a part together, which is less than of each by itself and
enough, because none of them can go on for ever while another waits.)
- `EndOfResponsesReleasesAll`: runnable Swift tasks run, those spawned by a
  cancellation and the worker included. No call is assumed to be made, and a
  source need not deliver, except that it ends or throws when the task that
  waits for it is cancelled, as cooperative cancellation requires.
- `BatchEnds`: both routers go on and handlers return. A handler that never
  returns holds its batch; only the check between layers looks at the deadline.
- `OwedIsYielded`: futures settle and a client that is still there reads.
- `InvocationEnds`: the compiler runs and the clock moves; a well-behaved plugin
  runs. Nothing is assumed of a plugin that does as it likes.
- `ResultArrives` (violated): queued jobs run, and a stream that is open delivers the
  results the server has.
- `ChangesAreCompiled`, `TeardownEnds`: the main loop and the callback thread run,
  a batch that FSEvents has is delivered, and quiet lasts for the debounce once no
  more edits are made. Edits and the interrupt are not assumed to happen.

`CHECK_DEADLOCK FALSE` is set where a behaviour may end: all calls of the bounded
instance have returned, or an await waits for a future that never completes.

### What is not as documented

Seven runs show a disagreement:

1. `store_evicted_repeat` - `notify` reads the entry's sequence number after
   `complete` gave up the lock (`FutureStore.swift:159`). If another completion
   has evicted the entry, the number is nil, `accepts` says yes (line 54), and a
   wildcard subscriber that got the result in its snapshot gets it again. The
   test at `FutureStoreTests.swift:260` is named
   `wildcardSubscriptionDoesNotRepeatItsImmediateSnapshot`.
2. `ts_resolver_arrives` - after the resolve stream failed, the `catch` clears
   the pending map, but `resolveTask` becomes undefined only in the `finally`, a
   microtask later (`future.ts:107`). A `resolve()` in between starts no stream and
   waits for ever; `docs/RPC.md:689` says the result arrives.
3. `map_inserts` - `bebop_map_set` makes `capacity / 8 + 2` probes at offsets
   counted in slots and rounded down to a group (`bebop_wire.c:3689`). In a map of
   16 slots, keys that start at slot 0 or 1 see only the first group: the ninth
   insert returns false although the second group is free. A rehash that meets it
   drops the entries that are left, and decoders ignore the result.
4. `ts_batch_rejects` - `docs/RPC.md:578` says that a server rejects a batch with a
   negative `call_id` or a dependency that does not appear earlier in the list.
   `handleBatch` (`router.ts:433`) looks at neither: a call with id -1 is run, and so is
   one that depends on a later call. What the router does reject is exactly what
   cannot be run, which is `TsRunsWhatCanRun` of `rpc`.
5. `plugin_one_budget` - the comment at `bebopc_runner.c:33` calls the timeout the
   "wall-clock budget for one plugin invocation". `bebopc_process_wait_timeout`
   (line 1116) starts it again after the exchange, so an invocation may take two.
   `EachPhaseInTime` of `bebopc` is the bound that holds.
6. `wire_encoded_is_accepted` - `docs/WIRE.md:412` calls empty structs in arrays valid.
   The generated decode refuses a count above the bytes left (`generator.c:4031`), so
   an array of them at the end of a value is encoded, verified and not decoded. The
   type table (`generator.c:609`) gives a timestamp 12 bytes where `docs/WIRE.md:25` and
   the writer say 16 (`docs/GRAMMAR.md:106` says 12): verify refuses it, and a view gives
   what it finds at the wrong place (`descriptor.bb.c:1131`). Each of the two values of
   the run violates the property without the other. `RoundTrip` and
   `VerifiedIsDecodable` of `library` send such values too, and claim of them only what
   `Decodable` and `Viewable` leave.
7. `format_is_faithful` - the emitter does not write a service's mixins
   (`docs/GRAMMAR.md:535`), the default and values of a decorator parameter, nor
   decorators on the fields of an inline branch. And the semantic checks know one
   current definition and not a stack, so that after a nested definition the names and
   tags before it are forgotten: a tag twice in a message is accepted
   (`docs/GRAMMAR.md:336`: "Tags must be unique within the message"), and refused once
   fmt has moved the nested definition to the end, against `tests/test_emit.c:64`. Each
   of the four texts of the run violates the property alone. `FormatPreserves` of
   `library` is exact about definitions that are `Expressible`, in schemas without such
   duplicates (`WellScoped`), and about the others says that they are accepted again
   and keep their place, kind and name.

Others were met while the code was modelled. They can be read off the code, the
model reproduces them, and no property claims otherwise:

- `FutureStore.swift:274`: an empty list of ids ends the subscription at once;
  `docs/RPC.md:649` says that empty means all futures.
- `FutureStore.swift:97`: idempotency keys are global and a key of another
  caller is refused; `docs/RPC.md:641` says they are scoped to the caller.
- `FutureResolver.swift:126`: an await whose result was evicted from the client's
  cache joins a stream that has delivered it already, and waits;
  `docs/RPC.md:689` says it arrives immediately if the server still has it.
- `BebopRouter+Batch.swift:87`: a dependency earlier in the list but with a larger
  `call_id` is refused; `docs/RPC.md:578` only asks for it to appear earlier.
- `router.ts:597`: a resolve call that is cancelled while its immediate results
  are handed over leaves its subscriber in the storage; `docs/RPC.md:457` says of
  cancelled calls "Clean up resources."
- `future.ts:66`: an abort handler holds the set it was created with. If its id
  was cancelled and resolved again in the meantime, the handler deletes the new
  set from the map, and the new waiter gets no result.
- Wire format: the bulk writers refuse an empty array whose data pointer is null
  (`bebop_wire.c:2172`), where arrays of other elements are written; an unknown union discriminator is decoded to 0 and cannot be encoded again; decode
  leaves the bytes behind a known branch unread, and its sequential path does not
  look at the boundaries that verify checks; a view has no depth limit.
- Parser: a union branch with a decorator and `export` is taken for a nested
  definition and refused. `package a.;` keeps the partial name.
- Formatter: documentation before a decorator or modifier is lost when it is read; fmt
  writes it there, so a second fmt deletes it. Documentation on the fields of an
  inline branch and a parameter's description are not written.
- Language server: rename edits documents that import a file at that file's
  offsets (`server.cpp:1553`); a definition in a file that is not open is placed
  with the asker's line table; saving does not parse importing documents again.
- Watch mode: renames are ignored, a "scan everything" event is dropped by the
  filter, an overflow of the ring is silent, and of more than 64 changed files the
  rest is forgotten, though not the compile.

## 4. What is proved

Each proof module extends its component and proves, for every value of the
constants that satisfies the component's assumptions, that an inductive
invariant holds in every reachable state; the theorems follow from it. Every
property that a theorem states is one that TLC checks on the instance of the
component's run.

**`RecursionTheorems`** has what the proofs share about recursion. What a recursive
function computes, and that dependencies cannot run in a circle, is proved with the
least counterexample: lemma `LeastNatural` says that every non-empty set of natural
numbers has a least element, and applied to the set of numbers for which a claim
fails it takes the place of induction, whose theorems the provers cannot
instantiate. `SolutionExists` says that an equation whose right side looks only at
smaller ranks has a solution: without it nothing is known of a function defined by
recursion, which is a `CHOOSE`.

**`FutureResolverProofs`** (any sets of futures and callers, any cache size;
`FutureResolverAssumption`: the ids are a finite set and the cache size is a natural
number). `IInv` is `TypeOK`, the four properties of the run, and two facts that
make them inductive: `OutsideCalls` (a call that is not suspended has no entry
and no continuation on its way to being resumed) and `StreamTaskRuns`
(`streamTask` is set exactly while the stream is consumed or cleaned up). Without
the first, registering could create a second owner of a continuation; without
the second, an await that finds `streamTask` set could rely on nothing. Theorems
`TypeCorrect`, `ResumeOnce`, `Served`, `NoneForCached`, `CancellationKept`.

**`FutureStoreProofs`** (any sets of futures, callers and keys, any number of
subscriptions, any limits; `FutureStoreAssumption`: among others, the ids that may be asked for, `Asked`, are
some of the ids). The bookkeeping is inductive
with `WindowBound`: what evict and the compaction of the order list leave. What is
handed out needs to know where each result is on its way: `TaskShape` (what an
entry says of its background task, and the reverse), `Awaited` (a filtered
subscriber has not been handed a result and still waits for it, or has been and
does not, or a notification has yet to say so), `YieldsSoFar`, `FinishedComplete`,
`SnapshotOfOwner`, `NotYetSubscribed` and `MinimumCovers` (a wildcard subscriber was
handed at once what its minimum sequence makes it refuse later). Theorems
`TypeCorrect`, `Bookkeeping`, `OnlyWhatIsDue`, `ExactlyOnce`, `NobodyStranded`. The
finding of `store_evicted_repeat` has a converse: `NoRepeatWithoutEviction` proves
that a wildcard stream repeats nothing if the store may keep every future, so
eviction is the only cause of the repeat.

**`DuplexCallProofs`** first proves the inbound request stream (any sets of sends and
receives; `RpcInboundAssumption`: they are disjoint and `NoCall` is neither). `IInv`
adds `NotDoneNoResult` (a call that has not returned has no result and no element)
and `ParkedIffInSlot` (the slots hold exactly the suspended calls). The steps are
grouped by what they do to the slots - return at once, suspend, hand over, close -
with a lemma for each. Theorems `TypeCorrect`, `SlotsHoldParked`, `NoneInVain`,
`ElementsMeet`, `CancelPending`. Then the whole call (any requests, responses and
readers; `DuplexCallAssumption`). `RequestsImplementInbound` is a refinement: every
step of a whole call, `onCancel` included, is a step of `RpcInbound` or does not touch
it, so that its guarantees hold in the call (`RequestsAreSafe`). `PullsOnDemand` is the
map's half: `MapInv` says that the parked reader is the one in the slot
(`ReaderParked`) and that there is a number `k` of elements handed out, each to one
reader, which is the number pulled but for the one the worker holds or dropped at
the end (`HandedOut(k)`). Also `CallTypeCorrect`.

**`BatchRoutersProofs`** (batches of any length, any limit, any call ids;
`BatchLayersAssumption`, `BatchRoutersAssumption`). For the Swift router, `Depth` is
first shown to exist and to satisfy its recursive definition for every valid batch
(`DepthsExist`, `DepthIs`) and the layers to have no gap (`NoGap`). `SwiftInv` then says
what is settled behind, in and ahead of the present layer. Theorems
`FailuresHandedDown` and `OutcomesStay`. For the TypeScript router, `TsInv` says that
the order so far has no repetitions and dependencies first, and that the path of
the walk is a chain of dependencies outside it. `TsOrdersWhatCanRun` needs both
directions: a path that comes back to itself is a cycle, and a complete order rules
one out, because the first call of a cycle in the order would have a later
dependency. Theorems `TsOrderIsRight` and `TsOrdersWhatCanRun`; `SwiftIsPortable` compares
the two routers by the least `call_id` of a cycle.

**`TsFuturesProofs`** (any futures, callers and calls, any limits;
`TsFutureResolverAssumption`, `TsFuturesAssumption`). `ClientInv` is the resolver's: its
entries are waiting calls and the cache is a window of the completed results.
`ServerInv` is the storage's: exact counts and keys, and for each resolve call
`CallOK` - nothing of it is early, each result is in one place of its snapshot,
queue or hands, its own caller's only, and what it no longer waits for has reached
it. Theorems `FuturesTypeCorrect`, `WaitingEntries`, `StorageIsExact`,
`ResolveCallsDeliver`.

**`BuildProofs`** is about both halves. A plugin's invocation (any sizes, timeout, exit
codes and plugin styles; `SizesAssumption`, `StylesAssumption`): `IInv` adds `Accounts`
(each chunk is read, in its pipe or unwritten), `Phases` (what the compiler knows of
the process in each phase; after end of file nobody can write any more) and `Clock`
(each phase ends by its own deadline). `GeneratedFromWholeOutput` needs the first two:
the exchange ends only at end of file, when the pipe is empty and its writing end
closed, so what was read is what was written. Theorems `TypeCorrect`, `WholeOutput`,
`CleanedUp`, `InTime`. Without deadlines the clock tells nothing, and `PatientInv`
is the invariant that remains; `InvocationsAreSafe` puts the two together into the
guarantees of every behaviour of the build. The files (any plugins, responses and
failing writes; `BuildAssumption`):
`FailuresReported` rests on `FailureKept`: something was missed exactly if the result
or, during a response, its error says so. `InsertionsKept` shows what
`FlattenSeq` computes (`PartsExist`, `FlattenIs`) and that an insertion in front of the
first marker is the same as one more piece at the end of that marker's block
(`InsertedInto`). It is proved under `PlainInsertions`: inserted text has no markers of
its own. The responses of the run satisfy that; without it the property does not
hold, because the code puts a later insertion in front of the first marker,
wherever that came from.

**`LibraryProofs`** has five parts, each about a component that keeps to itself.

- Arena (any chunk size, alignments, request sizes and amount of memory;
  `ArenaAssumption`: they are natural numbers within `SIZE_MAX`, and an address can be
  aligned without wrapping). `ArenaInv` says that chunks lie apart as the host's memory
  does, and that each block is in the used part of a chunk. The block that
  `bebop_arena_alloc` cuts begins at or above the mark, so it touches none; a block that
  `bebop_arena_realloc` grows in place is the last of its chunk, which is shown from
  its end being at the mark. Theorems `ArenaInvariance`, `ArenaStaysConsistent`.
- Hash map (any keys, hash function, group size, first capacity and load factor;
  `MapAssumption`). `MapInv` says that, unless a rehash gave up, the table is `Sound`:
  each key is in one slot, its control byte is the key's, and the slot is
  `Reachable` - none of the groups probed before it has an empty slot, which is where
  a lookup stops. An insertion takes the first free slot on that path, a removal
  leaves a tombstone, since an empty byte could cut off another key's path, and a
  rehash is a sequence of insertions into an empty table. Theorems `MapInvariance`,
  `MapAlwaysKeepsEntries`. The run `map_inserts` shows how a rehash gives up.
- Wire arena (any finite sets of threads and blocks, any sizes; `WireArenaAssumption`).
  Every access to an atomic is a step, so `WireArenaInv` has to say what each thread's
  locals are worth between two of them: the list has every block but those that a
  thread is about to publish (`BlocksKept`); a block or region a thread remembers is
  still there (`Locals`); what is held or claimed lies apart and, with what a
  reallocation has already stretched it to, below its block's mark (`HeldBelow`,
  `HeldApart`); and each counter is the sum over the list less what the threads that are
  between the compare-and-swap and the addition have yet to add (`Counted`, `Tallied`).
  Theorems `WireArenaInvariance`, `WireArenaStaysConsistent`.
- Language server (any paths and texts; `ServerAssumption`: the paths are finitely many
  and a text is a sequence of items). `ServerInv` says per document that its result is of
  its present text, and its diagnostics those of text, disk and include directories
  unless one of them changed since (`stale`); and of the last answer that its ranges,
  where the result they come from has one file, show in the editor's text what they
  name. Theorems `ServerInvariance`, `EditorAlwaysShowsItsText`.
- Watcher (any files, ring and poll sizes; `WatchAssumption`). `PermitsMatchEvents` is
  inductive with the types of reports, events and files. Theorems `WatchInvariance`,
  `PermitsMatch`, `WatchBounds`.

Only model-checked: the liveness properties `EndOfResponsesReleasesAll`, `BatchEnds`,
`OwedIsYielded`, `InvocationEnds`, `ChangesAreCompiled` and `TeardownEnds`, since fairness and
`ENABLED` are out of the prover's reach; and `RoundTrip`, `VerifiedIsDecodable`,
`ParsingAdvances` and `FormatPreserves`, since `Codec`, `Parser` and `Emitter` recurse over
types and tokens with `RECURSIVE` operators, which keeps them, and what extends them,
out of its reach too. Every other property of a passing run is stated by a theorem.

## 5. Limits of the model

- Modelled parts: the Swift resolver's `deinit` and the Windows branch of the
  plugin runner are left out. The streams, pipes, processes, promises and
  continuations of the platforms are modelled from how the code uses them.
- `TsFutures` and `Build` check two components side by side; they do not exchange
  messages yet. Each component assumes of the other end what its own module says:
  a server sends each result at most once per stream, a response is any sequence
  of entries.
- Front end: the scanner, string escapes, the text of documentation, plain comments,
  layout, warnings and suggestions are left out, and so are the limits on the
  expression stack (32), decorator parameters (32), package names (512 bytes) and
  reported diagnostics (100). Frames and type depth have their limits, at 3.
- Wire: text forms of UUIDs and times, the reflection registry and `Any` are left
  out. `bebop_wire_align_size` wraps within an alignment of `SIZE_MAX`; `AlignSize` does
  not, and no run asks for such a size.
- Language server: completion, semantic tokens and signature help are left out;
  cross-file name resolution is by name only. `EditorShowsItsText` is about diagnostics
  of a document whose own text, disk and include directories are as they were, and
  about ranges of results with one file: what a save of another document or a
  cross-file rename shows is not covered.
- Formatting: documentation that fmt loses counts as layout.
- Watch mode: the inotify and Windows watchers are left out.
- Not modelled: see section 1 and the notes in `PROJECT.json`.

## 6. Plan

Done: sections 2-4. Left, in this order:

1. Router core: `RpcContext` (fork, cancel, dispose), the deadline race of
   `Deadline.swift`, the interceptor chain, `context.ts` and its timer.
2. Framing: an incremental reader over arbitrary splits of the input against a
   reference decoder, limits included, for both runtimes.
3. Compositions: store and resolver of one language with an abstract
   specification of a future (registered, finished, delivered at most once per
   caller) that the pair implements; the exchange feeding the generated files.
4. Validation after linking: the order of definitions, cycle and import checks of
   `bebop_validate.c` against reference definitions.
5. Client batch: call references against both routers' rules.
