# A TLA+ model of MIOpenGEMM

MIOpenGEMM computes `C <- alpha op(A) op(B) + beta C` on OpenCL devices. It has
two faces: `xgemm`, which runs a GEMM with programs it compiles once and keeps,
and `find`, which searches for the hyper-parameters whose kernels are fastest.
The modules here model the parts in which steps happen in an order that a test
hardly controls: the cache of compiled programs that threads share, the kernels
that a device runs when their events let it, the search that reads the clock at
every loop, the objects of OpenCL that live and die around a benchmark, the
merge and the lookup of cached solutions, and the kernels themselves, element by
element.

Paths below are relative to `miopengemm/src/` unless they end in `.hpp`, which
are in `miopengemm/include/miopengemm/`.

## Inventory

| Component | State | Operations | What is hard | What makes it correct |
|---|---|---|---|---|
| Program cache (`programcacher.cpp`) and `xgemm` (`gemm.cpp`) | a mutex, the map from keys to IDs, a counter, an array of `Programs` | `get_ID`, `xgemm` with and without an ID | the mutex is released before the build and nobody else's read is protected; failed builds; a full array; IDs that callers keep | one builder per key; complete programs never change; a call launches the kernels of its problem |
| Compiled programs (`programs.cpp`) | one slot per kernel type, `act_inds`, `v_wait_indices` | `Programs::update`, `Programs::run` | the source is stored before it is built; errors of launches are dropped | a slot holds the program of its source; the user's event is the last of all |
| Bundle (`bundle.cpp`, `enums.cpp`) | none | which kernels a GEMM takes, who waits for whom | order and dependencies must agree | the last kernel waits for all others |
| Device execution | queues, events, memory | start and end of kernels | out-of-order queues, shared matrices and workspaces | no conflicting kernels overlap; a call is atomic for a host that orders its calls |
| Search (`tinyzero.cpp`, `findparams.cpp`) | counters, solutions, a front, a history, records | `find0`, `single_descent_find`, `true_core`, `benchgemm` | the clock is read at each loop; builds and launches that throw | it ends; what it returns is the best measured; nothing is tried twice |
| OpenCL wrapper (`oclutil.cpp`), hints (`hint.cpp`) | the objects of OpenCL that are alive | status to exception, asynchronous build with a timeout, choice of platform and device, what destructors release | the future of the build blocks; constructors that throw half-way | a call that gives up on a build still waits for its thread; nothing is left but what no destructor releases |
| Drivers (`tinyone.cpp`, `tinytwo.cpp`, `accuracytests.cpp`, `cpugemm.cpp`, `setabcw.cpp`) | host and device matrices, a `TinyZero` | constructors, `benchgemm`, `accuracy_test`, the GEMM of the host, its fill by four threads | an object that is used again after an exception | times are those of the kernels that were asked for |
| Kernel cache, nearest match (`kernelcache.cpp`, `nearest.cpp`, `miogemm.cpp`) | a read-only map from keys to hyper-parameters | `at`, `get_distance`, `nearest::get`, `get_default_soln` | canonical and reflected forms; a distance that is not symmetric | the nearest is derivable and within the constraints |
| Cache merging (`kernelcachemerge.cpp`) | two caches and their union | `get_merged`, `get_wSpaceReduced` | keys both have are benchmarked in turns | no key is lost; what is derivable survives |
| Redirection, hyper-parameters, geometry | none | canonical form, reflection, parsing | reflection must be an involution | reflected hyper-parameters fit the reflected geometry |
| Graph (`graph.cpp`) | edges, ranges, start ranges | `get_neighbors`, `contains`, random starts | constraints, coupled edges | no neighbour outside the constraints, none twice |
| Derived parameters, tiling (`derivedparams.cpp`, `tiling.cpp`, `macgrid.cpp`) | sizes | derivability, workspace layout, integer types | unsigned arithmetic | packed matrices lie apart and inside the workspace |
| Kernel generators (`alphagenerator.cpp` and others) | text; on the device local memory, registers, C | one generator per kernel | division of work among groups and items; barriers | every element is written once, every `k` is summed once |
| Utilities, examples | | | | |

`xgemm` calls `get_ID`, which calls `get_default_soln` (kernel cache, nearest
match, graph, derived parameters, generators) under the mutex and
`Programs::update` (OpenCL wrapper) without it, and then calls `Programs::run`.
`TinyOne` makes a context, a queue and memory, and benchmarks on a `TinyZero`;
`find` makes a `TinyZero` on memory of its caller and a copy of C.
`find0` calls `get_default_soln` or the graph for a start, generates a bundle,
calls `Programs::update` and `Programs::run` on programs of its own. Both meet
the device through queues and events.

## Modules

| Module | Models |
|---|---|
| `KernelGraph` | the kernels of a GEMM, their order, dependencies, reads and writes: `Bundle`, `KType::get_dependencies`, `get_v_wait_indices` |
| `ProgramCacher` | `get_ID`, `Programs::update` behind it, `xgemm` up to the launch |
| `IdTable` | what the cache promises about IDs: bound once, for ever, to one key |
| `GemmPlan` | what a host program asks for: calls, their memory, queues and ordering |
| `GemmRun` | `Programs::run`, OpenCL queues and events, and what kernels do to memory |
| `AtomicGemm` | what GEMM promises to a host that orders its calls: each takes effect as one step |
| `Halt` | the class `Halt`, the two makers of `FindParams`, the improvement factor |
| `Search` | `find0`, `single_descent_find`, `true_core` |
| `ProgramSlots` | `Programs::update` over slots that are used again and again, and `cl_build_program` with its thread and its timeout |
| `Hint` | `BasicHint`: which platform and device a hint chooses |
| `Session` | the life of a `TinyOne`, or of the `TinyZero` of `find`: constructors, `benchgemm`, `accuracy_test`, destructors, with calls of OpenCL that fail |
| `Geometry` | padded sizes, redirection to the canonical form |
| `Distance` | the distance of geometries, for any tables of its two logarithms |
| `HyperParams` | hyper-parameters, constraints, the grid of work items, reflection |
| `Tiling`, `DerivedParams` | tiles to load, derivability, the layout of the workspace, strides |
| `HyperGraph` | `Graph`: edges, constraints, neighbours, random starts |
| `KernelCache` | `CacheKey`, distances of keys, `nearest::is_within` and `get`, `add` |
| `CacheMerge` | the example `mergecaches`: reduced workspaces, `get_merged` and its shoot-outs |
| `Lookup` | `get_default_soln` on a merged cache, and the step of a search from what it returned |
| `PackKernels` | the copy, normal form and beta kernels, work item by work item |
| `MainTiles` | tiles, shares of the summation, loads and writes of the main kernel |
| `CpuGemm` | host matrices, the GEMM of the host, the comparison by zones |
| `MainKernel` | the generated kernels run on the device, and the accuracy test |
| `MainShares` | what a work group contributes to the result: addresses of elements, its share of the summation (no code of its own) |
| `MainResult` | what the result of the kernels relies on in each state of a run (no code of its own) |
| `MCProgramCacher`, `MCGemmRun`, `MCSearch`, `MCSession`, `MCLookup`, `MCMainKernel` | instances for TLC |
| `KernelGraphProofs`, `ProgramCacherProofs`, `GemmRunProofs`, `SearchProofs`, `SessionProofs`, `ProblemProofs`, `LookupProofs`, `MainKernelProofs` | theorems |

`ProgramCacher`, `ProgramSlots` and `GemmPlan` extend `KernelGraph`; `GemmRun` and
`AtomicGemm` extend `GemmPlan`; `Search` extends `Halt`; `Session` extends
`ProgramSlots` and `Hint`. `Geometry`, `HyperParams`, `DerivedParams` (with
`Tiling`), `HyperGraph`, `KernelCache`, `CacheMerge`, `Lookup` extend each other in
this order, `KernelCache` also `Distance`, which extends `Geometry`; `MainKernel` extends `MainTiles` (on `PackKernels` and `DerivedParams`),
`CpuGemm` and `HyperGraph`; `MainShares` extends `MainTiles` and `CpuGemm`, and
`MainResult` extends `MainKernel` and `MainShares`. `ProblemProofs` is about
problems, without a state, `MainKernelProofs` about the runs of their kernels.

Definitions whose comment calls them
a mutant or a slip are faults one could make in the definition that follows them. They are
used by no specification; each is a test of a property, which must fail when the
fault is put in place of the definition.

### ProgramCacher

`mutt`, `IDs`, `current_ID` and `program_cache` are the members of the class. A
`Programs` is the context of its slots, the kernels it is to have (`kbs`: those
`v_wait_indices` was made for) and those compiled so far (`act`: `act_inds`).
Vectors of kernels list their kernels in the order of the bundle and never twice,
so they are sets, with `Rank` for the order. `pc`, `call` and `result` are the
threads. One action is one stretch of code that other threads can come between:
lock, lookup, default solution, counter and limit, publication, unlock, begin of
the update, one compilation, the collection of arguments, the launch.

Exceptions are actions that end the call: the default solution or a query that
throws, the limit, a compilation. They leave the counter incremented, the key
published or the programs half made exactly where the code does.

`Observed` is what a thread sees that reads `act_inds`. While the builder of an
ID appends to its vector, an unsynchronised reader races with it, and may see any
prefix. The model gives the race no other outcome; that of a reallocated vector
is worse.

`own` and `settled` in a call, and `known`, are not in the code. `own` marks the
call that took an ID from the counter, `settled` a call that came to know its ID
when the programs were already complete and of its context; `known` is what
callers remember of the IDs they were given.

### GemmPlan and GemmRun

A plan is the host program: for each call its hyper-parameters, kind of beta,
matrices, workspace, queue, the calls that have returned when it is made, and
those whose events it is given. `Disciplined` plans order two calls, by events or
by an in-order queue, wherever one writes what the other touches; `AtomicGemm` is
only promised to those.

`Enqueue` is one turn of the loop of `Programs::run`. OpenCL refuses a command
whose wait list names an event that does not exist, and the code drops the error.
`Start` and a `Finish` action per kernel are the device. A kernel reads and
writes whole matrices, at its end; `NoConflictingOverlap` is what makes that one
step enough. The workspace records who packed there last, since calls place
their packed matrices differently.

Queues, events and the clock are modelled from how the code uses them and are
marked external in the `map` of `PROJECT.json`.

### Halt and Search

Times are ticks. `Tick` is the clock; every test the code makes of a timer reads
`now`, so that time may pass between any two of them: `EnterDescent` is the test of
the outer loop, `Allot` the time a descent gets, from another reading of the timer.
`warm_start_hp` pushed
behind the front is the flag `slipped`, as the front is a set: neighbours come
in random order (the graph shuffles them), the warm start after them. The run
times of one benchmark are represented by their statistic, any element of
`Times`. A benchmark that fails to enqueue throws when its event is waited for.
`measured`, the set of all times of the search, is not in the code. `NoDescent`
forgets the locals of a descent, which go out of scope.

### ProgramSlots and Session

`slot` is `Programs::programs`: of each type of kernel the source that is stored
and the state of its `cl_program`. `progs` counts the objects that are alive, so
that one that is released twice, or never, shows. `build` is the thread of
`std::async`; it works on references to the parameters of the call, so that the
call must not end before it. `late` says that 50 seconds have passed, at a time
nobody chooses. `WaitFor` and `Test` are the two halves of the polling loop: it ends
when the last look found the build over, be it late, or when the time is. `Join` is
the destructor of the future, which waits. A `clReleaseProgram` that fails
(`ReleaseProgramFails`) leaves a slot as it was, source and program.

`Session` has one action per step of a constructor that may throw. `alive` are the
objects of OpenCL, which the destructors of members that had been constructed
release (`Owned`), and nobody else. `hint` is a `CLHint`: the same words for platform
and device, or an index for each. `thrown` remembers where exceptions were
thrown. `Run` and `RunThrows` are `Programs::run`, whose calls are not checked: what
could be made and enqueued follows from the programs that are built and from the
launches that fail (`bad`). Kernels that have executed may still end in an exception,
when their times cannot be read (`UpdateTimesThrows`), their queue not flushed
(`FlushThrows`) or C not read back (`ReadThrows`; the event of that read is not
initialised, so that its destructor may do anything). The user of a `TinyOne` catches what `benchgemm` throws
and may go on with the same slots; `find` ends.

`slot[t].src` is the source a program was really made from and `ran` the sources
of the kernels that executed. They are not in the code. At most `MaxFaults` calls
fail.

### From a cache to a solution

`CacheMerge` is the example `mergecaches`, with one action for one turn of a
shoot-out. The sequence that says who goes first is a recursive function. Which
of two derivable solutions is faster in a turn is anybody's guess; one that is
not derivable takes forever. A shoot-out throws when the device fails in the
constructor of a `TinyOne` or in a benchmark (`DuelThrows`). Keys of type double are
given to nobody, as in the code. `Lookup` goes on with the merged cache: one action each for the key, the
test of `is_within`, the nearest (any of those at the least distance), reflection,
`get_generic`, random starts, the bundle. `Step` lets a search that began at a
random start walk to any derivable neighbour, after the checks `get_neighbors`
makes.

The logarithms of a distance are real numbers. `Distance` takes them as two tables
of whole numbers, `Log2Of` for sizes and `LogOf` for workspaces, each with the factor
the code gives it, in a unit as small as one likes: `Unit` units are a distance of
0.2, and the term of a device, 1e-6, is a whole number of them. `LogsAssumption`
says what is used of the tables: they grow, over sizes from 1 to 2^40 and workspaces
up to 2^40. In the instance a unit is 1e-6 and powers of two have their exact
logarithms. The term of the workspaces has a sign; it is small, at most a two-hundredth
of a feature, but so are the differences of large sizes that lie close. To a problem
with `m` 65536 and no workspace, the same problem with `m` 65535 and a workspace of
400 000 is nearer than it is to itself; one cache has both, and two requests of the
instance ask for them.

Strings of hyper-parameters are sequences of fragments.

### The kernels

A matrix is a function on addresses, offsets and padding included. An element of
A or of B is its address, an element of C a bag of terms: products of two
addresses, and what C was, scaled or not. So a result is right when it has every
term once, whatever the numbers are; rounding and its order are left out.
`MainKernel` packs A and B and scales C in one step each, since the events of
`GemmRun` keep them apart and `PackedOnce` says that their items do not interfere.
The work items of a work group of the main kernel interleave: each loads into
local memory, waits, multiplies and waits again, block after block: the first
with its offset, the full ones, the tail. Work groups come one after another:
they share nothing but C, which they add to by compare-and-swap or write apart.

`IsProblem` says what a problem is: hyper-parameters that the code divides by are
not 0, which it nowhere tests and which no graph has, and the sizes of the problem
fit `size_t`. Derivability is the ladder of the source: the tests before the
tiles, the tiles, which may throw, and the tests behind them.

`size_t` is taken modulo 2^28, and the short integers of addresses modulo 2^16 as
in the code; `GroupId` is the identifier as the kernel sees it.

## Runs

| Run | Result | Distinct states |
|---|---|---|
| `cacher` | passes | 340 237 |
| `cacher_negative_id` | violates `NegativeIDIsAlwaysValid` | |
| `cacher_reused_id` | violates `ReturnedIDCanBeUsed` | |
| `cacher_success` | violates `SuccessMeansGemmRan` | |
| `gemm_run` | passes | 50 492 |
| `search` | passes | 519 861 |
| `search_lost` | violates `BestFoundIsReturned` | |
| `session` | passes | 137 621 |
| `session_retry` | violates `NoUpdateNeeded` | |
| `lookup` | passes | 27 417 |
| `lookup_reflected` | violates `FallsBackToGeneric` | |
| `kernel` | passes | 7 921 |

Deadlock is checked in `kernel`, where items wait for each other at barriers and
the ends are marked (`Finished`). It is not in the others: a host program ends
after its calls, a search, a session and a lookup end. Every property of a passing
run has a mutant in `PROJECT.json` that breaks it.

**cacher.** Two threads, two geometries of which one takes three kernels (two
when beta is one), two contexts on devices of one name, `MaxCacheSize` 3, two calls
per thread, any of which may pass an ID. Three keys compete for two usable slots,
so that the limit is met; two threads are enough for every race, since a step of
the code involves one builder and one reader. Properties:

- `SoleBuilder`: outside the mutex, no two threads compile for one key or slot.
- `CompleteProgramsAreFrozen`: complete programs of a published ID never change,
  which is what makes the unlocked read of `program_cache` safe.
- `BuilderRunsItsKernels`: the call that compiles throws or launches everything.
- `SettledCallsRunTheirKernels`: so does a call that comes after the build. The
  context is part of the condition, since the key does not have it.
- `TableSpec`: the cache implements `IdTable` with one slot less than the array,
  as the counter is incremented before the limit is looked at.
- `EveryCallEnds`: no call waits for ever, and no exception keeps the mutex.

**cacher_negative_id, cacher_reused_id, cacher_success.** Three statements of
`gemm.hpp` the code does not keep, each in the smallest setting: two threads that
always pass -1 (line 79); one thread that passes a returned ID with another beta
(lines 75-78, where a geometry is said not to include beta); one thread after a
failed build (line 17). The condition on other threads in lines 22-23 is about
passing an ID, which no thread of the first run does, and there is but one thread
in the others.

**gemm_run.** Three calls. The first takes all four kernels; the second has the
same kernels without beta, or a packed B, shares the workspace of the first or not,
and adds to its C or computes from it; the third updates C, or is independent.
Each is on an in-order or an out-of-order queue, with or without events of the
others. Three calls are the fewest for a chain in which order must be transitive.

- `FinalEventMeansDone`: the user's event is that of the last kernel only, and yet
  means that all are over.
- `UserEventsAwaited`: no kernel of a call, be it the first or the last, begins
  before the calls it waits for are over as a whole.
- `NoConflictingOverlap`: kernels that touch the same memory never run together.
- `AtomicSpec`: the calls implement `AtomicGemm`. A call takes effect when its last
  event completes; a C that only the beta kernel has treated counts as untouched.
- `EveryCallCompletes`: no wait list keeps a call from its end.

**search.** Five hyper-parameters, one not derivable, one beyond the device; a
kernel cache of two; times 998, 999 and 1000, between which the factor 0.998 makes
one pair an improvement and not the other two; searches by time, by restarts,
with minima, and with next to no time; anything may fail at any moment. `MaxNow` is
past the end of every search by time, and `MaxDescents` is the number of
restarts: two warm starts, at ranks 0 and 1 of the cache, and a random one.
A second is cut to two ticks: what matters is which of two times comes first.

- `NothingBetterWasMeasured`: the solution returned is the best of all descents.
- `ConsideredOnce`: a descent considers nothing twice but its warm start.
- `DescentsGoAllTheWay`: a descent that counts ends in a local minimum or when
  the time of the whole search is over.
- `RequiredRunsAreDefined`: the loops may stop before their first turn, and then
  the first of no solutions, or the least of no run times, is read. That happens in
  this run, with the minima of 0 that `find` itself passes, and it happens only where
  the minimum of that very loop is 0, it has made no turn, and all of its time had
  passed between its start and its first test: neither a minimum of time
  nor what another loop has done enters into it.
- `SearchEnds`: by restarts, too, where time is no limit and the warm start is
  tried again after every improvement: improvements are strict, so they end.

**search_lost.** `find` with its own parameters, where builds may fail. The last
descent is given at least one second however late it is, a build in it throws,
and the solutions of earlier descents are lost, though `miogemm.hpp` 22-23 says
that no further solutions are benchmarked and the best found is returned.

**session.** A `TinyOne` on one of two platforms, by any hint of three words, or a
`find`; three requests, of which two share the source of their beta kernel and two
that of their main kernel; two failures anywhere and two benchmarks on the same
slots, each in an accuracy test or not. Two of each are the fewest for a
build that fails, a benchmark after it, and another failure there.

- `TimesAreOfRequest`: times are returned only for a run in which every kernel of
  the request executed, built from its source. A slot may hold a program that was
  never built under the source that is asked for (`Program::update` stores the
  source first); what saves the result is that the main kernel waits for all the
  others, and that its event is waited for with a check.
- `SourceOfSlot`: the comparison of sources that `update` relies on never takes a
  program for another, whatever was thrown.
- `BuildInsideCall`: the building thread never outlives what it refers to.
- `BuildReturns`: the polling loop comes to its end even if `clBuildProgram` never
  returns, by its time limit. The call as a whole does not: the
  destructor of the future waits for the thread, so that the call returns or throws
  only if the build does. Which of the two a late build ends in is open: one
  that is over when it is last looked at is accepted.
- `LeftOver`: what is left when all objects are gone, in every combination of
  failures: a context whose queue could not be made, the kernels and events of a
  run that threw, the event of `get_copy` in `find`, and its copy if it threw.

**session_retry.** `programs.cpp:27` says that no update is needed when the source is
the one that is stored; after a failed build the program that is kept is not one
that can be run.

**lookup.** Two of four caches are merged, with up to four turns (of fourteen) and a
lead of one (of five), enough for every order of wins; then 52 requests, canonical
or not, with constraints and ranks, and a step of a search. Some cannot be
answered: a key that does not exist, a grid that is no grid, a wave too small for
the device, a solution that is not derivable.

- `MergedKeys`: a merge loses no key but the doubles that both caches have, invents
  no solution, and keeps a derivable one if there is one.
- `NearestComparable`: `get` finds one whenever `is_within` said so, although the two
  compute the distance in different directions. Where the problem itself is cached,
  another is found before it only under the same constraints and with a larger
  workspace, its yes-or-no features being the same and the logarithms of all sizes
  no further apart than 1/200 (a third of a per cent of the size). With the same
  workspace it is the problem itself, on its device, or the one of the other type,
  which the distance does not look at.
- `ConstraintsHonoured`: what is returned and what the search walks to is within
  the constraints; for a reflected solution, the neutral ones only.
- `SearchAccepted`: a search is never thrown out of its own graph, unless it began
  at a reflected solution.
- `ReflectedDerivable`: a reflected solution can be derived, unless a matrix is
  copied (A and B are padded by 3 and 6), or the number of work items is no power of
  2. The skew of a grid that is not a square is reflected as if one side were twice
  the other (`hyperparams.cpp:35`); under a constraint `C__MAC48` a grid of 8 x 6
  becomes one of 4 x 12, and the macro tile changes with it. One cache and two
  requests have this MAC.

**lookup_reflected.** The last one as seen by a caller: a solution that cannot be
derived once it is reflected ends the request, though `miogemm.hpp:86` says
`get_generic` is there "if all else fails" and it has an answer.

**kernel.** 71 small problems, of which nearly all are derivable and run: splits of the summation by two and three,
interwoven or not, with and without an offset of the unroll, for sums that the
split divides or not; work groups by row, column and super-column with a narrower
last one; tiles of 4 x 4 that overlap at the edges in all eight layouts; vectors;
copies and normal forms, with and without offsets. About 1 100 more are only
derived: every macro tile with every unroll, and very many work groups.

- `SameAsCpu`: in the end every element of C was scaled once and has every product
  once, and nothing else has changed: the accuracy test passes.
- `LoadsInside`: local memory never holds anything but elements of the matrices and
  zeros, or what was never written, where no item that has loaded was to load;
  the packing kernels put nothing but elements into the workspace.
- `PackedOnce`: no two items of the packing kernels write the same element, and
  none writes beyond the workspace.
- `TilesFit`: two answers that `get_tileability` composes and does not return never
  matter.
- `GroupIdsFit`: identifiers of work groups fit the integers chosen for them, for
  all hyper-parameters the graph has.

### Bounds

`MaxFaults` is the number of calls of OpenCL that fail, `MaxBenchmarks` that of
benchmarks and of their turns, `MaxSteps` that of steps of a search behind a lookup,
and `MaxWork` the size of the problems whose kernels are run. `Rounds` and `Lead`
are constants of the code, smaller here. `MaxCalls` is the number of calls a
thread makes, `MaxNow` the last tick, `MaxDescents` the number of descents. All but
`Rounds` and `Lead` are not in the code; where there are proofs they hold for all
their values. The rest are constants of the program (`MaxCacheSize`) or of its
environment.

### Fairness

`ProgramCacher`: a thread inside the library keeps running. The mutex is not
assumed to be fair among waiters beyond that a thread is not refused for ever
while it is free, and callers need not call. `GemmRun`: the host goes on with
every call; the device starts a command nothing holds back, and a running kernel
ends. `Programs::run` never flushes its queue; the driver is assumed to submit
what was enqueued. `Search`: the host runs, and so does the clock; of the
outcomes of a step none is assumed to come in the end. `Session`: the clock runs, and
the host that polls a build or waits for it goes on. `clBuildProgram` need not return;
the part of `BuildReturns` that needs it has it as a hypothesis.
`Lookup` and `MainKernel` state no fairness, as they claim nothing about the end.

## Proofs

The theorems hold for every value of the constants that satisfies the named
assumptions of the modules: any number of threads, keys, contexts and calls, any
plan, any graph, any clock.

**ProgramCacherProofs.** `IInv` says who is in the critical section
(`MutexHeld`), that the map is injective and below the counter (`MapInjective`),
that a thread about to publish finds its key absent and its ID unused and a
builder finds its key with its ID (`MapMatches`), that no two calls own one ID
(`OneOwner`), that programs are empty before the update and those of the key
after it (`ProgramsMatch`), and what a call that owns or came late may rely on
(`GoodCalls`). `SoleBuilder` follows from `OneOwner` and `MapMatches`: two builders
of one key would both be the thread whose ID the map has. `Frozen` follows since
only builders change programs, and theirs are not complete. `TableRefinement`
maps `Allot` and `LimitThrows` to `Issue`, `Publish` to `Bind`, and the rest to
stuttering.

**KernelGraphProofs.** Facts about vectors of kernels: there is a next one, the
main kernel is last and waits for all others.

**GemmRunProofs.** `Structure` says that what the loop has dealt with was enqueued
with the wait list of the source (`Enqueued`), and that what has begun waits for
nothing any more (`StartedIsFree`). The main kernel waits for all kernels of its
call, so its event means that all are over; every kernel carries the user's events,
so what begins, begins after the calls it waits for. That holds for any plan.

`NoConflictingOverlap` needs the calls to be disciplined: where two of them touch
the same memory and one writes it, one must be ordered before the other, by a
chain of events and in-order queues of any length. `BeforeIsOver` takes the chain:
if a call has begun, all calls before it are over. So what overlaps is not
ordered, and what is not ordered does not conflict; within a call the dependencies
of the bundle do the same. `ImplementsAtomic` needs in addition what memory holds
(`Contents`): a workspace in which a call has packed still has its packed matrix when
the main kernel reads it, a C that only the beta kernel has treated is scaled
exactly once, every other matrix is what the calls that are over have made of it.
Then the end of a main kernel is the one step of `AtomicGemm` in which the call takes
effect and all other steps change nothing there. The theorem is about the safety part
of `AtomicGemm`; that all calls take effect at last is fairness, and model-checked.

**SearchProofs.** `IInv` ties the best of each descent to what was measured
(`MeasuredMatched`), the front and the history (`FrontUnconsidered`), how late a
descent may be (`LateIsLate`), and that no neighbour of the best is forgotten
(`NeighborsPending`). That a sequence of solutions has a best one would take an
induction over its length; `SolutionsCounted` carries it along instead, one
solution at a time.

**SessionProofs.** `IInv` says that while `update` is at a slot the slot has the new
source and no program before one is created (`TurnPrepared`), that what it is done
with has a program of the source of the request (`DoneWith`), that a run begins
when it is done with everything (`RunOfAll`), how many programs are alive
(`ProgramsCounted`), that a status of ready is one of a build that is over
(`ReadyIsOver`), and what may be alive (`AliveOrLost`). `TimesOfRequest` does not
follow from the programs being built, which they need not be: the main kernel
waits for all others, so that a run whose last event comes has executed them all,
and what executed was compiled from its slot.

**ProblemProofs.** Everything about a problem (hyper-parameters, a geometry, offsets)
that takes no state, and for all of them.

- The host: redirection of any geometry the constructor accepts is canonical and
  keeps the leading dimensions large enough, so that the GEMM of the host, which the
  accuracy test compares with, never throws; four threads fill host matrices of any
  size, each element once; reflection of hyper-parameters undoes itself; the three
  loops scale every element of C once, add each of its products once and leave the
  rest of the buffer alone (`CpuAddsUp`), through every redirection; the zones of
  the comparison cover the buffer (`ZonesCover`).
- Work groups: in each of the three orders (by row, by column, in super columns)
  a tile has exactly one number (`NumberedOnce`), so that identifiers that fit are those of
  the shares of the tiles of C, each once (`GroupsApart`, `GroupsCover`).
- The split: of a `k` cut into unrolls that are dealt out among `ICE` groups, with
  an offset the first group begins at and a rest the last one sums, every
  position is summed by one group in one step (`SharesOfTile`).
- A group: its items load all of a tile for each step (`LoadsCover`); an element
  of C in a tile, also in one pulled in at the edge, is written from one register of
  one item (`WritersOfTile`).

**LookupProofs.** `IInv` says how far a merge is (`Merging`), that neither of two
solutions goes first two turns more often than the other (`FairDuel`: the sequence
of turns is a recursive function, whose two halves are complements), and what an
answer honours at each stage (`Answering`). From it come the types, `MergedKeys`,
`ConstraintsHonoured` and `SearchAccepted`, for any caches, requests, rounds and
lead. `NearestComparable` needs a second invariant, `KnownKeys`: a merge and the reduction
of workspaces make no key whose sizes or workspace were not among the inputs, for
which `LogsAssumption` has the tables. It is proved for all tables that grow, in any
unit, and not for exact logarithms only: the distance of two keys is finite exactly if
they can be compared; a request is at distance zero to itself; what is at most that
far pays with its workspace for every feature and every size it differs in, and the
workspace has not enough to pay for a feature, and for little of a size. Of the
finitely many keys of a cache that are near one is nearest, whichever way distances are
measured.

`ReflectedDerivable` is about what a reflection leaves as it is. `CanonicalIsAlike`:
the canonical form has the same `k`, workspace, lines and lengths of the sides as
the geometry, the other way round if it was redirected. `GridReflects`: for a power
of 2 the sides of the grid are exchanged by the reflected skew, which is arithmetic
of exponents. `SameKernel` says that two solutions are the same but for their
sides; then every test of `set_fragile` has the same outcome, side by side
(`SameDerivability`), where the products of the two sides, work items and
workspace, are the same (`SameSums`). The invariant needs two more conjuncts:
`WholeCaches`, that micro tiles have elements and matrices are used in one of three
ways, for which the code has no test and which `WholeInputs` requires of the
caches, and `Chosen`, that a bundle is made of what was just derived or of the
reflection of what was found. The proof attempt found the exception of a `MAC`
that is no power of 2: the property had been stated for copies only, no constraint
of the instance had such a `MAC`, and the sides of its grid are not exchanged.

The assumptions on `Caches` and `Requests` are what the code constructs: keys are
canonical geometries whose leading dimensions suffice, solutions are whole,
constraints are strings that can be parsed.

**MainKernelProofs.** `IInv` adds to the types that what runs could be derived
(`Derived`), that blocks belong to a work group of the problem (`InMain`), that a
block which sums has unrolls left and one that ends has none (`UnrollsLeft`), and
that items of a group are between the same two barriers (`BetweenBarriers`). Each
theorem is about all hyper-parameters and geometries of `IsProblem`, which is
arithmetic: division and remainder, greatest common divisors, numbers written in
digits.

- `TilesFit`: if the elements of an unroll divide among the items, the shape of
  each item's tile is found, since a number that divides `TH * TW` is a product of
  one that divides `TH` and one that divides `TW` (`Euclid`, `TileFound`). So
  the two answers `get_tileability` does not return are never needed.
- `TypeOK`: the tiles that items load are disjoint blocks of a padded unroll, and
  a split of the summation leaves no negative number of unrolls, nor does the
  first block with its offset (`UnrollsAreCounted`, `BlockForUnrolls`).
- `GroupIdsFit`: the integer is a short one only where C with its padding has fewer
  than 2^16 elements (`AreaOfC`). For a C of more than 4096 a graph without constraints
  has macro tiles of 32 or more, so that there are 4096 tiles at most (`FewGroups`),
  and the largest split of the summation multiplies their number by 14.
- `PackedOnce`: the address a packing kernel writes to, written in digits, tells
  the item and the place in its tile (`Copies`, `NormalForms`); parts of A and B lie
  side by side (`CwGlobalOffset`), and inside the workspace, because derivability
  has compared its size with the sum (`Room`). The target leading dimension never
  falls below that of the matrix, although the subtraction it starts with may
  wrap round (`TargetHolds`).
- `LoadsInside` needs a second invariant, `LInv`, beside what a group knows of its
  blocks: the matrices on the device are those of the host (`Filling`), every
  place of the workspace that a packing kernel writes has an element of its matrix
  (`PackedInside`), the pointers of a group have jumped as often as it has unrolls
  behind it (`Jumping`), and what an item was to load is loaded (`AllLoaded`). A
  load that is not guarded away is along `k` within the summation, however its
  unrolls are shared among groups, in the first block, in a full one and in the
  tail (`WithinSummation`); its tile is one of the matrix in each order of work groups
  (`TilesOfGroups`); vectors of `VEW` elements leave no remainder of a stride
  (`ExactVectors`). So it is an element of the matrix (`LoadAddresses`, `ElementAt`),
  or, since copies and normal forms have every element of theirs (`CopiesCover`,
  `NormalFormsCover`), a place that was packed (`LoadsFrom`).

- `SameAsCpu`, the functional correctness of the generated kernels, stands on four
  invariants, each with the one before. `MInv`: the workspace has
  the very element that belongs to each of its places (`PackedExactly`), items pass the
  barrier after the loads together (`Together`), and who has loaded has put there
  the element of its place across the tile and along `k`, or zero where nothing is
  to be summed (`LoadedExactly`, by `ReadsExactly` and `LoadsAgree`). This is where the barriers are needed: an item
  sums what others have loaded, and loads again over what others have summed.
  `SInv`: a register of an item is the bag of the products of the steps behind it
  (`SummedExactly`), which are all of its share when it writes (`AllSummed`). A step
  adds the products of the positions it stands for, which are new
  because positions of different steps differ. `RInv`: C has the products of the
  shares that were added (`ResultExactly`), since an element is written by one
  item of each group that has its tile, and the groups of a tile have disjoint
  shares; scaling happens once, in the beta kernel or in the write.
  When all groups are over the shares are the whole of `k` (`SharesOfTile`), and
  that is what the host has (`CpuAddsUp`). No induction over data is needed:
  every sum is a set of positions that the steps make grow.

  What it takes is `Fits`: that the identifiers of the groups fit the
  type that is chosen for them by the size of C, or else two groups
  would be one. `SameAsCpuWhereIdsFit` has it as a hypothesis, `SameAsCpuInGraph`
  proves it for all that a graph without constraints has (`IdFits`), and
  `SameAsCpuAlways` assumes it of the problems that run (`IdsFit`), which TLC
  evaluates for those of `kernel`. It is not always so: a constraint on the range may ask
  for small tiles and a split that make more than 2^16 groups of a C with
  a short identifier (100 by 100, macro tiles of one element, a split by 14).

**How the invariants were checked.** `IInv` is an invariant of the runs `cacher`,
`gemm_run` and `search`. Those of `session`, `lookup` and `kernel` were checked by
TLC on the instances of these runs before they were proved (for `kernel` `RInv`, which
contains the others, and `SameAsCpu \/ ~FromGraph`, in all of its states); the
configurations leave them to the proofs.

**Only model-checked.** Liveness (`EveryCallEnds`, `EveryCallCompletes`,
`SearchEnds`, `BuildReturns`) is out of the prover's reach, as is ENABLED. Every
invariant of a run is stated by a theorem. The refinement of the fair `AtomicGemm`
is checked with its fairness.

## Not modelled

- Rounding, and the comparison with NaN (`accuracytests.cpp:103`), which no test of
  a difference notices.
- The text of the kernels: wording, pragmas, names, order of arguments, MAD and
  AFI, which change no result. Alignment of vectors (`alphagenerator.cpp:1014`), and
  the int of the split offset, which a very large `k` would overflow
  (`alphagenerator.cpp:946`).
- Parsing and printing of geometries, hyper-parameters and caches; filters of
  caches; the variants of redirection in `mlessn`, which nothing calls with a
  geometry.
- More outcomes of a data race than a prefix; the iterators of `get_thue_morse` that
  a reallocation leaves dangling (`kernelcachemerge.cpp:27`); a build log of size
  zero (`oclutil.cpp:594`); the pointer to a local writer that `get_ID` leaves in
  `Programs` (`programcacher.cpp:156`), which nothing follows again.
- `apitest.cpp` and `standalone.cpp`, which call what is modelled with timers and
  generated text; utilities, examples other than `mergecaches`, tests, scripts,
  and the generated kernels in `rocm1`. `free(ID)` is declared in `gemm.hpp` and
  defined nowhere.

## Plan

1. `ProgramCacher` and `GemmRun` with their abstract specifications; `Search`; then
   `ProgramSlots` and `Session`, `CacheMerge` and `Lookup`, and the kernels: done.
2. Proofs of `NoConflictingOverlap` and the steps of `AtomicGemm`, of the invariants of
   `Lookup`, and of all safety properties of `MainKernel`: done.
3. The cover of `MainTiles` (tiles in each order of groups, shares of each split) and
   what the kernels sum, up to `SameAsCpu`, for all sizes: done.
