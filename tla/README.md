# TLA+ models of gen-dnn (oneDNN, VE port)

These modules model the parts of the library that carry state, share it between
threads, or compute who may touch which memory. The arithmetic of the layers
(convolutions, normalisation, GEMM kernels, JIT code generators) is numerical
code without such state and is not modelled; where a model needs a result of it
(GEMM, pooling, gradients), it records which terms went into the result.

Paths below are relative to `src/src/`.

## The system and its parts

| part | source | state and operations | what is hard about it | modules |
|---|---|---|---|---|
| primitive cache container | `common/primitive_cache.hpp` | list and mapper; `get`, `add`, `evict`, `set_capacity` | list and mapper must agree, in order of use, after any sequence of calls | `LruPrimitiveCache`, `LruReplacement` |
| creation through the cache | `common/primitive.hpp`, `common/primitive_cache.cpp`, `common/rw_mutex.cpp` | `create_primitive_common`, capacity API, one reader-writer lock | a hit modifies the list under the *read* lock; nested creation under the write lock; failures half way | `PrimitiveCache`, `CacheHistory` |
| maximal CPU ISA | `cpu/x64/cpu_isa_traits.cpp` | `value_`, `initialized_`, atomic `state_`; set, lazy initialisation, soft and hard get | lock-free, with two plain members beside the atomic one | `MaxCpuIsa` |
| library scratchpads | `common/scratchpad.cpp`, `common/primitive.cpp` | a thread-local storage with a reference count; create, expand, destroy | expansion replaces storage that others use; allocation failures; destruction by another thread | `GlobalScratchpad` |
| scratchpad layout | `common/memory_tracking.hpp`, `common/memory_debug.cpp`, `common/scratchpad_debug.cpp` | a registry of booked pieces; `book`, `get`, prefixes, nested registries | addresses depend on a base not known when booking; guard pages; 32-bit keys | `MemoryTracking` |
| threading layer | `common/dnnl_thread.hpp`, `common/dnnl_thread_parallel_nd.hpp`, `common/counting_barrier.hpp`, `cpu/cpu_stream.hpp` | `parallel_nd` on an application's threadpool; a barrier on the caller's stack | the last notifier races with the waiter that destroys the barrier | `Balance211`, `Parallel` |
| `simple_barrier` | `cpu/x64/cpu_barrier.cpp` | counter and sense, reused for every visit | a fast thread re-enters before a slow one has left | `Barrier`, `SimpleBarrier` |
| weight gradient, 1x1, AVX-512 | `cpu/x64/jit_avx512_common_1x1_convolution.cpp` | a buffer per group, sums per image range, two kinds of barrier; the bias through a reducer | a shared buffer is reused tile by tile; sums are added by other threads | `BwdWeightsTeam` |
| reduction balancer, `cpu_reducer_t` | `cpu/x64/cpu_reducer.hpp`, `cpu/x64/cpu_reducer.cpp` | groups of threads, private places, a barrier per group | the last group has fewer jobs than the space is cut for; idle threads | `ReduceBalancer`, `BwdWeightsTeam` |
| x64 GEMM driver | `cpu/x64/gemm/gemm_driver.cpp`, `gemm_partition.hpp`, `gemm_threading.hpp` | decompositions, a copy of A shared by the team, temporary C matrices summed over k | teams smaller than asked for, allocations that fail, threads that wait for one another | `GemmThreading`, `GemmDriver` |
| VE pooling | `cpu/ve/ref_pooling.cpp`, `common/ve/memory_desc_wrapper_opt.hpp` | shares of the output in vector batches, a workspace between forward and backward | clipped windows, ranges cut in the middle of a row, gradients that overlap | `CoordsForNd`, `VePooling` |

How they interact: `create_primitive_common` looks a primitive up in the cache
and otherwise runs its `init()`, which may create nested primitives through the
same function and which attaches a scratchpad. The descriptor has booked pieces
of that scratchpad in its registry. Execution enters the threading layer, which
divides the work with `balance211`; some teams synchronise inside a parallel
section, with `simple_barrier`, the runtime's barrier or flags. Compositions:

- `PrimitiveCache` applies the container's operators (`LruPrimitiveCache`) from
  many threads, and `CacheHistory` maps its steps to the policy that
  `LruReplacement` states for one caller;
- `BwdWeightsTeam` contains `SimpleBarrier` once for the team and once for each
  group, `Balance211`, and `ReduceBalancer` with the reducer's barriers;
  `SimpleBarrier` implements `Barrier`;
- `GemmDriver` works on the slices of `GemmThreading`;
- `VePooling` takes shares from `Balance211` and walks them, and every window
  inside them, with `CoordsForNd`.

Everything else is listed in `PROJECT.json` as not modelled, with the reason.

## Modules

**`LruPrimitiveCache`** holds the member functions of the container as operators
on a record `[capacity, list, mapper]`. **`LruReplacement`** drives them from one
caller and adds a history variable, the time of the last use of every key. It is
the abstract specification of the cache: what one lookup or one change of the
capacity may do.

**`PrimitiveCache`** drives the same operators from threads that run
`create_primitive_common`, with one action per lock operation. A hit under the
read lock is three actions (find, splice, front). When two splices overlap the
code has a data race on the links of a `std::list`; the model records `torn` and
says nothing about what follows. `Nested` gives the keys that `init()` of a key
creates, one level deep; `Careless` are the keys whose `init()` ignores the
status of these creations (`cpu/ref_sum.hpp`, `cpu/ref_concat.hpp`). A key is a
model value: hashing and the comparison of descriptors are not modelled, and
neither are builds with the cache disabled or primitives nested more deeply.
The capacity that the environment gives is not checked by the code: a negative
one becomes a huge `size_t` (modulo `SizeWrap`), unlike one given to the API.
**`CacheHistory`** adds the history to it, a time for every key that the thread
sets as it looks the key up or adds it, and the refinement mapping `Lru`. A hit
takes effect at its splice, or where the second `get()` finds the key, a miss at
its `add`, and every nested creation that succeeds is a lookup of its own; all
other steps of a creation are stutters.

**`MaxCpuIsa`** has one action per load, compare-exchange and store of `state_`.
`value_` and `initialized_` are plain members, so their two stores may become
visible in either order. A failed compare-exchange leaves the thread in its loop.

**`GlobalScratchpad`**: the members of a global scratchpad are `thread_local`,
so a creation or a destruction is one step. `Expand` gives every outcome of an
expansion: it succeeds, falls back to the old size, or leaves nothing. The
reference count is an unsigned number modulo `RefWrap`.

**`MemoryTracking`** models a registry as a record and `book`/`get` as operators;
the state machine is a descriptor that books pieces through chained registrars,
and books a nested registry as one piece, in a release build or either debug
build.

**`Balance211`** is the division of `n` items among a team. **`Parallel`** is
`parallel_nd` in two dimensions: the stream's hooks, the task division, the
iteration with `nd_iterator_step`, and `counting_barrier` with one action per
atomic or mutex operation. The threadpool and the condition variable are
external: the pool starts tasks in any order in any thread it has, and the
condition variable may wake up spuriously, any number of times.

**`Barrier`** says what a barrier promises. **`SimpleBarrier`** is the generated
machine code, one action per access to the context. **`BwdWeightsTeam`** is the
kernel lambda of the weight gradient with `transpose_src` and one group, and the
lambda of the bias gradient that follows it on the same threads. A block of
weights, or of the bias, is the number of times each block of the reduction
dimension was added to it. The position in `tr_src` is that of the channel
block; the offset inside the image, which every thread of a group computes
alike, is left out. **`ReduceBalancer`** is `reduce_balancer_t` as operators:
`Balance` is the brute-force search with the first of the best candidates, and
`LocalPtr` the place of a thread's private sums.

**`GemmThreading`** has the partitions of C and k (`partition_1d`,
`partition_2d`, the 3D blocks of `get_thread_slice`), `choose_blocking` and the
two tests for the no-copy kernels. **`GemmDriver`** is one call of
`gemm_threading_driver`: an element of C records whether beta was applied, how
often each k was added and how often the offset, and becomes `bad` where the
code would read something that was never computed. The heuristics choose any
decomposition of the form they can produce. The runtime grants any team up to
the one asked for, and is one with barriers (`sync`) or without. Two things are
assumed that the driver relies on and does not test: data was packed for no more
threads than there are now (`Start`), and where B alone was packed for threads
that copy A together, the whole team is granted (`Grants`).

**`CoordsForNd`** is the iterator over nested ranges in batches of the vector
length. **`VePooling`** is a forward execution followed by a backward one; a
maximum is a level, a mean its sum and divisor, and a gradient the sequence of
outputs that were added; `byZero` holds the outputs whose gradient was divided by
the size of an empty window. Statements over a batch act in index order: that the
compiler keeps this where the code says `IVDEP` is not shown.

The `MC*` modules give small sets and symmetry. Operators whose comment begins
with "Mutant" are deliberate errors used to test that a property can fail; no
specification uses them.

## Runs

| run | instance | what it shows |
|---|---|---|
| `cache_threads` | two creators, one admin, 3 keys of which two nest the third, one of them carelessly; capacities -1 to 2; one creator makes 2 calls, the others 1 | the container stays sound and within capacity, no iterator dangles, the threads implement `LruReplacement`, every call returns; as long as only one thread has created, the answer is for the key asked. All up to the first overlap of two splices |
| `cache_front_race` | two creators, no nesting | **violated**: a hit can return the other thread's primitive |
| `cache_careless_init` | one creator, a careless key | **violated**: an incomplete primitive is cached |
| `isa_setting` | 2 threads, 3 calls each, 2 ISAs | hard gets agree, the first freezes the setting, both spin loops end |
| `isa_user_overrides` | 2 threads, 1 call each | **violated**: a successful set is overwritten by the environment's value |
| `scratchpad_shared` | 2 threads, 4 primitives, 3 sizes | a primitive's pad is there and large enough until an expansion and its fallback both fail, and freed with its last user |
| `scratchpad_migrate` | the same, destruction in any thread | **violated**: the pad of the creating thread is not freed |
| `scratchpad_layout` | pages of 4 bytes, 2 outer pieces and 1 inner, 2 prefixes at each of 3 levels, all bases modulo 8, 3 builds | pieces are disjoint, aligned and inside; guards touch no data; keys stay apart |
| `parallel_threadpool` | caller and 2 workers, 5 shapes, 4 kinds of pool, 2 calls | each item once, the barrier outlives its last notifier, pools are restored, calls return |
| `bwd_weights_team` | 2 groups of 2 threads, 3 images, 3 x 2 channel blocks | the shared source is whole when read, both gradients are complete, the barriers refine `Barrier`, the team finishes |
| `gemm_driver` | up to 4 threads, 3 x 3 x 4 and 2 x 4 x 6, copies of A in blocks of 2 x 3, A or B packed or not | success means every term once, the shared copy is whole while used, nothing leaks, the driver returns |
| `ve_pooling` | 2 threads, vectors of 3, 2 channels, 5 shapes, 3 levels of pixels | forward takes exactly the pixels under the kernel; backward reaches exactly the pixels forward took |

### Why the bounds are enough

The bounds were chosen so that the cases the code distinguishes occur. A cache
of capacity 0, one that is full and one that shrinks all occur, nested keys
evict each other at capacity 1, and with three keys an addition to a full cache
of two evicts one entry while another stays. The second call of a thread finds
what it or another has left. Four primitives in two threads allow two to share a
pad while a third expands it. Bases modulo 8 exhaust the residues of the largest
alignment, and the sizes of pieces are 0, less than a page, and exactly a page.
Two prefixes let sibling registrars book the same key. Three threads share 2 x 3
items so that a share starts within a row, and 0 and 1 items take the special
paths. Three images give the groups different numbers of tiles, and tiles of two
and one channel blocks reuse the buffer within an image. Teams of up to four
split k two ways and three ways, leave parts without a thread when fewer are
granted, and share 3 rows or columns so that one of them has none; blocks of 2 x
3 make the shared copy pass over several blocks in both directions. The pooling
shapes have overlapping windows, windows wholly in the padding, a kernel larger
than the padded source, a stride that passes pixels over, and an empty source;
vectors of 3 end inside a row. Names of bounds: `MaxCalls`, `MaxBooked`,
`MaxInner`, `NthrMax`; `RefWrap`, `SizeWrap`, `KeyWrap`, `WaiterMask`,
`PageSize`, `MaxKey`, `MaxPrefix`, `MVL`, `Um`, `Un`, `Veclen`, `AlignK`,
`BlockM`, `BlockN`, `BlockK`, `KBLK`, `MPadd` and `KPadd` are scaled-down
constants of the code.

Symmetry is used only in runs without liveness properties. `MemoryTracking`
switches the deadlock check off because a descriptor may stop booking; the other
bounded models have an explicit end action or can always go on.

### Fairness

Weak fairness of each thread inside a call (`MaxCpuIsa`, `PrimitiveCache`,
`Parallel`, `BwdWeightsTeam`, `GemmDriver`) says that the operating system keeps
scheduling a thread that can run; no thread is obliged to make a call. For
`PrimitiveCache` the number of calls is bounded, so that weak fairness is enough
for the lock; a reader-writer lock that starves writers under an endless stream
of readers is outside what the run shows. `Parallel` adds strong fairness of a
notifier's `mutex.lock()`, because a waiter that is woken spuriously takes and
releases the mutex again and again. That a pool starts every task it was given
is part of `WF(TaskStep)` and is an assumption on the application. In
`GemmDriver` the threads of a section on a runtime with barriers run at the same
time; without barriers no thread waits for another, so the order does not
matter.

## Findings

Each is a violation run and quotes the text it contradicts in `PROJECT.json`.

1. `cache_front_race`: `get()` splices and then reads `front()` under a lock that
   readers share. Two threads that hit different keys may get each other's
   primitive, without any overlap of the splices themselves.
2. `cache_careless_init`: `init()` of a sum or concat ignores the status of the
   reorders it creates; a primitive lacking one is returned as a success and
   cached.
3. `isa_user_overrides`: `init_max_cpu_isa` tests `initialized()` before `set()`;
   a `dnnl_set_max_cpu_isa` between the two succeeds and is overwritten.
4. `scratchpad_migrate`: a primitive destroyed in another thread decrements that
   thread's counter and not its creator's.

What the code does beyond these, without a text to hold against it:

- An expansion of the global scratchpad whose fallback fails too
  (`common/scratchpad.cpp:79`) leaves the primitives that share it without
  storage, and a later, smaller one may get a pad that is too small for them.
  `ServedUnlessLost` says that nothing else takes a pad away.
- The assertion of `balance()` on the reduction buffer
  (`cpu/x64/cpu_reducer.cpp:86`) fails when the buffer has no room for one job of
  each thread and something is reduced; `BalanceAsserted` makes this exact. The
  weights of `cpu/x64/jit_avx2_convolution.hpp:234` have a buffer of 2^21 whatever
  the team, so it can happen there with large jobs and many threads.
- Packed data is not tied to the present number of threads: `thread_arg` has
  `nthr_max` entries (`cpu/x64/gemm/gemm_driver.cpp:1569`) while the loops run to
  the number of threads the data was packed for. `GemmDriver` assumes that it is
  not larger.
- B packed alone for a shared copy of A, with a team smaller than the packing
  assumed: parts of one copy run one after another, with the runtime's barriers in
  each. `GemmDriver` assumes the full team.
- Backward mean pooling that excludes the padding divides by an empty window when
  the source is empty (`cpu/ve/ref_pooling.cpp:990`): infinite but unused for
  floating point, undefined for s32. `MeanGradientSpread` says that this happens
  for an empty source only.

## Proofs

The proofs hold for all values of the constants that satisfy the named
assumptions of the modules.

| module | theorems | argument |
|---|---|---|
| `PrimitiveCacheProofs` | `CacheInvariant`, `CacheStaysSound`, `CacheStaysWithinCapacity`, `NoDanglingIterator` | first what each operation of the container does to a sound cache; then `CacheInv` adds to its soundness who holds the lock where (`LockDiscipline`) and what a thread still knows (`KnowledgeHolds`): without it a miss could be stale when `add` runs |
| the same | `AloneCreatorReturnsRequested` | as long as one thread alone has created primitives, its answer is at the front of the list (`AnswerHolds`); run `cache_front_race` shows that a second creator breaks this |
| the same | `CacheImplementsLru` | the mapping forgets which primitive an entry holds and whether it is whole, and every operator of the container commutes with it (the `Unnamed` lemmas). Each action is then a lookup, a change of the capacity or a stutter (`ActionImplements`), from `CacheInv` and the invariants above (`MappingInv`) |
| the same | `LruEviction`, `ThreadsEvictLeastRecent` | whoever implements `LruReplacement` keeps the list in the order of last use (`Policy`), and `evict` drops a suffix of it. With `CacheImplementsLru` this holds for the threads: what goes was last used, by anyone, before what stays |
| `LibraryStateProofs` | `IsaInvariant`, `AllHardGetsAgree`, `SettingIsFrozen` | `IsaInv`: one thread stores at a time, and a value is there before anyone can lock the setting |
| the same | `PadInvariant`, `UnusedPadIsFreed`, `PadServesUnlessLost` | the count is the cardinality of the set of sharing primitives, and the recorded size is that of the storage, so an expansion never shrinks it. All assume `~Migrating`, that primitives are destroyed where they were created |
| the same | `LedgersStayInOrder`, `SlicesStayDisjoint`, `GuardsStayClear` | booked intervals are disjoint with room for alignment and guards; the addresses then follow for every base |
| the same | `KeysStayDistinct` | a key in the registry is a number whose digits are the prefixes on the way and the key booked; four levels fit in the key type (`KeyAssumption`), so nothing wraps and the digits can be read back |
| the same | `SlicesStayAligned`, `NestedStaysInside` | of two alignments the smaller divides the larger (`PowersAssumption`), so rounding up to the one that was booked also aligns to the one asked for; the piece of the nested registry is never replaced and has the size of that registry (`HostInv`). All four are parts of, or follow from, `ScratchpadInv` (`ScratchpadInvHolds`) |
| `WorkDivisionProofs` | `SharesContiguous`, `SharesDisjoint`, `SharesCover` | `balance211`: shares of size q + 1 and then q, for every amount of work above 0 and team above 1 (the code treats the rest separately) |
| the same | `Partition1dExact` | `partition_1d`: every row or column in exactly one band, also with fewer rows than threads |
| the same | `NocopyMonotone` | the tests for the no-copy kernels are monotone in the number of threads |
| the same | `BalanceAsserted`, `GroupsShareJobs`, `ReducerPlacesApart` | the assertions of `balance()`, for every question: the initial guess meets them, and so does each candidate that is not skipped; the one on the buffer exactly if one job of each thread fits or nothing is reduced. The jobs of the groups and the private places then follow one another |
| `ParallelProofs` | `RunInvHolds`, `BarrierCounts`, `BarrierLivesLongEnough`, `PoolIsRestored` | `RunInv`, for any number of workers: the barrier's count is the number of tasks not begun plus the threads that still have to notify, and while the caller waits at most one notifier is past its decrement, and only once the count is 0. So the barrier is destroyed after the last unlock |
| the same | `ParallelInvHolds`, `ItemsVisitedOnce` | the iterator of a task is at the item with its number, and the items visited are those of the finished tasks and the first ones of the running tasks; the shares cover all items by `WorkDivisionProofs` |
| `BwdWeightsTeamProofs` | `BarrierInvariant`, `BarrierRefinement` | for threads that call `barrier()` whenever they like (`BarrierSpec`): the counter counts the arrived threads of the current sense, and no member is a round ahead (`RoundsAgree`); leaving then maps to `Leave` of `Barrier` |
| the same | `TeamInvariant`, `TilesAreWhole`, `TeamBarriersHold` | every step of the team is a step of its barriers, so `BarrierInv` holds of the team. `LoopInv` says how far two threads of a group can be apart: equal numbers of visits mean the same half of the same tile, and nobody is more than half a tile ahead. So nobody overwrites a place that another still reads, and after the second barrier the shares of all make up the tile |
| the same | `GradientInvariant`, `GradientIsComplete` | a block holds the sum over a range of the reduction dimension that begins where its thread's range begins (`BlocksRight`): it grows tile by tile, and after the barrier by the ranges of the other threads, which follow one another. The final sum reads only after the whole team has left its loops (`PlaceInSum`) |
| `GemmDriverProofs` | `DriverInductive`, `TypeCorrect`, `DriverFrees` | `DriverInv`: the decomposition in use is one that the heuristics can produce for the team that was granted (`PlanInv`), every thread has the slice of C that `get_thread_slice` gives it, inside the matrix (`SliceInv`), and works on a block of the shared copy that lies in its slice (`PlaceInv`). From where the driver stands it follows which buffers it holds, and that it has freed them when it returns |
| the same | `TwoBarriers` | `ShareInv`: threads that have come to as many barriers are in the same half of the same block, and nobody is more than half a block ahead (`InStep`). So nobody writes rows that another still multiplies with, and after the first barrier of a block the rows that the threads have copied make up the block |
| `GemmResultProofs`, on the lemmas of `GemmSumProofs` | `ResultInductive`, `ResultAlwaysComplete` | `ResultInv` says for every element of C, at every step, which terms it holds: the threads' slices are disjoint and cover C and k, so an element of C (or of the temporary matrix of a layer of k) belongs to one thread and holds the terms of the blocks it has finished (`OwnUpto`); when k is split the layers are then added to it one after another, and their ranges of k are disjoint and cover k. Beta is applied and the offset is added exactly once |

Each inductive invariant (`CacheInv`, `MappingInv`, `IsaInv`, `PadInv`,
`ScratchpadInv`, `ParallelInv`, `BarrierInv`, `LoopInv`, `GradientInv`,
`DriverInv`, `ResultInv`) was checked on the runs' instances before it was proved.

What the proofs assume of the constants is stated in the modules as `ASSUME` and
evaluated in every run. Most of it is the range of a parameter. The others:
`RefWrapAssumption` and `MaskAssumption` (fewer primitives, or threads, than the
counters can hold), `KeyAssumption` and `PowersAssumption` above,
`WorkersAssumption` (finitely many), `TeamAssumption` (the team was chosen with
no more threads in a dimension than blocks, and tail steps no smaller than the
steps, as `init_conf` arranges), `TeamBarriers` (the team meets at the
barriers whose members it computes) and `TilesAssumption` for GEMM: where the
heuristics cut C into 4 bands of rows, or 8 with AVX-512, there are at least 20
rows, or 112. The kernels work on tiles of 8 rows or more, 48 with AVX-512
(`cpu/x64/gemm/gemm_info.cpp`), and a band has a tile at least. It makes
the rounding of `partition_2d` leave no band of rows empty. Bands of columns may
be empty, or fewer than computed; the proof shows that this is harmless.

Only model-checked:

- all liveness (`CallsReturn`, `CallReturns`, `TeamFinishes`, `DriverReturns`),
  which the prover does not handle. `CacheImplementsLru` and `TeamBarriersHold`
  are about the safety part: their abstract specifications have no liveness;
- `BiasComplete`, whose definition sums over the threads of a group: a property
  of such a sum needs induction over a set;
- `VePooling`: its walk over nested ranges is recursive, and its results are
  sums and maxima over sequences.

## Not modelled

Memory consistency weaker than interleaving is modelled only where the code has
plain members beside an atomic (`MaxCpuIsa`) or a race on a list (`torn`); the
volatile `compute_done` of GEMM is taken to be seen in order. Not modelled at
all: descriptors, attributes and the descriptor iterator; hashing; memory
descriptors and zero padding; engines and storages; the OpenMP and TBB runtimes;
reference and JIT kernels other than the pooling above; recurrent networks; the
GPU engine; text output. Hazards in them are listed with a note.

The models cover a small share of the lines of the repository. Most of these are
generators of machine code, numerical kernels repeated for every data type and
instruction set, GPU kernels and tables of implementations: they have no state
of their own beyond the tensors, and their correctness is that of floating-point
results, which TLC cannot check. What is modelled is where threads, failures and
sequences of calls meet.

In the modelled parts:

- A team smaller than `jcp.nthr`, which a threading runtime may create in a
  nested region, would wait for ever at `simple_barrier`; `BwdWeightsTeam` has
  the full team.
- GEMM: the packing calls, vectors (`gemv`), the no-copy kernels, and the two
  assumptions on packed data above. The no-copy case inside the
  parallel section is left out because it cannot happen: the comment at
  `cpu/x64/gemm/gemm_driver.cpp:1683` says that it is for a smaller team than
  expected, but by `NocopyMonotone` a smaller team never turns to no-copy.
  Eight bands of rows need eight threads and are covered by the proofs only: the
  run has four.
- Pooling: one and three dimensions, physical offsets, the width of the
  workspace, and the compiler's directives on scatters. The size of the output
  is taken as `pooling_desc_init` checks it, with division towards zero, so a
  kernel slightly larger than the padded source is accepted; the run includes
  such a shape. A window that holds nothing above `lowest()` is given position 0
  in the workspace; `MaxGradientRouted` says what follows.

## Plan

1. The descriptor iterator (`fetch_once` and clones) and the blocked layouts of
   memory descriptors as a pure function.
2. `cpu_reducer_2d_t`, and the other weight gradients over `simple_barrier`.
3. GEMM: the packing calls, and packed B with smaller teams.
