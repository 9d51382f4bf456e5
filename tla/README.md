# TLA+ models of the Halide / HardBoiled runtime and of parts of its compiler

This directory models, checks and proves parts of the repository with TLA+, TLC
and TLAPS. Paths below are relative to the repository (`src/` is the compiler,
`src/runtime/` the runtime library that is linked into every pipeline);
`PROJECT.json` maps every definition to the lines it translates.

The repository is the Halide compiler with the HardBoiled instruction selector.
Three kinds of code in it can be checked exhaustively on small instances.

- The runtime has state that several actors change: a home-made mutex and
  condition variable, a work-stealing thread pool built on them, and a dozen
  services that keep two or three hand-written structures in agreement. The
  tests can only sample their schedules and their sequences of calls.
- The compiler reasons about integers: bounds, alignments, derivatives, and the
  multiplications that replace divisions. The rest of it trusts the answers and
  deletes code on their account. Wrong answers sit at the edges of the types,
  where tests with 64 bits rarely go; with four bits every value is an edge.
- Two passes of the compiler keep something in step that they cannot see: the copies
  between host and device have to be right for every way a program may take at run
  time, and the tile instructions that HardBoiled selects have to store what a
  vectorised statement stored, through every sequence of rewrite rules.

The rest is functions on unbounded syntax trees, and glue to drivers.

## 1. Inventory

### Modelled

| Part | Code | State, operations | Modules |
|---|---|---|---|
| `word_lock` | `runtime/synchronization_common.h:107-301` | one word (lock bit, queue-lock bit, newest sleeper), nodes on sleepers' stacks; lock, unlock | `WordLock` |
| bucket lists | `:303-601` | a singly linked list with a tail per bucket; park, unpark one, unpark and requeue | `BucketList`, `SleepQueues` |
| `fast_mutex`, `fast_cond` | `:603-898`, `posix_threads.cpp` | a word each, queues by address; lock, unlock, wait, signal, broadcast | `ParkingLot`, `ParkingLotMonitor`, `Monitor` |
| `halide_cond_with_spinning` | `runtime/thread_pool_common.h:36-80` | a counter over a condition; wait, broadcast | `SpinningCond` |
| thread pool | `:96-867` | a stack of jobs, counters of sleeping and reserved threads; loops, forks, semaphores, resizing, shutdown | `ThreadPool`, `TaskGather` |
| memoization cache | `runtime/cache.cpp` | hash chains, recency list, bytes accounted; lookup, store, release, evict, set_size, prune | `MemoizationCache`, `LruCache` |
| GPU compilation cache | `runtime/gpu_context_common.h` | open-addressing table with deletion marks and use counts; setup, release, delete a context, release all | `GpuCompilationCache` |
| device buffers | `runtime/device_interface.cpp` | dirty bits, handle and interface of each buffer; allocations, copies, wraps, frees (partly) | `DeviceBuffer` |
| buffer handles | `runtime/HalideBuffer.h` | reference counts of host and device memory, how the latter was obtained, what crops keep; copy, move, crop, wrap, adopt, free, drop (partly) | `BufferHandles` |
| device copy injection | `InjectHostDevBufferCopies.cpp` | what is known of a buffer's flags and device memory, statement by statement, and what is emitted for it (partly) | `CopyInjection` |
| device memory pool | `runtime/cuda.cpp:596-891`, `allocation_cache.cpp` | the free list and the flag; allocate, free, release unused (partly) | `DevicePool` |
| DMA of Hexagon | `runtime/hexagon_dma_pool.cpp`, `hexagon_dma.cpp` | real engines mapped to virtual ones, pairs of descriptors in locked lines; allocate, transfer, deallocate (partly) | `HexagonDma` |
| locked cache of Hexagon | `runtime/hexagon_cache_allocator.cpp` | a list of locked memory, in use or not; allocate, free, free all | `LockedCache` |
| trace buffer | `runtime/tracing.cpp:20-170` | a shared-exclusive spin lock in a word, cursor, overage; trace, flush | `TraceBuffer` |
| block and region allocators | `runtime/internal/block_allocator.h`, `region_allocator.h` | blocks tiled by regions with usage counts; reserve, release, reclaim, retain, collect, destroy (partly) | `BlockAllocator` |
| sampling profiler | `runtime/profiler_common.cpp`, `profiler_inlined.cpp` | a list of instances on their stacks, counters and a token without lock, the sampling thread | `Profiler` |
| constant bounds, alignment | `ConstantInterval.cpp`, `ModulusRemainder.cpp`, `ConstantBounds.cpp`, `Simplify_*.cpp` | intervals and congruences of expressions, node by node (partly) | `ConstantInterval`, `ModulusRemainder`, `ExprInfo` |
| monotonicity | `Monotonic.cpp` | bounds of a derivative, node by node (partly) | `Monotonic` |
| tile selection | `egglog/accelerator/*.egg`, `ExtractTileOperations.cpp` | a statement as a sum of terms that rules rewrite; the buffers they shuffle; accumulator tiles in registers (partly) | `TileSelection`, `TileRegisters` |
| integer division | `tools/find_inverse.cpp`, `FastIntegerDivide.cpp`, `CodeGen_Internal.cpp` | the search for multipliers, the code emitted for them, division bit by bit (partly) | `IntegerDivision`, `LongDivision` |

How they interact. The pool's lock is a `halide_mutex`, its three places to
sleep are spinning condition variables; those are a counter over a
`halide_cond`; mutexes and conditions park threads in the bucket lists; a bucket
is protected by a `word_lock`; and both put a thread to sleep with a
`thread_parker` (a pthread mutex, condition and flag). The models follow that
tower, each floor using only what the floor below is shown to provide:

    ThreadPool           uses a monitor with sets of waiters
      SpinningCond       implements Monitor   (checked and proved)
        ParkingLot       implements Monitor   (checked and proved)
          BucketList     implements SleepQueues, one FIFO per address   (checked)
          WordLock       excludes, and hands over (exclusion and queue proved, progress checked)

The other services use a `halide_mutex` and nothing else of each other: one call,
or one critical section, is one action. Those that do not hold a lock
(`TraceBuffer`, the counters of `Profiler`, the driver calls of `DevicePool` and
`LockedCache`, the transfers of `HexagonDma`) have an
action per access, and so has a drop in `BufferHandles`. `CopyInjection` runs the calls of
`DeviceBuffer` that it emits. The compiler's part is a tower too: `ExprInfo` is built of
`ModulusRemainder` and `ConstantInterval`, `Monotonic` of `ConstantInterval`, and
`IntegerDivision` and `LongDivision` are what a division becomes.

What is hard to test is listed line by line under `hazards` in `PROJECT.json`.

### Not modelled

| Part | Why |
|---|---|
| GPU back ends, the RPC of Hexagon, Windows threads, files, clocks | glue to drivers and operating systems that are not in the repository; of `hexagon_host.cpp`, `Profiler` has what it does to the profiler |
| string storage, string and hash tables of the runtime | plain sequential containers; `test/runtime` exercises them |
| fake thread pool | runs every task in the caller, without state |
| parallel task lowering | a rewrite of programs; `ThreadPool` takes its output as its input |
| lowering passes, simplifier rules, symbolic bounds, solver | functions on unbounded terms: correct when two expressions are equivalent, a question for an SMT solver or for `test/fuzz` |
| the printer and parser of HardBoiled's terms (`EqSatIR*.cpp`) and the extraction | text, and an equality-saturation engine from outside the repository |
| front end, code generators, JIT, autoschedulers, apps, bindings, tests | construction and translation of data structures; search heuristics; users of the system |

Of the parts that are modelled partly, these are left out: crops and slices of
device buffers (`BufferHandles` has them as owners of memory), and the use counts of JIT
modules; shapes and contents of handles, and their dirty flags; frees after the last use of
an injected buffer, statements that touch one on two sides at once, and loops that are
one statement although an extern stage is called in them; memory properties, alignment and
the byte limit of the allocators, and the arenas below them; formats and places of DMA
transfers, and a failing `malloc` of a list node; rewrites that *use*
bounds; bounds of loads, ramps of derivatives, broadcasts, shuffles, bitwise
operators; tables for 16 and 32 bits, which are beyond TLC's integers; rules for resident tiles, the
numbering of tiles of AMX and of the factors of WMMA, and the axioms on vectors that bring
a statement into the form the rules match.

## 2. The models

### WordLock
One action per access to the word. `state` is the word as a record of its two
bits and the pointer; `node[t]` is `word_lock_queue_data` on t's stack, garbage
once t runs again; `expected[t]` is the word as t saw it last. A failing CAS is
an action that loads the word. The walk of `unlock_full` is one action a turn,
because threads push new nodes in between; a null pointer met by the walk is
the label `aborted` (the code's `halide_abort_if_false`). `Spins` stands for the
limit of `spin_control`.

### BucketList and SleepQueues
`BucketList` has `head`, `tail`, `next` and `sleep_address` as the code assigns
them: one action is one critical section of the bucket, with the loop inside
computed by a recursive operator. `SleepQueues` is what the parking lot relies
on: one queue per address. `FifoPerAddress` is the refinement. `validate` and
`unpark` callbacks appear as the choices they can make.

### ParkingLot, Monitor, ParkingLotMonitor
With the lists justified, `ParkingLot` keeps a queue per address. A critical
section of a bucket with one access to a word that other threads change without
the bucket is one action; `broadcast`, which takes two buckets and makes two such
accesses, is cut into `LockFirst`, `LockSecond`, `Validate`, `Mark`, `Requeue`.
The words are sets of bits; a `fast_cond` word is the mutex it names.
`Program` says which calls a thread may make (any, in the runs).
`Monitor` is the abstract specification: a waiter registers while it holds the
mutex, a signal takes one registered thread, a broadcast takes all, and nobody
re-enters while registered. `ParkingLotMonitor` has the mapping.

### SpinningCond
`wait` reads the counter, spins without the mutex, re-checks under it and only
then sleeps. It is shown to be a `Monitor` too, so `ThreadPool` may treat
spinning and sleeping waiters as one set.

### ThreadPool
`stack[t]` is t's call stack, as frames: a closure's body, a call of
`worker_thread_already_locked` with its locals, a `halide_do_parallel_tasks` that
joins its jobs. So recursion (a body that calls the pool, an owner that runs
other jobs while it waits) is real. `job` holds the `work` structures on owners'
stacks and `sem` their semaphores; both vanish when the owner returns. `wq` is
`work_queue_t`. Programs are data: `Task` is what the compiler would emit
(`min_threads`, `serial` and semaphores by the rules of `LowerParallelTasks.cpp` and
`AsyncProducers.cpp`), `Main` what a client thread calls. A stage that may fail
is the operation `may_fail`. Tasks without iterations do not reach this
model: `TaskGather` is the loop that should leave them out.

### MemoizationCache and LruCache
An entry is an address with its `next`, `more_recent`, `less_recent`, key and
`in_use_count`, assigned as the code assigns them; freed addresses are used again.
The loops of `prune_cache` and `evict` take a step per entry (the lock is held,
so they do not interleave, but the counterexamples are readable). A key stands for
everything that is compared. `LruCache` is the promise: results in order of last
use, each with the number of buffers that pipelines still hold. `LruSpec` is the
refinement.

### GpuCompilationCache
The table slot by slot, with probing, growth (which inserts the live entries
again), deletion marks and the load factor. `size` is `1 << log2_compilations_size`, and 0
without a table. `kernel_hash` keeps the upper bits, so `Hash` is given for a table of `MaxSize`
slots. The runs start at four slots where the code starts at 128. A module that cannot be
cached is `lost`. `InsertSucceeds` holds the assertions of `insert`; `OnceSpec` is the
specification in which no sweep meets a slot that was deleted before (below).

### DeviceBuffer
A buffer is its flags and handle, and two facts that the code does not have: whether
each side holds what was last written. A call is a set of outcomes, because whatever
it asks of a device may fail. `AlwaysValid` is `debug_log_and_validate_buf`
between calls; `Current` says that a side the bits call current is.

### CopyInjection
The compiler walks over the statements that use a buffer and keeps three flags and a device;
here the program runs while it is compiled. `Leaf` compiles the next statement, whatever it
is, and runs what was emitted for it with the calls of `DeviceBuffer`, of which any may fail and
end the pipeline. A loop is compiled once and run again (`Loop`, `Again`); of a condition
one branch runs and the other is compiled only (`If`, `OtherLeaf`, `EndIf`). An extern stage
leaves the buffer as it likes, as long as its bits say so. `passed` is the devices at which the
buffer is passed to extern stages (`devices_touched_by_extern`): an allocation goes without host
memory only if it is used on one device and passed to no stage elsewhere (`HostOmitted`). `LeavesReady`, `KnowledgeTrue` and
`FlipsAccepted` say that whatever comes next finds its side with the latest contents.

### BufferHandles
A `Buffer` is its allocation, its device memory and its `DeviceRefCount`; the counts of crops
keep the buffer they were cropped from. `decref` is cut into its atomic accesses (`todo`
is what is left of it), between which other handles are dropped, copied and cropped. What a
client holds twice at a time is excluded: no two threads use one handle together, so copying a
`const Buffer` in two threads, which may write its `mutable dev_ref_count` in both, is left out.
`Spec` has every call, `CarefulSpec` those after which the counts are still exact.

### DevicePool
An operation on a buffer looks at the flag, searches the list under the lock, and
frees and allocates outside of it, each a step of its own. The best fit is stated
by what the loop of `halide_cuda_device_malloc` returns (`Better`, `Kept`): the last item
that improved on those before it, and the cut at the first old item that did not.
The driver has a few pointers; it may refuse memory at any time, also when it has some
left (`OutOfMemory`, then `MallocFails`), and the stream of the calling thread may not be to be had,
which ends an allocation before the search and leaves a free undone. A `cuMemFree` that fails is
not tried again, so that the memory is gone for the program either way (`Freed`).

### HexagonDma, LockedCache
A transfer takes a descriptor, an engine, moves, and gives both back, each under a mutex of
its own or none; `transfer` is what it holds. A call that fails returns at once, as the code
does, and what it had taken stays marked. `FreeDescriptors` and `FreeResource` are the two
halves of `halide_hexagon_dma_deallocate_engine`. Freeing the locked cache with the last
virtual engine is `Free` of `LockedCache`, where a node is its memory. There an allocation
has four steps: the head is read before the mutex is taken, and the mutex is given back
between the search and the append. `met` is a history variable that nothing but
the property reads. The retry of `hexagon_cache_pool_get` is left out: its one caller never
asks for it.

### TraceBuffer
The lock's word in three fields, with a step per atomic access; a packet claims a
span by adding to `cursor`, and a packet that does not fit adds to `overage`,
waits for the exclusive lock and writes the buffer out.

### BlockAllocator
Blocks of regions with offset, size, status, usage count and whether memory is
behind them. Callers hold the context's lock, so a call is an action. `held` is what
each buffer or crop was given; it is the caller's state, not the code's. A free that the driver
refuses is reported and leaves the allocator as if it had not been refused.

### Profiler
The list with `next` and `profiler_prev_next` (the address of a `next`), the sampling
thread, the thread that shuts down, and the threads of an instance, which count
themselves, count memory and hand the sampling token around with atomic operations.
What a pipeline does is what `Profiling.cpp` injects.

### ConstantInterval, ModulusRemainder, ExprInfo
Pure operators, translated with their overflow: an interval has two flags and two ends
in `Bits` bits, and an operation that overflows opens the side. `ExprInfo` is the state
machine above them: `expr` is an expression as a record of its type, the *set of values*
it may have, the simplifier's `ExprInfo` and the interval of
`constant_integer_bounds`; a visit makes it an operand of a larger expression. Values
follow the language (wrap around, except signed types as wide as `int32_t`, whose
overflow is undefined and removes the value). Two copies of an operand are independent.

### Monotonic
An expression is a function of x and the interval of its derivative; a visit makes it an
operand of another node. Its property compares the interval with every step of the
function.

### IntegerDivision, LongDivision
The search is a state machine over candidates, cheapest first, each tried with every
numerator as `find_inverse.cpp` does; it reproduces the committed 8-bit tables. What is
then *emitted* is another formula, in `lower_int_uint_div` and in
`fast_integer_divide`, and the property compares that with the quotient.
`LongDivision` has a step per bit between the corrections of sign before and after.

### TileSelection, TileRegisters
A statement is a store of sums of products; a product is the address of the left factor and
the element on the right, which is an address of the program, a zero or nothing. Each
rule of `egglog/accelerator` is an action that replaces a term, and the property compares
the products of every lane with those of the statement. The shuffled and interleaved
buffers are what `ExtractTileOperations.cpp` computes for them, index by index; `on_gpu` says whether a kernel computes them.
`TileRegisters` numbers the tiles of an accumulator as `EnforceWMMALanes` does.

### MCServices, MCArithmetic
Thirteen services share no state, and so do six computations. Each MC module instantiates
them all and follows one of them in a behaviour, chosen at the start, so that one run
covers what would otherwise be thirteen with a property or two each.

## 3. The runs

All bounds are in the `.cfg` files and the MC modules.

| Run | Instance | Shows |
|---|---|---|
| `ParkingLot` | "shared": 4 threads, 1 mutex, 1 condition, any call (the fourth does not notify); "crossed": 3 threads, 2 mutexes, 2 conditions, crossing hashes, broadcasts only | exclusion, words, no dangling node, no stranded waiter, no deadlock of buckets, progress, refinement of `Monitor` |
| `WordLock` | 4 threads, 1 spin | exclusion, exact bits, the stack keeps every sleeper; the lock is always acquired again |
| `ThreadPool` | pool of 4: two clients at once, one resizing the pool; an async producer and consumer on a ring of one slot; shutdown and restart. Pool of 3: nested loops and a fork in a loop with failing stages. A fork in two loops on a pool that starts without a worker | sleep counters exact, serial order, ring order, jobs outlive their uses, success means done, reservations exact, no abort, every call returns |
| `Services` | thirteen services, one at a time (below) | their structures agree; three refinements; flushes and shutdown return |
| `Arithmetic` | int64 of 4 bits, int32 of 3, types from 2 bits, two nodes; derivatives of two nodes over x = 0..2; the 8-bit division tables whole; long division of all 4-bit pairs; matrix products and windows with the tiles of the hardware and smaller ones; accumulators of up to 2 by 3 tiles | what is deduced holds of every value; the emitted divisions are exact; selected instructions store the same sums |

Seven runs are expected to fail and are recorded as findings (section 6).

Why the bounds suffice. Four threads give the word lock a holder, a walker, a
pusher and a sleeper at once, and the parking lot an owner, a broadcaster and
two waiters, of which one can be moved and the other woken. Three threads and
crossing hashes are what a cycle of two broadcasts and a bystander needs. Every
parallel loop of the pool has two iterations, so that one runs while the other is
queued or fails; serial loops have three, so that one slot of a ring is filled
again; and the pool with a limit of two threads, and the one without a worker, have
fewer threads than iterations that could run.

In `Services`: four list nodes have first, middle and last of either address; three
cache entries, two in one chain, can be pruned, held and stored again; four kernels
share a probe sequence, so that growth and deletion marks matter; a copy needs two
buffers and two devices; an injected buffer has the host and two devices, of which it
touches any; two handles can each hold a crop, one of the other's, when what they
were cropped from is gone; three users and sizes of one, three and more than a block give
regions that are split, merged, shared and refused; a pool of two pointers is exhausted by
two buffers, or has memory that the driver withholds, with a depth of 0 for 32 so that the cut happens; two transfers share or exhaust two
engines, and a second pair of descriptors is made when both of the first are lent or lost; three
pieces of locked memory are an end of a list and two nodes appended to it at once; a trace buffer of three
bytes takes one packet of two and not a second. In `Arithmetic`, with four bits each
end of an interval overflows in every combination of signs; types of two bits widen to
four as 32 do to 64; the second node sees everything the first can produce. Two nodes
with constants are what it takes for a wrong bound of one to be used by another.

Views. `ParkingLot`, `WordLock` and `Services` are checked with a `VIEW` that
hides locals no path reads before writing them again, and, for the caches, pool,
handles, allocators and profiler of `Services`, addresses and threads up to permutation. No
property tells what is permuted apart, and two states with one view have the same steps up to
it. The fairness of the profiler is the same for each of its threads; the trace buffer, whose
liveness is that of one thread, is not permuted. `CHECK_DEADLOCK` is off everywhere: clients may end,
threads may all have returned, and an expression may be complete.

Fairness is weak fairness of each thread's own steps inside the library
(`Internal`), which is what the operating system gives a runnable thread. It
includes that an owner eventually unlocks, and that a closure ends. Nobody is ever
obliged to *make* a call. In `ThreadPool` it covers every
step, since clients and closures under way go on. In `TraceBuffer` it is per thread inside
a call; in `Profiler` it covers pipelines under way, their threads, and the sampling
thread once a shutdown is requested.

Progress of a mutex is checked where there is one mutex. With two in one bucket it
does not hold: `word_lock` lets running threads overtake, so a thread that must take a
bucket can be starved by others that use it without end. Only strong fairness, which the
code does not provide, would exclude that.

### What clients promise

The runs let clients do what the documentation allows. Where more than that is
needed for a property to hold, `MCServices` says so in an action guard:

- memoization: no prune gets past an entry in use to an older one (`PassesOver`; finding 5);
- GPU cache: a context is not released twice (`OnceNext`): a slot marked deleted still
  matches `release_context`, and `count` would fall;
- buffers: memory is allocated on a device only when it will be filled (`Uploads`):
  after `halide_device_free` of a clean buffer, a later `copy_to_device` finds no dirty
  bit and skips the upload; and no copy between devices through a buffer whose device
  side is dirty (`Through`; finding 6);
- injection: an input or output is used on one device at most (`UsesTrusted`): nothing is
  flipped for it, so that once memory exists on one device, neither memory nor a copy is
  provided on the other (`InjectHostDevBufferCopies.cpp:250-263`). A buffer that one device
  has written is read there or on the host before another one writes it (`Unmarked`):
  whether the flag is set after a statement is decided before the flip clears it (`:277`,
  `:294`), so that it stays clear and a later use on the host reads what is old. Callers
  and extern stages set the bits of what they write (`Consistent`);
- handles: a buffer whose `device_wrap_native` failed is moved or dropped, not copied, cropped or
  given device memory, and only a buffer without device memory is wrapped (`CarefulNext` of
  `BufferHandles`): the count of a failed wrap exists without device memory, and `incref` counts
  only buffers that have some. Memory of
  `device_and_host_malloc` is not modelled: the count does not know of it, so that
  dropping the handle calls `device_free`, and after a copy `device_and_host_free` asserts;
- regions: a shared region is retained by every user and reclaimed by none (`Counted`),
  because `reserve` does not count the owner (finding 7), and reclaiming with other users leaves the
  block's `reserved` too large;
- pool: reuse is not switched on while a buffer has memory from when it was off
  (`RoundedNext` of `DevicePool`). `halide_cuda_device_free` records the quantized size of the buffer,
  and such memory is smaller than that. Independently, a free that was under way when
  reuse was switched off may put its memory on a list that has just been released; it stays
  there until the next allocation. The header says reuse is off by default, the code has it on;
- DMA: descriptors are freed while no transfer of any virtual engine is on its way (`DmaStep`).
  The comment at `hexagon_dma.cpp:431` says it is safe to free them with the first of several
  engines because that is done outside of the pipeline; another pipeline's transfer, with an
  engine of its own, may hold one;
- profiler: no pipeline starts at process exit or while another runs remotely
  (`ProfilerStep`). `halide_profiler_instance_start` returns early then
  (`profiler_common.cpp:240`, `:334`) but the pipeline still ends an instance.

`Arithmetic` leaves out, each as a named place with a guard, what is known not to hold:

- `ExprInfo` (`Places`): the quotient of the least `int64_t` by -1 wraps around in an
  end (`ConstantInterval.cpp:276`); a shift by an amount without a maximum computes 2^max of no
  number (`:627`); a `uint64_t` constant above `INT64_MAX` has a negative alignment
  (`Simplify_Internal.h:94`); a reduction keeps the alignment of its lanes
  (`Simplify_Exprs.cpp:71-87`). Adding any one back makes `DeductionsHold` fail.
- `Monotonic`: division by a negative constant divides by it and then negates, which
  is once too many (`Monotonic.cpp:178-191`); a comparison whose difference is known to be positive
  is clamped to the point 1 (`:250`), although it may not change at all; a saturating
  sum of lanes is treated as a sum (`:411`).
- `IntegerDivision` (`WrongDivisor`): in the signed, rounding-down branch the
  variable that the final `select` returns for the divisor 1 has had its bits flipped
  (`FastIntegerDivide.cpp:239`, `:298`); and the divisor 0, which
  `FastIntegerDivide.h:24` calls 256, has a row of zeros, which only unsigned numerators
  bear.
- `TileSelection` has the rules as they are, and statements for which they are meant. The
  one-dimensional convolution rule holds for a line of 256; of a filter bank, the repeat divides the columns;
  `tile_load` of bfloat16 takes elements where the intrinsic takes bytes; the rules read one
  element past the window, which is multiplied by zero, and which is taken to be readable. A store
  in rows goes by the shape of its index and takes any accumulator of the program that has it
  (`cuda_wmma.egg:300-318`), or none (`amx.egg:478-495`): the statements' indices in rows have the shape of
  their own accumulator, if any tile has it. The shuffle `ConvolutionShuffle+` computes a mask in a kernel and never
  selects by it (`ExtractTileOperations.cpp:1800`): windows are shuffled on the host and in
  kernels, filter banks on the host only, which is where their definition goes if its variables are
  in scope. A filter bank in a kernel, or an index in rows of another tile's shape, makes
  `TilesExact` fail.

Abstractions common to all: memory is sequentially consistent (the code uses
acquire/release orders in places); weak CAS never fails spuriously, which would only
repeat a loop; `pthread_cond_wait` may wake spuriously and the flag is
re-checked, so `WakeUp` waits for the flag. Desired thread counts stay
within `MaxThreads`. The counter of the spinning condition does not wrap.
`halide_shutdown_thread_pool` is called while no pipeline runs.

The mutants in `PROJECT.json` are operators that sit beside the definition they
replace; each breaks the property it is listed with.

## 4. Proofs

`ParkingLotProofs` (any set of threads, mutexes and conditions, any hash, any
program):

- `TypeCorrect`, `Exclusion` (`MutualExclusion`), `LockBitExact` (`LockBit`),
  `BroadcastsDoNotDeadlock` (`NoBucketDeadlock`).
- Argument. Exclusion alone is not inductive: an `unlock_full` that stores a new
  word could erase another owner's bit unless the bit is known to be exact. The
  invariant joins `TypeOK`; `CallInv`, which ties the locals of a call to its
  label (a waiter that is about to park has a mutex to release, a thread to be
  unparked is a thread); `OwnInv` = `MutualExclusion` and `LockBit`; and
  `BucketInv`, which says what a broadcaster at `lock_second` holds. Two
  broadcasts that wait for each other would hold their first buckets,
  whose hashes are ordered the same way by `LockOrder`: a contradiction of
  integers, hence `BucketAssumption`.

The queues, in the same module and with nothing more assumed:

- `WordsAreExact` (`WordsExact`), `QueueDataAlive` (`NoDanglingQueueData`),
  `NobodyStranded` (`NoStrandedWaiter`), all from `QueueInvariance`.
- Argument. The three speak of free buckets, and a broadcast breaks them while it
  has its two. `QueueInv` says what holds meanwhile: no thread is linked twice
  (`Distinct`); whoever is linked, or dequeued and not yet unparked, is inside `park`
  and waits (`SleepInv`, with `InPark`: `fast_cond::wait` unlocks its mutex while it is
  linked already); a broadcaster has the buckets of its label (`HoldInv`); the parked
  bit is set while anyone sleeps on a mutex, and a mutex that a broadcast found locked
  cannot be released before the requeue (`MutexInv`); between `validate` and
  `requeue` the condition word is clear and its sleepers all use the broadcast's mutex
  (`CondInv`); and a free mutex with sleepers has a thread heading for it, which may be one
  that still has to be unparked (`HeadInv`).

The monitor, in the same module:

- `Refinement`: `Spec => MonitorSpec`, the mapping of `ParkingLotMonitor`.
- Argument. A holder is whoever owns the mutex (`HolderExact`, by exclusion); the
  waiters of a condition are its queue, and with them those a broadcast has still to
  requeue; each has lemmas for what a step may do to it. A signal takes effect when it
  dequeues, a broadcast when it validates the mutex word it has read. Every other
  action is a stutter or an enter or leave.

`WordLockProofs` (any set of threads, any spin limit):

- `TypeCorrect`, `BucketExclusion` (`MutualExclusion`), `QueueExclusion` (`QueueLock`).
- Argument. `WalkInv` says that a locked queue is not empty, that a thread in
  `walk` stands at a node and that one in `wake` has found a tail; without it a
  walk could write through null and types would not be preserved. Joined with both exact
  bits it is inductive: every write to the word is a CAS against `expected` or
  changes one bit, and the proof goes through the actions one by one.

The queue, in the same module (finitely many threads):

- `QueueIsExact` (`QueueExact`), from `QueueInvariance`.
- Argument. Reachability along `next` is not inductive by itself. The invariant names the queue:
  there are n and q, the sleepers from the newest to the oldest, each once, linked by
  `next`; the newest node that knows a tail is `q[i]`; a walk began at `q[h]` and is at
  `q[c]`; which `prev` and `tail` are set follows from i, h and c. A push puts a node in front and
  moves all indices, a walk moves c, a removal drops `q[n]`. The recursive function
  `Nth` of the property is then unrolled along q.

`ThreadPoolProofs` (any number of workers, any clients and tasks within the three
assumptions below):

- `StackInvariance`; `TeamsAreExact`: `aborted \/ TeamsExact` (after "thread over commit"
  there is no thread left to count).
- Argument. A thread in a wait has to be known for a loop of a worker without an owned job, or
  of an owner, and that needs the whole stack: `Shape` says for each depth what a
  frame can be above which other. A loop above a join owns the job being joined, a
  closure runs the job of the loop below it, only what has called is not on top. The
  lemmas about stacks are stated for one sequence; every action is then one of them.
  `TeamInv` adds that threads not yet created have no stack and that a pool that is not
  initialised has no threads. `Joined`, which resets the counters, is exact because
  only a client that runs alone shuts down.

`ThreadPoolJobProofs` (the same three assumptions):

- `NothingDangles` (`NoDanglingJob`), `SuccessIsComplete` (`CompleteOnReturn`),
  `SerialsInOrder` (`SerialInOrder`) and `CountsAreExact` (`CountsExact`), each
  `aborted \/ ...`, the first three from `JobsInvariance`.
- Argument. `NoDanglingJob` is not inductive: that a thread at work refers to a job alive
  holds because the job's fork is not over before the job is idle, and that needs the exact
  count of the threads at work. `JobsOK` is about one function, from positions <<thread,
  depth>> to the frames there (`FMap`), so that a step changes one or two values. `Nested` is
  what of `Shape` is needed; a thread at work has claimed iterations of a job alive
  (`BusyOK`) and its closure runs those (`CallOK`); a fork's jobs are alive while it joins
  them, those already joined are idle and, unless the fork has failed, done (`ForkOK`), and
  every job belongs to such a fork (`OwnedOK`), which keeps a parent alive while its children
  are; each iteration of a job that has not failed is done, claimed by one thread, or still to be claimed, and
  `active` counts the threads (`WorkOK`); the stack of jobs holds, once, exactly the jobs
  with iterations that may be claimed (`ListOK`): a serial job is taken off it by whoever works
  on it, which is what makes it serial. The lemmas about such functions (a frame put,
  pushed, cut) come first, then one per action.
- `CountsAreExact` adds `SumsOK` to `JobsOK`: what a parent, or the queue, has reserved is the
  sum of `min_threads` of its active children. The property's sum is a fold; it is shown
  to be the size of a set of units, so many to a child, of which finite-set theorems speak.
  Starting or ending work on a job adds or takes its units where the code adds or takes
  `min_threads`; a fork puts up idle jobs without children, a join removes idle ones, and
  `Joined` sets the sums back when no job is alive.
- `CoveredNeverAborts` (`NeverAborts`), for programs in which every task is `Covered`. The threads that the
  jobs of a fork need are the sum of their `min_threads` (`Need`); those they can take are the sum with
  a full crew each, one for a serial task and `extent` for another (`Use`). A task that has one
  iteration at work at a time must ask for the `Need` of each fork in its body; any other for the
  `Use`. The first is what `MinThreads` computes (`LowerParallelTasks.cpp:79-107`), the second it does not:
  the program of finding 1 has `min_threads` 2 where the columns can use 4. TLC finds
  `Covered` true of the programs of `ThreadPool`, `ThreadPool_pairs` and `ThreadPool_sibling`.
- Argument. What is reserved of a parent is at most the `Use` of the forks that its other active iterations
  joined, one to an iteration: a job alive came from the fork of a body that a thread is
  running (`OriginOK`, with `ForkOK` and `CallOK`), and is worked on by no more threads than it
  has iterations (`CrewOf`). So `active` times `min_threads` less `reserved` is at least
  one task's share when another iteration forks. The fold of a sum is again the size of a set of units.
- `TypeCorrect` (`TypeOK`), `aborted \/ ...`: no more threads at work on a job than it has iterations
  (`CrewOf`), `next_semaphore` within the task's semaphores, and no semaphore below zero, because
  what is acquired is `Available` in the state in which it is taken (`AcquireSems`).

The spinning condition, in `ParkingLotProofs` too (any set of threads, any number of looks and
broadcasts):

- `NobodyMissed` (`NoSleeperMissed`), `SpinningIsMonitor` (`Spec => MonitorSpec`).
- Argument. Whoever changes the counter holds the mutex, and so does who decides to sleep
  (`HolderInv`), so that a thread about to sleep has seen the last count (`CounterInv`), and
  one that the first half of a broadcast has released is not waited for by the second
  (`SpinSleepInv`). A waiter is registered from `begin` until it has seen another count or was woken;
  a broadcast takes effect when it adds to the counter, its second half is a stutter.

`TraceBufferProofs` (finitely many threads, any buffer size, packets that are not empty):

- `LockExcludes` (`Excludes`), `TypeCorrect`, `FlushWritesPackets` (`WritesPackets`) and,
  if there is a longest packet, `CursorIsBounded` (`CursorBounded`).
- Argument. `LockInv`: the word counts those who share, exactly, and at most one thread
  writes. `SpaceInv`: there is a c, no more than the buffer's size, up to which the claimed
  spans tile the buffer (`Tiles`), and the cursor is beyond c by what was claimed in vain: the
  overage recorded and what threads still have to record (`Missing`, counted as a set of bytes). The reset
  subtracts the overage when nobody is left to record any, which leaves c: why a
  flush writes what the spans hold. A thread is over the end once between two flushes, so that
  those who are (`Late`) bound the cursor.

`DevicePoolProofs` (any buffers, pieces of memory, streams and depth; sizes from 1 byte to
16 MiB, for which the model defines the rounding):

- `MemoryHasOneOwner` (`OneOwner`) of `Spec`, whatever happens to the flag; `PoolIsExact` (`PoolExact`)
  of `RoundedSpec`, where reuse is switched on only while every buffer's memory was asked for with a
  rounded size. Without that restriction the second half is false (section 3).
- Argument. `Owned` says what `OneOwner` does with sets in place of a count of owners: what the buffers have,
  what their operations have still to free, what the list has and what is being returned are
  disjoint, and together are what the driver has reserved; `LabelInv` what an operation has by its
  label. `SearchDoes` reduces the search to what a step needs to know of it: the list that is left
  has some of the items, the others go to the buffer, each once, and what the buffer takes
  fits. The sizes need what is kept to be `LargeEnough` for its rounded size, and
  `RoundsUp` shows that rounding does not make a size smaller.

`GpuCompilationCacheProofs` (finitely many threads and kernels, any contexts, any hash, a first
table of four slots at least):

- `EntriesAreFound` (`Findable`) of `Spec`, whatever is swept; `CacheIsExact` (`TypeOK`,
  `KernelsExact`) of `OnceSpec`.
- Argument for the first. `Good` of a table: some step of the walk for an entry is at its slot, and
  the slots of the steps before are not free (`Reached`); no kernel is there twice for a context.
  `WalksAll`: a walk comes to every slot, and to each once. A new entry goes to the first slot without an
  entry, so that what the walk passes is taken (`Puts`); a deletion leaves a mark that does not
  stop a walk (`Fades`); a growing table is a chain of insertions, of which the least number of
  moves that goes wrong cannot exist (`MoveStep`, `Rehashes`).
- Argument for the second. It is about the set of entries (`Cache`), not about slots: `CachedIs`
  says that a kernel is found if and only if it is in the set, and one lemma for each operation says
  what it does to the set (`Recounts`, `Inserts`, `Grows`, `Keeps`). On the set, `use_count` is the number of
  pipelines inside (`EntryInv`), each of which has its entry (`HeldInv`), and a module is loaded
  once for its entry and once for each time it was lost (`ModuleInv`). That a deleted slot
  has no uses (`DeadInv`) is what the types need.
- The load is the delicate part (`LoadInv`). `2 * count <= size` is not invariant: a growing
  table counts what it moves once more, and `count` may end at `size / 2 + 1`. What is
  inductive is that then no more than `size / 4 + 1` slots have an entry, in a table of eight at
  least; from this follow both assertions of `insert`, that it does not grow while it grows
  and finds a slot. With an initial table of two slots it would fail.

`BufferHandlesProofs` (finitely many handles and counts, any allocations and device memory):

- `HandleCounts` (`TypeOK`, `CountsExact`) and `HandleMemory` (`MemoryOwned`) of `CarefulSpec`.
- Argument. A drop is cut into atomic accesses, so that what a count counts is spread over
  handles, calls under way, parts of drops and the counts of crops. `Held` gives all of these one
  form, a function from places to buffers, and the counts are the numbers of places
  (`RefsInv`, `CountInv`). A step changes the places of one handle and at most two more:
  `Moved0`, `Moved1` and `Moved2` say what this does to the numbers, so that for each operation
  it is left to say what its places hold before and after (`HasBecome`, `Dropping`). That
  a count of zero has exactly one handle that deletes it (`DeleteInv`) is what keeps its
  address from being used again too early; what a drop has left to do has one of seven shapes
  (`Shaped`, in `TodoInv`).
- `MemoryOwned` needs three things that it does not say. The holders of a count have the same
  memory (`SameDevice`); memory is held through one count or in one place without any (`OneWay`),
  or else is freed by one handle (`FreedOnce`); and the count says of it how it was obtained and
  what it is a crop of (`DescribedInv`), also while a handle is on its way to free it. All calls
  are of one kind for this: every place has the memory that another one had, one of them may have
  it with a new count, and one may have what is fresh (`Carries`, `Fresh`, `Stays`; `Carried`). That
  a crop goes first follows: its count, while it exists, is a holder of what it was cropped from.
- Careful callers are needed (section 3): a copy of what a failed wrap has left would not be
  counted, and a wrap of a buffer with device memory fails too late, when the new count has
  already replaced the one that the memory had.

Assumptions: the sentinels are not threads, mutexes or conditions; hashes are
natural numbers; `word_lock` has finitely many threads; what the services' theorems assume is in
`Packets`, `Requests`, `Sizing` and `Distinct` (of handles). For the pool,
`ThreadsAssumption`, `TaskAssumption` and `MainAssumption`: clients are not numbered like
workers, programs consist of the operations of the model, semaphores are initialised, acquired and
released by counts that are not negative, the tasks of a fork are distinct and have iterations
(`TaskGather` is about those that have not), and a client that shuts down the pool
runs alone. `Acquire` is further meant for programs of which no two jobs acquire the same
semaphore, as those of the compiler: if two did, the step would take the count of one of them. The last one is how the function is used: it is the destructor of the runtime
(`thread_pool_common.h:624-627`) or a call between pipelines, and it joins all workers and
resets the queue without the lock. TLC evaluates the assumptions in every run.

Three changes to `ThreadPool` came from the proofs. `Acquire` looked at no more than two
semaphores of a task; it now takes all that the search has acquired. The frames a property
speaks of were counted up to a fixed depth; they are now those of the stacks. `TypeOK` bounded `active` by the
number of threads, which need not hold: an owner that waits can steal an iteration of a
job that it is inside of already. The bound is the number of iterations.

Only model-checked: progress and every call returning (liveness needs ENABLED); the
refinements of `SleepQueues` and `LruCache`; `BucketList` and the alignments, which are
written with RECURSIVE operators; of `ThreadPool`, `NeverAborts` of programs that are not
`Covered` and `RingInOrder` (about the programs of one run); the other services and the
arithmetic. Theorems that take an operator (induction over an arbitrary
predicate) cannot be instantiated, but an induction over one set can be written out:
`LeastNat`, every set of numbers has a least one, follows from well-foundedness, and `Nth`,
the search of the job stack, the sums of a fold, the cut of the free list and the growth of the
GPU cache's table use it.

## 5. Properties worth knowing

- `NoStrandedWaiter` (ParkingLot): a free mutex with sleepers always has a thread
  on its way to it. This is what `make_parked_if_locked` is for: moving waiters
  to a mutex that has just become free would strand them.
- `QueueExact` (WordLock): no thread touches a node that is gone, and the
  sleeping threads are reachable from the word or about to be woken, while
  others push, walk and cut.
- `NoDanglingJob` (ThreadPool): `work` structures live on the
  stacks of callers; children and siblings point to them.
- `TeamsExact` (ThreadPool): the counters that decide whom to wake agree with who
  sleeps; wakers and sleepers update them at different times.
- `CountsExact`, `NeverAborts` (ThreadPool): the threads promised to blocking
  tasks are those at work, so that a task never waits for a thread that cannot exist.
- `CompleteOnReturn` (ThreadPool): a call that reports success has done every
  iteration, also if siblings fail at the last moment.
- `RingInOrder` (ThreadPool): the storage-folding contract between producer and
  consumer, which is about memory reuse in the compiled pipeline.
- `LruSpec` (MemoizationCache): what callers see is one list in order of use, whatever
  two threads look up, store and release.
- `KernelsExact` (GpuCompilationCache): a module that a pipeline holds is neither
  moved out of reach by growth nor unloaded, every loaded one is in the table or known to be lost, and
  `count` bounds the occupied slots; after any history of deletions and growths a walk finds what
  is cached, and `insert` has a slot.
- `WritesPackets` (TraceBuffer): a flush writes the claimed spans, all of them filled, and
  nothing else; concurrent claims past the end are what `overage` is for.
- `PoolExact` (DevicePool, in `RegionsExact`): device memory has one owner at every step
  of two allocations, a release and a failing driver, and is as large as its owner believes.
- `EnginesExact` (HexagonDma), `LostOnlyTogether` (LockedCache): how far the pools go wrong, and
  no farther. An engine may have one transfer more than it is marked for, never two; memory
  gets out of the list only when two allocations append at once, and is never lent twice.
- `CountsExact`, `MemoryOwned` (BufferHandles): through every order of copies, crops of crops,
  frees and half-done drops, device memory ends once, by the call it was obtained for, and
  after its crops; proved for any number of handles.
- `LeavesReady`, `KnowledgeTrue` (CopyInjection, in `BuffersExact`): a call that was left out
  was not needed, whichever branch ran and however often a loop did.
- `SameSums` (TileSelection, in `TilesExact`): every form reachable by the rules adds the
  same products to the same lanes.
- `DeductionsHold` (ExprInfo), `DerivativeHolds` (Monotonic): soundness of
  what is deduced, over all values and not over a sample.
- `DivisionExact`: the emitted code, not the searched one, divides; the loop of the long
  division keeps quotient times divisor plus rest.

## 6. Findings

Each is a run with a counterexample; quotes and lines are in `PROJECT.json`.

1. `ThreadPool_overcommit`: with two rows of a loop at work, the columns of one
   row use up the capacity that `enqueue_work_already_locked` computes for the parent
   task as a whole; the other row's enqueue aborts with "Logic error: thread
   over commit."
   `CoveredNeverAborts` is the converse: where a task asks for what its forks can use, it never does.
2. `ThreadPool_sibling`: when one sibling fails, an owner asleep on another
   sibling is meant to be woken; the flag is computed from
   `active_workers == 0` before the worker has subtracted itself, so it never is.
3. `ThreadPool_pairs`: `halide_default_semaphore_release` wakes threads only from
   zero; a task that acquires two may become runnable at the second of two
   releases of one, and nobody hears of it.
4. `TaskGather`: the loop that skips empty tasks advances the output index and not
   the input pointer, so an empty task leaves a job unwritten and drops the last
   task.
5. `Services_prune`: a prune that passes over an entry in use leaves the older entry's
   `more_recent` at the entry it frees.
6. `Services_copy`: a copy between devices through a destination whose device side is
   dirty sets the second dirty bit, fails, and leaves a buffer on which every call fails.
7. `Services_crop`: the end of a crop of a Vulkan buffer lowers the count of the region to zero,
   since only the crop was counted, and the next buffer gets memory that the first still has.

The passing runs keep to programs where these do not strike: at most two
columns to a row (1), failing stages placed so that the owner does not sleep on
a sibling that can no longer run (2), acquires of one (3), tasks with work (4), and the
client promises of section 3 (5, 6, 7).

Met while reading and not made into runs: a GPU module whose insertion fails for want of
memory is never unloaded; a crop that a device refuses leaves the device's module in use
(`device_interface.cpp:661`) and, of a dirty buffer, a handle that is dirty without device memory
(`HalideBuffer.h:1476`); `halide_set_trace_file` without `HL_TRACE_FILE` leaves
`halide_trace_buffer` null; `hexagon_dma_pool_get` does not mark an engine when it assigns it
(`hexagon_dma_pool.cpp:65-72`), so that the next transfer of the pipeline gets the same one, which
`EnginesExact` allows for; two allocations that append to one node lose the first of them, which then stays locked for good
(`hexagon_cache_allocator.cpp:111`); a DMA transfer that fails gives back neither its descriptor nor
its engine (`hexagon_dma.cpp:332-349`), and if the second `malloc` of a pair of descriptors fails,
freeing them by pairs skips lines (`hexagon_dma.cpp:143`); and the places listed under `Arithmetic` above.

## 7. Plan

Done: all components of section 1, with refinements of `Monitor` (twice), `SleepQueues` and
`LruCache`; proofs of every safety property of `ParkingLot`, `WordLock`, `SpinningCond`,
`TraceBuffer`, `DevicePool`, `GpuCompilationCache` and `BufferHandles`, and of both
refinements of `Monitor`; of `ThreadPool` the types, stacks, teams, jobs and reserved threads, and when it cannot abort.

Proofs, most important first: the refinement of `LruCache` by the lists of
`MemoizationCache`; the loop invariant of `LongDivision`, which is stated in
`LongDivisionExact`; that sum, difference, minimum, maximum and union of `ConstantInterval`
contain what they should, for every number of bits.

Models: crops and slices over shared regions, which would join `DeviceBuffer` and
`BlockAllocator` (now a crop is only its count); weak memory for `TraceBuffer` and `Profiler`; loads, ramps and lets of
`Monotonic`; the bounded-arena allocators of `runtime/internal/`.
