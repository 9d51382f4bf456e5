----------------------------- MODULE MCServices -----------------------------
(* The services of the runtime that share no state, for TLC: the environment uses *)
(* one of them, and the others stay as they were made.                            *)
EXTENDS Integers, FiniteSets, Sequences, TLC

CONSTANTS t1, t2, t3, n1, n2, n3, n4, m, c, d, k1, k2, k3, e1, e2, e3,
          x1, x2, q1, q2, d1, d2, u1, u2, u3, i1, i2, p1, p2, Null,
          Services      \* those from which the one that is used is chosen

VARIABLES
    service,        \* the one that is used
    holder, counter, asleep, spin_pc, initial, spin,
    bucket_head, bucket_tail, next, sleep_address, should_park, answer,
    shared, waiting, exclusive, cursor, overage, trace_pc, expected, packet, packets, spans,
    entries, next_entry, more, less, key, in_use, live, mru, lru, bytes, max, candidate,
    memo_pc, want, entry, unreleased,
    compilations, table_size, count, ids, unique_id, loaded, lost, at, ctx, kern,
    buf,
    external, touched, passed, known, loop_entry, other, buffer, over,
    handle, refs, gpu_memory, dev_counts, todo, after,
    blocks, held,
    reuse, free_list, reserved, dev, unused,
    hexagon_dma_pool, dma_desc_pool, locked, leaving, transfer,
    hexagon_cache_pool, cache_next, used, cache_bytes, cache_pc, cache_size, temp, prev,
    met,
    first, next_instance, prev_next, stats, remote, sampler, shutdown, exit, run, iterations,
    active, token, memory_current, memory_peak, task, local, sum, high

spinning == <<holder, counter, asleep, spin_pc, initial, spin>>
lists    == <<bucket_head, bucket_tail, next, sleep_address, should_park, answer>>
tracing  == <<shared, waiting, exclusive, cursor, overage, trace_pc, expected, packet,
              packets, spans>>
results  == <<entries, next_entry, more, less, key, in_use, live, mru, lru, bytes, max,
              candidate, memo_pc, want, entry, unreleased>>
kernels  == <<compilations, table_size, count, ids, unique_id, loaded, lost, at, ctx, kern>>
copying  == <<external, touched, passed, known, loop_entry, other, buffer, over>>
handles  == <<handle, refs, gpu_memory, dev_counts, todo, after>>
memory   == <<blocks, held>>
pool     == <<reuse, free_list, reserved, dev, unused>>
dma      == <<hexagon_dma_pool, dma_desc_pool, locked, leaving, transfer>>
cache    == <<hexagon_cache_pool, cache_next, used, cache_bytes, cache_pc, cache_size,
              temp, prev, met>>
profiles == <<first, next_instance, prev_next, stats, remote, sampler, shutdown, exit, run,
              iterations, active, token, memory_current, memory_peak, task, local, sum, high>>
vars     == <<service, spinning, lists, tracing, results, kernels, buf, copying,
              handles, memory, pool, dma, cache, profiles>>

Threads == {t1, t2, t3}

Spinning == INSTANCE SpinningCond WITH
    pc <- spin_pc, Spins <- 2, MaxBroadcasts <- 2, NoThread <- Null

\* A mutex m and a condition c in one bucket, a second condition d in another.
Lists == INSTANCE BucketList WITH
    head <- bucket_head, tail <- bucket_tail, Nodes <- {n1, n2, n3, n4},
    Addrs <- {m, c, d}, BucketOf <- (m :> 1) @@ (c :> 1) @@ (d :> 2)

Trace == INSTANCE TraceBuffer WITH
    pc <- trace_pc, size <- packet, left <- packets,
    BufferSize <- 3, Sizes <- {1, 2}, MaxPackets <- 3

Memo == INSTANCE MemoizationCache WITH
    head <- entries, next <- next_entry, size <- bytes, pc <- memo_pc, left <- unreleased,
    Keys <- {k1, k2, k3}, Entries <- {e1, e2, e3}, Limits <- {1, 3}, MaxLeak <- 2,
    Buckets <- {1, 2}, BucketOf <- (k1 :> 1) @@ (k2 :> 1) @@ (k3 :> 2),
    Size <- (k1 :> 1) @@ (k2 :> 1) @@ (k3 :> 2), Tuple <- (k1 :> 1) @@ (k2 :> 2) @@ (k3 :> 1),
    EvictionKey <- (k1 :> k1) @@ (k2 :> Null) @@ (k3 :> k1)

\* Two kernels in two contexts, all in the same place of a small table.
Gpu == INSTANCE GpuCompilationCache WITH
    size <- table_size,
    Threads <- {t1, t2}, Kernels <- {q1, q2}, Contexts <- {x1, x2},
    Hash <- [i \in {x1, x2} \X {2, 3} |-> IF i[1] = x1 THEN 0 ELSE IF i[2] = 2 THEN 7 ELSE 4],
    InitialSize <- 4, MaxSize <- 8, MaxLost <- 1, MaxDebt <- 1

Device == INSTANCE DeviceBuffer WITH Buffers <- {m, c}, Devices <- {d1, d2}

Injection == INSTANCE CopyInjection WITH
    state <- known, entry <- loop_entry, Devices <- {d1, d2}, Host <- m

\* A crop of a crop is made while the first one and what it is a crop of are there.
Handles == INSTANCE BufferHandles WITH
    buffer <- handle, memory <- gpu_memory, counter <- dev_counts,
    Handles <- {u1, u2}, Allocs <- {m}, Memories <- {p1, p2, d, m}, External <- m,
    Counters <- {n1, n2, n3, n4}

\* Blocks of three regions, and a request that no block can serve.
Memory == INSTANCE BlockAllocator WITH
    Users <- {u1, u2, u3}, Sizes <- {1, 3, 7}, Multiple <- 2, MinBlock <- 6, MaxBlock <- 6,
    MaxCount <- 2, MaxUsage <- 2

\* Of 29 bytes, 30 are reserved, and 32 would do.
Pool == INSTANCE DevicePool WITH
    memory <- reserved, Buffers <- {m, c}, Pointers <- {p1, p2}, Places <- {x1, x2},
    Sizes <- {29, 32}, Depth <- 0

\* Two lines are locked, with two descriptors each, when transfers have failed.
Dma == INSTANCE HexagonDma WITH
    Threads <- {t1, t2}, Lines <- {x1, x2},
    MAX_NUMBER_OF_DMA_ENGINES <- 2, MAX_NUMBER_OF_WORK_UNITS <- 2

Cache == INSTANCE LockedCache WITH
    next <- cache_next, bytes <- cache_bytes, pc <- cache_pc, size <- cache_size,
    Threads <- {t1, t2}, Memories <- {e1, e2, e3}, Sizes <- {1, 2}

Profiler == INSTANCE Profiler WITH
    next <- next_instance, left <- iterations, memory <- memory_current, peak <- memory_peak,
    Threads <- {t1, t2}, Instances <- {i1, i2}, Iterations <- 2, ListHead <- m

\* An input or output is used on one device, and of two devices the first one.  Extern stages
\* run where the buffer is touched, and perhaps on the host too: a program with fewer of them
\* does nothing that these do not do when some are not reached.
UsesTrusted ==
    /\ external => ~({d1, d2} \subseteq touched)
    /\ d2 \in touched => d1 \in touched
    /\ touched \subseteq passed /\ passed \subseteq touched \cup {m}

Init ==
    /\ service \in Services
    /\ Spinning!Init /\ Lists!Init /\ Trace!Init /\ Memo!Init /\ Gpu!Init /\ Device!Init
    /\ IF service = "injection" THEN Injection!Init /\ UsesTrusted
       ELSE /\ external = FALSE /\ touched = {m} /\ passed = {} /\ known = Injection!Fresh
            /\ loop_entry = Null /\ other = Null /\ over = FALSE
            /\ buffer = Device!Nothing
    /\ Handles!Init /\ Memory!Init /\ Pool!Init /\ Dma!Init /\ Cache!Init /\ Profiler!Init
    /\ vars = vars                        \* (see View)
-----------------------------------------------------------------------------
(* What callers may do that keeps the promises of the services *)

\* A prune gets past an entry in use to one that was used later.
PassesOver ==
    \E t \in Threads : Memo!Pruning(t) /\ Memo!Unused(candidate) /\ less[candidate] # Null

\* New device memory is filled, because the caller has set host_dirty.
Uploads(b) == buf[b].device \/ ~buf[b].live \/ buf[b].host_dirty

\* A copy between two devices that goes through memory whose device side is dirty.
Through(a, b) ==
    buf[a].device /\ buf[b].device_dirty /\ buf[b].host /\ buf[a].interface # buf[b].interface

DeviceStep ==
    \/ \E b \in {m, c} : Device!Other(b) \/ (Uploads(b) /\ Device!MayAllocate(b))
    \/ \E a, b \in {m, c} : Uploads(b) /\ ~Through(a, b) /\ Device!Copy(a, b)

\* A buffer that one device has written is not written by another one next.
Unmarked(use) ==
    Injection!NeedsFlip(known, use) /\ use.writes /\ known.device_dirty = "True"

InjectionStep ==
    \/ \E use \in Injection!Uses :
        (~Unmarked(use) /\ Injection!Leaf(use)) \/ Injection!OtherLeaf(use)
    \/ Injection!Loop \/ Injection!Again \/ Injection!EndLoop
    \/ Injection!If \/ Injection!EndIf

\* A region with several users is retained by each of them, and not reclaimed.
Counted ==
    \A k \in DOMAIN blocks : \A i \in DOMAIN blocks[k].regions :
        LET users == Cardinality({u \in {u1, u2, u3} : Memory!Holds(u, k, i)}) IN
        blocks[k].regions[i].usage \in {users} \cup (IF users = 1 THEN {0} ELSE {})

MemoryStep ==
    \/ \E u \in {u1, u2, u3} :
        \/ \E n \in {1, 3, 7}, own \in BOOLEAN : Memory!Reserve(u, n, own)
        \/ Memory!Release(u)
        \/ Memory!Clients(u) = {u} /\ Memory!Reclaim(u)
        \/ \E v \in {u1, u2, u3} : Memory!Retain(u, v) /\ Counted'
    \/ Memory!Collect
    \/ Memory!Destroy

\* Descriptors are freed outside of pipelines: no transfer of any virtual engine is on its way.
DmaStep ==
    \/ Dma!AllocateResource
    \/ \E v \in Dma!Engines :
        \/ (\A w \in Dma!Engines : Dma!Transfers(w) = {}) /\ Dma!FreeDescriptors(v)
        \/ Dma!FreeResource(v)
    \/ \E t \in {t1, t2} : Dma!Step(t)

\* No pipeline starts while another runs remotely, nor once the process exits.
ProfilerStep ==
    \/ \E i \in {i1, i2} : Profiler!Main(i) \/ (exit = "not_yet" /\ Profiler!Start(i))
    \/ \E t \in {t1, t2} : Profiler!Step(t)
    \/ Profiler!Sampling \/ Profiler!Reset \/ Profiler!Shutdown \/ Profiler!Joined

Turn(name) == service = name /\ UNCHANGED service

Spins ==
    Turn("spinning") /\ Spinning!Next
    /\ UNCHANGED <<lists, tracing, results, kernels, buf, copying, handles, memory,
                   pool, dma, cache, profiles>>
Parks ==
    Turn("lists") /\ Lists!Next
    /\ UNCHANGED <<spinning, tracing, results, kernels, buf, copying, handles, memory,
                   pool, dma, cache, profiles>>
Traces ==
    Turn("tracing") /\ Trace!Next
    /\ UNCHANGED <<spinning, lists, results, kernels, buf, copying, handles, memory,
                   pool, dma, cache, profiles>>
Memoizes ==
    Turn("results") /\ Memo!Next
    /\ UNCHANGED <<spinning, lists, tracing, kernels, buf, copying, handles, memory,
                   pool, dma, cache, profiles>>
Compiles(Step) ==
    Turn("kernels") /\ Step
    /\ UNCHANGED <<spinning, lists, tracing, results, buf, copying, handles, memory,
                   pool, dma, cache, profiles>>
Copies(Step) ==
    Turn("buffers") /\ Step
    /\ UNCHANGED <<spinning, lists, tracing, results, kernels, copying, handles, memory,
                   pool, dma, cache, profiles>>
Injects(Step) ==
    Turn("injection") /\ Step
    /\ UNCHANGED <<spinning, lists, tracing, results, kernels, buf, handles, memory,
                   pool, dma, cache, profiles>>
Handing(Step) ==
    Turn("handles") /\ Step
    /\ UNCHANGED <<spinning, lists, tracing, results, kernels, buf, copying, memory,
                   pool, dma, cache, profiles>>
Allocates(Step) ==
    Turn("memory") /\ Step
    /\ UNCHANGED <<spinning, lists, tracing, results, kernels, buf, copying, handles,
                   pool, dma, cache, profiles>>
Pools(Step) ==
    Turn("pool") /\ Step
    /\ UNCHANGED <<spinning, lists, tracing, results, kernels, buf, copying, handles, memory,
                   dma, cache, profiles>>
Transfers(Step) ==
    Turn("dma") /\ Step
    /\ UNCHANGED <<spinning, lists, tracing, results, kernels, buf, copying, handles, memory,
                   pool, cache, profiles>>
Caches ==
    Turn("cache") /\ Cache!Next
    /\ UNCHANGED <<spinning, lists, tracing, results, kernels, buf, copying, handles, memory,
                   pool, dma, profiles>>
Profiles(Step) ==
    Turn("profiler") /\ Step
    /\ UNCHANGED <<spinning, lists, tracing, results, kernels, buf, copying, handles, memory,
                   pool, dma, cache>>

Next ==
    \/ Spins \/ Parks \/ Traces
    \/ ~PassesOver /\ Memoizes
    \/ Compiles(Gpu!OnceNext) \/ Copies(DeviceStep) \/ Injects(InjectionStep)
    \/ Handing(Handles!CarefulNext) \/ Allocates(MemoryStep)
    \/ Pools(Pool!RoundedNext) \/ Transfers(DmaStep) \/ Caches \/ Profiles(ProfilerStep)

\* The fairness of the two, evaluated where they are used.
Fairness ==
    /\ \A t \in Threads : WF_<<service, tracing>>(Turn("tracing") /\ Trace!Step(t))
    /\ WF_<<service, profiles>>(Turn("profiler") /\ Profiler!GoesOn)

Spec == Init /\ [][Next]_vars /\ Fairness

\* A buffer u1, at times with a crop u2 of it, which ends first; and another buffer u3.
CropStep ==
    \/ \E u \in {u1, u3}, n \in {1, 3, 7}, own \in BOOLEAN : Memory!Reserve(u, n, own)
    \/ Memory!Retain(u1, u2)                             \* halide_device_crop
    \/ Memory!Release(u2)                                \* halide_device_release_crop
    \/ Memory!Clients(u1) = {u1} /\ Memory!Release(u1)
    \/ Memory!Release(u3)

\* The use of a service that its documentation allows.
AnySpec ==
    Init /\ [][Memoizes \/ Copies(Device!Next) \/ Allocates(CropStep)]_vars
-----------------------------------------------------------------------------
(* What is left out of the state: the addresses of entries, which thread or user is in  *)
(* which state, and what a node that is not parked last held.  An equation of a variable  *)
(* with itself has TLC tabulate the functions that are left out too.                      *)

\* f, up to a permutation of its domain.
Bag(f) == {<<x, Cardinality({i \in DOMAIN f : f[i] = x})>> : x \in {f[i] : i \in DOMAIN f}}

ResultsView ==
    LET Name(p) == IF p \in live THEN key[p] ELSE p
        Fields(e) == <<key[e], in_use[e], Name(next_entry[e]), Name(more[e]), Name(less[e])>>
    IN  <<results = results, Cardinality(live), {Fields(e) : e \in live},
          [b \in {1, 2} |-> Name(entries[b])], Name(mru), Name(lru), bytes, max,
          Name(candidate),
          Bag([t \in Threads |-> <<memo_pc[t], want[t], unreleased[t], Name(entry[t])>>])>>

ListsView ==
    <<lists = lists, bucket_head, bucket_tail, should_park,
      [n \in {n1, n2, n3, n4} |-> IF should_park[n] THEN <<next[n], sleep_address[n]>>
                                  ELSE <<>>]>>

PoolView ==
    LET Bytes(S) == Bag([p \in S |-> reserved[p]])
        Fields(s) == [s EXCEPT !.ptr = Bytes({s.ptr} \ {Null}), !.to_free = Bytes(@)]
        Item(i) == <<free_list[i].size, free_list[i].place, Bytes({free_list[i].ptr})>>
    IN  <<pool = pool, reuse, [i \in DOMAIN free_list |-> Item(i)],
          Bag([b \in {m, c} |-> Fields(dev[b])]), Bytes(unused), Pool!PoolExact>>

\* Device memory and counts by the first place that has them, in the order of the handles.
HandlesView ==
    LET Held(h) == <<handle[h], IF after[h] = Null THEN Handles!Empty ELSE after[h]>>
                   \o [i \in DOMAIN todo[h] |-> todo[h][i].b]
        Count(b) == IF b.dev_ref_count = Null THEN Null ELSE dev_counts[b.dev_ref_count]
        Kept(b) == IF Count(b) = Null THEN Handles!Empty ELSE Count(b).cropped_from
        order == IF Len(todo[u1]) > Len(todo[u2]) THEN <<u1, u2>> ELSE <<u2, u1>>
        own == Held(order[1]) \o Held(order[2])
        all == own \o [i \in DOMAIN own |-> Kept(own[i])]
        Place(x, field) ==
            LET places == {i \in DOMAIN all : all[i][field] = x} IN
            IF x = Null \/ places = {} THEN 0
            ELSE CHOOSE i \in places : \A j \in places : i <= j
        Fields(b) ==
            <<b.alloc, Place(b.device, "device"), Place(b.dev_ref_count, "dev_ref_count"),
              IF b.device = Null THEN Null
              ELSE <<gpu_memory[b.device].how, Place(gpu_memory[b.device].of, "device")>>,
              IF Count(b) = Null THEN Null ELSE <<Count(b).count, Count(b).ownership>> >>
    IN  <<handles = handles, refs, [i \in DOMAIN all |-> Fields(all[i])],
          [n \in {1, 2} |-> [i \in DOMAIN todo[order[n]] |-> todo[order[n]][i].op]],
          [n \in {1, 2} |-> after[order[n]] = Null],
          Bag([x \in DOMAIN gpu_memory |-> gpu_memory[x].how])>>

DmaView ==
    <<dma = dma, hexagon_dma_pool, [i \in DOMAIN dma_desc_pool |-> dma_desc_pool[i].used],
      leaving, Bag(transfer), Dma!DescriptorsExact>>

CacheView ==
    <<cache = cache, met, hexagon_cache_pool, cache_next, used, cache_bytes,
      Bag([t \in {t1, t2} |-> <<cache_pc[t], cache_size[t], temp[t], prev[t]>>])>>

ProfilerView ==
    <<profiles = profiles, first, next_instance, prev_next, stats, remote, sampler, shutdown,
      exit, run, iterations, active, token, memory_current, memory_peak, high,
      Bag([t \in {t1, t2} |-> <<task[t], local[t], sum[t]>>])>>

View ==
    <<service,
      CASE service = "spinning" -> spinning
        [] service = "lists"    -> ListsView
        [] service = "tracing"  -> tracing
        [] service = "results"  -> ResultsView
        [] service = "kernels"  -> kernels
        [] service = "buffers"  -> buf
        [] service = "injection" -> copying
        [] service = "handles"  -> HandlesView
        [] service = "memory"   -> <<held = held, blocks, Bag(held)>>
        [] service = "pool"     -> PoolView
        [] service = "dma"      -> DmaView
        [] service = "cache"    -> CacheView
        [] service = "profiler" -> ProfilerView>>
-----------------------------------------------------------------------------
(* The properties, each of the service it is about *)

\* Every pointer, count and flag of the service is one it may have.
TypeOK ==
    /\ service = "lists"     => Lists!TypeOK
    /\ service = "tracing"   => Trace!TypeOK /\ Trace!CursorBounded
    /\ service = "results"   => Memo!TypeOK
    /\ service = "kernels"   => Gpu!TypeOK
    /\ service = "buffers"   => Device!TypeOK
    /\ service = "injection" => Injection!TypeOK
    /\ service = "handles"   => Handles!TypeOK

\* halide_cond_with_spinning is a monitor: who waits is woken once, by a later broadcast.
MonitorSpec ==
    /\ Spinning!M!MonitorInit
    /\ [][service = "spinning" => [Spinning!M!MonitorNext]_(Spinning!M!monitorVars)]_vars

\* Whoever sleeps is in a list that a wake-up reaches, or has its wake-up on the way
\* (park and unpark of a bucket; the counter that waiters read before they sleep).
NobodyForgotten ==
    /\ service = "lists"    => Lists!TailIsLast /\ Lists!LinkedWhileParked
    /\ service = "spinning" => Spinning!NoSleeperMissed

\* The linked lists of a bucket implement one queue per address, in the order of parking.
FifoPerAddress ==
    /\ Lists!Queues!Init
    /\ [][service = "lists" => [Lists!Queues!Next]_(Lists!Queues!vars)]_vars

\* A flush of the trace writes the packets that were claimed, whole, and nothing else.
WritesPackets == service = "tracing" => Trace!Excludes /\ Trace!WritesPackets
\* A call is on its way in the one service that has calls: an event of one of the threads,
\* which are alike, or the shutdown of the profiler.
Pending == trace_pc[t1] # "idle" \/ exit = "join"
\* A traced event returns, whoever has the buffer's lock, and so does the shutdown of the
\* profiler (Answered of TraceBuffer and ShutdownReturns of Profiler as one formula, which
\* TLC checks in half the time).
Returns == Pending ~> ~Pending

\* The lists of a structure hold the same: chains and recency list of the cache, forward and
\* backward links of the profiler's instances.
ListsAgree ==
    /\ service = "results"  => Memo!ListsAgree /\ Memo!OneEntryPerKey
    /\ service = "profiler" => Profiler!ListExact
\* Counters are what they count: buffers in use and bytes of the cache, holders of shared
\* memory, threads and bytes of a profiled pipeline.
CountsExact ==
    /\ service = "results"  => Memo!InUseExact /\ Memo!SizeCovers /\ Memo!OverLimitInUse
    /\ service = "handles"  => Handles!CountsExact
    /\ service = "profiler" => Profiler!CountsExact

\* The memoization cache implements one list of results in the order of their last use.
LruSpec ==
    /\ Memo!Lru!Init
    /\ [][service = "results" => [Memo!Lru!Next]_(Memo!Lru!vars)]_vars

\* A kernel in use stays loaded and is found, and what is loaded is cached; the count covers
\* the entries, and insert finds room for one more.
KernelsExact ==
    service = "kernels" => Gpu!KernelsExact

\* Every buffer passes the validation that each call of the device interface begins with.
AlwaysValid  == service = "buffers" => Device!AlwaysValid
\* A side of a buffer that is not marked stale holds what was written last, after every call,
\* and before every statement for which the compiler has put calls or left them out.
BuffersExact ==
    /\ AlwaysValid
    /\ service = "buffers"   => Device!Current
    /\ service = "injection" =>
           Injection!LeavesReady /\ Injection!KnowledgeTrue /\ Injection!FlipsAccepted

\* Two buffers that have been given device memory do not share it, whatever crops of one of
\* them have come and gone.
BuffersApart ==
    service = "memory" /\ held[u1] # Memory!Nothing /\ held[u3] # Memory!Nothing =>
        <<held[u1].block, held[u1].offset>> # <<held[u3].block, held[u3].offset>>

\* Device memory has one owner: of handles and their crops, of regions and the blocks that
\* they tile, of buffers and the free list.  A DMA engine, a descriptor or locked cache memory
\* is used by those it was lent to, and is in the list it came from.
RegionsExact ==
    /\ service = "handles" => Handles!MemoryOwned
    /\ service = "memory"  => Memory!HeldIntact /\ Memory!BlocksAccounted
    /\ service = "pool"    => Pool!PoolExact
    /\ service = "dma"     => Dma!EnginesExact /\ Dma!DescriptorsExact
    /\ service = "cache"   => Cache!LentOnce /\ Cache!LostOnlyTogether
=============================================================================
