-------------------------- MODULE MemoizationCache --------------------------
(* src/runtime/cache.cpp: hash chains and a doubly linked recency list of        *)
(* entries under memoization_lock.  Every call runs under the lock from its      *)
(* first access to its last, so a call is one step, except that the loops of     *)
(* prune_cache and evict take a step per entry.  A key stands for the cache key, *)
(* its hash, the bounds and the tuple of buffers that must agree for a hit.      *)
EXTENDS Integers, FiniteSetsExt

CONSTANTS Threads, Keys,
          Entries,         \* addresses of CacheEntry's
          Null,
          Buckets, BucketOf,
          Size, Tuple,     \* of a result: bytes of all its buffers, number of them
          EvictionKey,     \* of a key, or Null: has_eviction_key is false
          Limits,          \* sizes that max_cache_size is set to
          MaxLeak          \* bound on the bytes that evictions leave accounted

VARIABLES
    head,                       \* cache_entries
    next, more, less,           \* next, more_recent and less_recent of an entry
    key, in_use,                \* its key; its in_use_count
    live,                       \* entries allocated and not freed
    mru, lru,                   \* most_recently_used, least_recently_used
    size, max,                  \* current_cache_size, max_cache_size
    candidate,                  \* prune_candidate
    pc,                         \* where a pipeline's thread is
    want,                       \* the key it looks up and stores, or evicts by
    entry, left                 \* header->entry of its buffers; how many it still holds

chains == <<head, next>>
recency == <<more, less, mru, lru>>
memory == <<key, live>>
account == <<size, max>>
thread == <<pc, want, entry, left>>
vars == <<chains, recency, memory, in_use, account, candidate, thread>>

Pointer == Entries \cup {Null}

\* The nodes on the way from p along f.
Reach(p, f) ==
    LET S[n \in Nat] == IF n = 0 THEN {p} ELSE S[n - 1] \cup {f[e] : e \in S[n - 1] \ {Null}}
    IN  S[Cardinality(Entries)] \ {Null}

Chain(b) == Reach(head[b], next)

\* A write through a pointer that the code tests against null.
Put(f, p, v) == IF p = Null THEN f ELSE [f EXCEPT ![p] = v]

Total(es) == MapThenSumSet(LAMBDA e : Size[key[e]], es)

Locked == \E t \in Threads : pc[t] \in {"store", "resize", "evict"}

\* The entry that a walk of the key's chain finds.
Matches(k) == {e \in Chain(BucketOf[k]) : key[e] = k}

Stored(k) == Matches(k) # {}

Unused(e) == in_use[e] = 0

Goto(t, label) == pc' = [pc EXCEPT ![t] = label]

Init ==
    /\ head = [b \in Buckets |-> Null]
    /\ next = [e \in Entries |-> Null]
    /\ more = [e \in Entries |-> Null]
    /\ less = [e \in Entries |-> Null]
    /\ key = [e \in Entries |-> CHOOSE k \in Keys : TRUE]
    /\ in_use = [e \in Entries |-> 0]
    /\ live = {}
    /\ mru = Null /\ lru = Null
    /\ size = 0
    /\ max \in Limits
    /\ candidate = Null
    /\ pc = [t \in Threads |-> "idle"]
    /\ want = [t \in Threads |-> Null]
    /\ entry = [t \in Threads |-> Null]
    /\ left = [t \in Threads |-> 0]
-----------------------------------------------------------------------------
(* halide_memoization_cache_lookup *)

\* Mutant: the oldest entry leaves its end, which is not moved.
TouchOnly(e) ==
    \/ e = mru /\ UNCHANGED recency
    \/ /\ e # mru
       /\ more' = Put(Put(Put(more, less[e], more[e]), e, Null), mru, e)
       /\ less' = Put(Put(less, more[e], less[e]), e, mru)
       /\ mru' = e
       /\ UNCHANGED lru

\* Mutant: first stored, first out.
TouchNot(e) == UNCHANGED recency

\* The entry moves to the most recent end.
Touch(e) ==
    \/ e = mru /\ UNCHANGED recency
    \/ /\ e # mru
       /\ more' = Put(Put(Put(more, less[e], more[e]), e, Null), mru, e)
       /\ less' = Put(Put(less, more[e], less[e]), e, mru)
       /\ lru' = IF less[e] = Null THEN more[e] ELSE lru
       /\ mru' = e

\* Mutant: one use for all buffers of a tuple.
UsesOnce(k) == 1

Uses(k) == Tuple[k]

Hit(t, k) ==
    /\ pc[t] = "idle" /\ ~Locked
    /\ \E e \in Matches(k) :
        /\ Touch(e)
        /\ in_use' = [in_use EXCEPT ![e] = @ + Uses(k)]
        /\ entry' = [entry EXCEPT ![t] = e]
    /\ left' = [left EXCEPT ![t] = Tuple[k]]
    /\ want' = [want EXCEPT ![t] = k]
    /\ Goto(t, "hold")
    /\ UNCHANGED <<chains, memory, account, candidate>>

\* New buffers, whose headers have no entry.  (Without memory for them the call fails
\* and leaves nothing behind.)
Miss(t, k) ==
    /\ pc[t] = "idle" /\ ~Locked
    /\ ~Stored(k)
    /\ want' = [want EXCEPT ![t] = k]
    /\ entry' = [entry EXCEPT ![t] = Null]
    /\ left' = [left EXCEPT ![t] = Tuple[k]]
    /\ Goto(t, "compute")
    /\ UNCHANGED <<chains, recency, memory, in_use, account, candidate>>
-----------------------------------------------------------------------------
(* halide_memoization_cache_store, set_size and prune_cache *)

\* The pipeline fails, or has no store: only the releases remain.
Fail(t) ==
    /\ pc[t] = "compute"
    /\ Goto(t, "hold")
    /\ UNCHANGED <<chains, recency, memory, in_use, account, candidate, want, entry, left>>

\* Somebody else has stored this result since the lookup.
StoreDuplicate(t) ==
    /\ pc[t] = "compute" /\ ~Locked
    /\ Stored(want[t])
    /\ Goto(t, "hold")
    /\ UNCHANGED <<chains, recency, memory, in_use, account, candidate, want, entry, left>>

Room(k) == size + Size[k]

Store(t) ==
    /\ pc[t] = "compute" /\ ~Locked
    /\ ~Stored(want[t])
    /\ size' = Room(want[t])
    /\ candidate' = lru
    /\ Goto(t, "store")
    /\ UNCHANGED <<chains, recency, memory, in_use, max, want, entry, left>>

SetSize(t, n) ==
    /\ pc[t] = "idle" /\ ~Locked
    /\ max' = n
    /\ candidate' = lru
    /\ Goto(t, "resize")
    /\ UNCHANGED <<chains, recency, memory, in_use, size, want, entry, left>>

Pruning(t) ==
    /\ pc[t] \in {"store", "resize"}
    /\ size > max
    /\ candidate # Null

\* Out of the chain of its bucket.
Unlink(e) ==
    LET b == BucketOf[key[e]] IN
    \/ /\ head[b] = e
       /\ head' = [head EXCEPT ![b] = next[e]]
       /\ UNCHANGED next
    \/ /\ head[b] # e
       /\ next' = [p \in Entries |-> IF p \in Chain(b) /\ next[p] = e THEN next[e] ELSE next[p]]
       /\ UNCHANGED head

\* The candidate goes.  An older entry keeps its more_recent: where it should be
\* moved on, the code writes the candidate's own less_recent, which is freed next.
Prune(t) ==
    /\ Pruning(t)
    /\ Unused(candidate)
    /\ Unlink(candidate)
    /\ lru' = IF lru = candidate THEN more[candidate] ELSE lru
    /\ less' = Put(less, more[candidate], less[candidate])
    /\ mru' = IF mru = candidate THEN less[candidate] ELSE mru
    /\ size' = size - Size[key[candidate]]
    /\ live' = live \ {candidate}
    /\ candidate' = more[candidate]
    /\ UNCHANGED <<key, in_use, max, more, thread>>

PassOver(t) ==
    /\ Pruning(t)
    /\ ~Unused(candidate)
    /\ candidate' = more[candidate]
    /\ UNCHANGED <<chains, recency, memory, in_use, account, thread>>

Resized(t) ==
    /\ pc[t] = "resize" /\ ~Pruning(t)
    /\ candidate' = Null
    /\ Goto(t, "idle")
    /\ UNCHANGED <<chains, recency, memory, in_use, account, want, entry, left>>

\* The new entry is the most recent one, and in use by the pipeline that stores it.
Insert(t) ==
    /\ pc[t] = "store" /\ ~Pruning(t)
    /\ \E e \in Entries \ live :
        LET b == BucketOf[want[t]] IN
        /\ live' = live \cup {e}
        /\ key' = [key EXCEPT ![e] = want[t]]
        /\ next' = [next EXCEPT ![e] = head[b]]
        /\ head' = [head EXCEPT ![b] = e]
        /\ less' = [less EXCEPT ![e] = mru]
        /\ more' = Put([more EXCEPT ![e] = Null], mru, e)
        /\ mru' = e
        /\ lru' = IF lru = Null THEN e ELSE lru
        /\ in_use' = [in_use EXCEPT ![e] = Tuple[want[t]]]
        /\ entry' = [entry EXCEPT ![t] = e]
    /\ candidate' = Null
    /\ Goto(t, "hold")
    /\ UNCHANGED <<account, want, left>>

\* No memory for the entry.
InsertFails(t) ==
    /\ pc[t] = "store" /\ ~Pruning(t)
    /\ size' = size - Size[want[t]]
    /\ candidate' = Null
    /\ Goto(t, "hold")
    /\ UNCHANGED <<chains, recency, memory, in_use, max, want, entry, left>>
-----------------------------------------------------------------------------
(* halide_memoization_cache_release, evict and cleanup *)

\* One of the buffers; without an entry it is simply freed, without the lock.
Release(t) ==
    /\ pc[t] = "hold"
    /\ \/ entry[t] = Null /\ UNCHANGED in_use
       \/ /\ entry[t] # Null /\ ~Locked
          /\ in_use' = [in_use EXCEPT ![entry[t]] = @ - 1]
    /\ left' = [left EXCEPT ![t] = @ - 1]
    /\ pc' = [pc EXCEPT ![t] = IF left[t] = 1 THEN "idle" ELSE "hold"]
    /\ want' = [want EXCEPT ![t] = IF left[t] = 1 THEN Null ELSE @]
    /\ entry' = [entry EXCEPT ![t] = IF left[t] = 1 THEN Null ELSE @]
    /\ UNCHANGED <<chains, recency, memory, account, candidate>>

Tagged(x) == {e \in UNION {Chain(b) : b \in Buckets} : EvictionKey[key[e]] = x}

Leaked == size - Total(live)

\* The caller knows that nobody uses the results it evicts: their buffers go too.
Evict(t, x) ==
    /\ pc[t] = "idle" /\ ~Locked
    /\ Tagged(x) # {}
    /\ \A e \in Tagged(x) : Unused(e)
    /\ Leaked + Total(Tagged(x)) <= MaxLeak
    /\ want' = [want EXCEPT ![t] = x]
    /\ Goto(t, "evict")
    /\ UNCHANGED <<chains, recency, memory, in_use, account, candidate, entry, left>>

\* Out of both lists, in whatever order the buckets are visited.
EvictOne(t) ==
    /\ pc[t] = "evict"
    /\ \E e \in Tagged(want[t]) :
        /\ Unlink(e)
        /\ less' = Put(less, more[e], less[e])
        /\ mru' = IF more[e] = Null THEN less[e] ELSE mru
        /\ more' = Put(more, less[e], more[e])
        /\ lru' = IF less[e] = Null THEN more[e] ELSE lru
        /\ live' = live \ {e}
    /\ UNCHANGED <<key, in_use, account, candidate, thread>>

Evicted(t) ==
    /\ pc[t] = "evict"
    /\ Tagged(want[t]) = {}
    /\ want' = [want EXCEPT ![t] = Null]
    /\ Goto(t, "idle")
    /\ UNCHANGED <<chains, recency, memory, in_use, account, candidate, entry, left>>

\* Called while no other thread is accessing the cache.
Cleanup ==
    /\ \A t \in Threads : pc[t] = "idle"
    /\ live # {}
    /\ head' = [b \in Buckets |-> Null]
    /\ live' = {}
    /\ size' = 0
    /\ mru' = Null /\ lru' = Null
    /\ UNCHANGED <<next, more, less, key, in_use, max, candidate, thread>>

Next ==
    \/ \E t \in Threads :
        \/ \E k \in Keys : Hit(t, k) \/ Miss(t, k)
        \/ Fail(t) \/ StoreDuplicate(t) \/ Store(t)
        \/ Prune(t) \/ PassOver(t) \/ Insert(t) \/ InsertFails(t)
        \/ \E n \in Limits : SetSize(t, n)
        \/ Resized(t) \/ Release(t)
        \/ \E x \in {EvictionKey[k] : k \in Keys} \ {Null} : Evict(t, x)
        \/ EvictOne(t) \/ Evicted(t)
    \/ Cleanup

Spec == Init /\ [][Next]_vars
-----------------------------------------------------------------------------
TypeOK ==
    /\ head \in [Buckets -> Pointer]
    /\ {next, more, less} \subseteq [Entries -> Pointer]
    /\ key \in [Entries -> Keys]
    /\ in_use \in [Entries -> Nat]
    /\ live \subseteq Entries
    /\ {mru, lru, candidate} \subseteq Pointer
    /\ size \in Nat
    /\ max \in Limits
    /\ pc \in [Threads -> {"idle", "compute", "store", "resize", "evict", "hold"}]
    /\ entry \in [Threads -> Pointer]
    /\ left \in [Threads -> Nat]

\* validate_cache: the hash chains, the recency list read from its new end and read
\* from its old end hold the same entries, none of them freed.
ListsAgree ==
    LET hashed == UNION {Chain(b) : b \in Buckets} IN
    /\ hashed = live
    /\ Reach(mru, less) = live /\ Reach(lru, more) = live
    /\ \A e \in live : (more[e] = Null <=> e = mru) /\ (less[e] = Null <=> e = lru)

\* However lookups and stores of one result interleave, it is stored once.
OneEntryPerKey == \A d, e \in live : key[d] = key[e] => d = e

\* in_use_count is the number of buffers that pipelines hold; what they hold is still
\* the result they looked up or stored.
InUseExact ==
    /\ \A e \in live :
        in_use[e] = MapThenSumSet(LAMBDA t : left[t], {t \in Threads : entry[t] = e})
    /\ \A t \in Threads : entry[t] # Null => entry[t] \in live /\ key[entry[t]] = want[t]

\* current_cache_size covers all that is stored and never turns negative.
SizeCovers ==
    size >= Total(live) + MapThenSumSet(LAMBDA t : Size[want[t]], {t \in Threads : pc[t] = "store"})

\* Where a prune ends over the limit, everything left is in use.
OverLimitInUse ==
    (\E t \in Threads : pc[t] \in {"store", "resize"} /\ ~Pruning(t)) /\ size > max
        => \A e \in live : in_use[e] > 0

\* The recency list as a sequence of keys.
Order ==
    LET Nth[n \in Nat \ {0}] == IF n = 1 THEN mru ELSE less[Nth[n - 1]]
    IN  [i \in 1..Cardinality(Reach(mru, less)) |-> key[Nth[i]]]

\* To its callers the cache is a list of results in the order of their last use: it
\* drops the oldest that is not in use, and only over the limit.
Lru == INSTANCE LruCache WITH
    order <- Order, total <- size, limit <- max,
    use <- [k \in Keys |-> MapThenSumSet(LAMBDA e : in_use[e], {e \in live : key[e] = k})]

LruSpec == Lru!Spec
=============================================================================
