----------------------------- MODULE DevicePool -----------------------------
(* Device memory that is kept for later use (src/runtime/cuda.cpp and                *)
(* src/runtime/allocation_cache.cpp).  Memory that is freed goes to the front of    *)
(* free_list, of which an allocation takes the best fit; what has not been used for  *)
(* long is returned to the driver, and so is everything when the driver has no more. *)
(*                                                                                  *)
(* free_list_lock guards the list only: an operation on a buffer looks at the flag,  *)
(* takes from the list, and calls the driver in steps of its own.                   *)
EXTENDS Integers, Sequences, FiniteSets

CONSTANTS
    Buffers,     \* each used by one thread at a time
    Pointers,    \* of the driver
    Places,      \* a context and a stream
    Sizes,       \* in bytes, of the buffers
    Depth,       \* of the list, below which what does not fit is given up (32 in the code)
    Null

VARIABLES
    reuse,        \* halide_reuse_device_allocations_flag
    free_list,    \* the newest first
    memory,       \* bytes the driver has reserved at a pointer, or 0
    dev,          \* by buffer
    unused        \* what halide_reuse_device_allocations is returning to the driver

vars == <<reuse, free_list, memory, dev, unused>>

Idle == [pc |-> "none", place |-> Null, bytes |-> 0, size |-> 0, ptr |-> Null,
         to_free |-> {}, retried |-> FALSE]

Init ==
    /\ reuse = TRUE
    /\ free_list = <<>>
    /\ memory = [p \in Pointers |-> 0]
    /\ dev = [b \in Buffers |-> Idle]
    /\ unused = {}

\* The top four bits, rounded up.
quantize_allocation_size(n) ==
    LET unit == CHOOSE u \in {2^k : k \in 0..20} : 8 * u <= n /\ n < 16 * u IN
    IF n < 16 THEN n ELSE (((n - 1) \div unit) + 1) * unit

\* The runtime drops the pointer whether or not cuMemFree succeeds.  One that the driver has
\* kept is never handed out again, as if the driver were out of it for good.
Freed(p) == memory' = [memory EXCEPT ![p] = 0]

\* What halide_cuda_release_unused_device_allocations takes from the list.
Listed == {free_list[i].ptr : i \in DOMAIN free_list}
-----------------------------------------------------------------------------
(* halide_cuda_device_malloc *)

DeviceMalloc(b) ==
    /\ dev[b].pc = "none"
    /\ \E n \in Sizes, place \in Places :
           dev' = [dev EXCEPT ![b] = [Idle EXCEPT !.pc = "search", !.place = place, !.bytes = n,
                                          !.size = IF reuse THEN quantize_allocation_size(n) ELSE n]]
    /\ UNCHANGED <<reuse, free_list, memory, unused>>

\* Large enough, not too large, and safe to use.
Fits(b, item) ==
    /\ dev[b].size <= item.size
    /\ dev[b].size >= (item.size \div 8) * 7
    /\ dev[b].place = item.place

\* A better fit than all before it.
Better(b, i) ==
    /\ Fits(b, free_list[i])
    /\ \A j \in 1..(i - 1) : Fits(b, free_list[j]) => free_list[j].size > free_list[i].size

\* The items up to the first one that is too deep, of which the last better fit is taken.
Kept(b) ==
    LET deep == {i \in DOMAIN free_list : i - 1 > Depth /\ ~Better(b, i)} IN
    {i \in DOMAIN free_list : \A d \in deep : i < d}

Without(s, i) == SubSeq(s, 1, i - 1) \o SubSeq(s, i + 1, Len(s))

Search(b) ==
    LET kept == Kept(b)
        list == SubSeq(free_list, 1, Cardinality(kept))
        best == {i \in kept : Better(b, i) /\ \A j \in kept : Better(b, j) => j <= i}
        rest == {free_list[i].ptr : i \in DOMAIN free_list \ kept}
    IN  /\ dev[b].pc = "search"
        /\ \/ /\ reuse /\ best = {}
              /\ free_list' = list
              /\ dev' = [dev EXCEPT ![b].pc = "allocate", ![b].to_free = rest]
           \/ /\ reuse
              /\ \E i \in best :
                     /\ free_list' = Without(list, i)
                     /\ dev' = [dev EXCEPT ![b].pc = "allocate", ![b].to_free = rest,
                                           ![b].ptr = free_list[i].ptr]
           \/ /\ ~reuse
              /\ dev' = [dev EXCEPT ![b].pc = "allocate"]
              /\ UNCHANGED free_list
        /\ UNCHANGED <<reuse, memory, unused>>

\* Outside of the lock.
FreeOld(b) ==
    /\ dev[b].pc = "allocate"
    /\ \E p \in dev[b].to_free :
           /\ Freed(p)
           /\ dev' = [dev EXCEPT ![b].to_free = @ \ {p}]
    /\ UNCHANGED <<reuse, free_list, unused>>

Allocate(b) ==
    /\ dev[b].pc = "allocate" /\ dev[b].to_free = {}
    /\ \/ /\ dev[b].ptr # Null
          /\ dev' = [dev EXCEPT ![b].pc = "live"]
          /\ UNCHANGED memory
       \/ /\ dev[b].ptr = Null
          /\ \E p \in Pointers :
                 /\ memory[p] = 0
                 /\ memory' = [memory EXCEPT ![p] = dev[b].size]
                 /\ dev' = [dev EXCEPT ![b].pc = "live", ![b].ptr = p]
    /\ UNCHANGED <<reuse, free_list, unused>>

\* Out of memory: everything that is not in use is freed for another try.  The driver says
\* so when it likes, since it serves other programs too.
OutOfMemory(b) ==
    /\ dev[b].pc = "allocate" /\ dev[b].to_free = {} /\ dev[b].ptr = Null
    /\ ~dev[b].retried
    /\ dev' = [dev EXCEPT ![b].to_free = Listed, ![b].retried = TRUE]
    /\ free_list' = <<>>
    /\ UNCHANGED <<reuse, memory, unused>>

\* The stream is not to be had, which is asked for before the search; or the driver has
\* another error, or is out of memory again.
MallocFails(b) ==
    /\ \/ dev[b].pc = "search" /\ reuse
       \/ dev[b].pc = "allocate" /\ dev[b].to_free = {} /\ dev[b].ptr = Null
    /\ dev' = [dev EXCEPT ![b] = Idle]
    /\ UNCHANGED <<reuse, free_list, memory, unused>>
-----------------------------------------------------------------------------
(* halide_cuda_device_free, perhaps on another stream; without one it returns, and the      *)
(* buffer is as it was.                                                                    *)

DeviceFree(b) ==
    /\ dev[b].pc = "live"
    /\ IF reuse
       THEN /\ \E place \in Places : dev' = [dev EXCEPT ![b].pc = "keep", ![b].place = place]
            /\ UNCHANGED memory
       ELSE /\ Freed(dev[b].ptr)
            /\ dev' = [dev EXCEPT ![b] = Idle]
    /\ UNCHANGED <<reuse, free_list, unused>>

Keep(b) ==
    LET item == [ptr |-> dev[b].ptr, size |-> quantize_allocation_size(dev[b].bytes),
                 place |-> dev[b].place]
    IN  /\ dev[b].pc = "keep"
        /\ free_list' = <<item>> \o free_list
        /\ dev' = [dev EXCEPT ![b] = Idle]
        /\ UNCHANGED <<reuse, memory, unused>>
-----------------------------------------------------------------------------
(* halide_reuse_device_allocations *)

Reuse ==
    /\ reuse' = TRUE
    /\ UNCHANGED <<free_list, memory, dev, unused>>

\* The flag first; then what the list has.
ReuseNoLonger ==
    /\ reuse' = FALSE
    /\ UNCHANGED <<free_list, memory, dev, unused>>

ReleaseUnused ==
    /\ ~reuse
    /\ unused' = unused \cup Listed
    /\ free_list' = <<>>
    /\ UNCHANGED <<reuse, memory, dev>>

FreeUnused ==
    /\ \E p \in unused :
           /\ Freed(p)
           /\ unused' = unused \ {p}
    /\ UNCHANGED <<reuse, free_list, dev>>

Step(b) ==
    \/ DeviceMalloc(b) \/ Search(b) \/ FreeOld(b) \/ Allocate(b) \/ OutOfMemory(b)
    \/ MallocFails(b) \/ DeviceFree(b) \/ Keep(b)

Next ==
    \/ \E b \in Buffers : Step(b)
    \/ Reuse \/ ReuseNoLonger \/ ReleaseUnused \/ FreeUnused

Spec == Init /\ [][Next]_vars

\* Programs that allow reuse again only when no buffer has memory from while it was not.
Rounded == \A b \in Buffers : dev[b].size \in {0, quantize_allocation_size(dev[b].bytes)}

RoundedNext ==
    \/ \E b \in Buffers : Step(b)
    \/ Rounded /\ Reuse
    \/ ReuseNoLonger \/ ReleaseUnused \/ FreeUnused

RoundedSpec == Init /\ [][RoundedNext]_vars
-----------------------------------------------------------------------------
(* Properties *)

\* Those who will use, keep or return memory.
Owners(p) ==
    {<<"buffer", b>> : b \in {c \in Buffers : dev[c].ptr = p}}
    \cup {<<"old", b>> : b \in {c \in Buffers : p \in dev[c].to_free}}
    \cup {<<"list", i>> : i \in {j \in DOMAIN free_list : free_list[j].ptr = p}}
    \cup (IF p \in unused THEN {<<"unused", 0>>} ELSE {})

\* Whatever two threads do at once, memory of the driver has one owner, so that it is
\* neither used by two buffers, nor returned twice, nor forgotten.
OneOwner ==
    \A p \in Pointers :
        /\ (memory[p] = 0) = (Owners(p) = {})
        /\ \A o1, o2 \in Owners(p) : o1 = o2

\* It is also as large as the buffer that has it, or as what the list says of it.
PoolExact ==
    /\ OneOwner
    /\ \A b \in Buffers : dev[b].ptr # Null => memory[dev[b].ptr] >= dev[b].bytes
    /\ \A i \in DOMAIN free_list : memory[free_list[i].ptr] >= free_list[i].size
=============================================================================
