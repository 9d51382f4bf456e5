--------------------------- MODULE BlockAllocator ---------------------------
(* src/runtime/internal/block_allocator.h over region_allocator.h: device memory is *)
(* allocated in blocks and the blocks are handed out in regions, which the Vulkan   *)
(* runtime's buffers and their crops share.  The caller holds the context's lock,   *)
(* so a call is a step.  All requests have the same memory properties.              *)
(*                                                                                  *)
(* The driver may refuse to free a region or a block.  What coalesce, split, free and *)
(* destroy change they change all the same, so that this is no outcome of its own:  *)
(* the memory is lost to the driver, and the lists say that it is gone.             *)
EXTENDS Integers, FiniteSetsExt, SequencesExt

CONSTANTS Users,        \* buffers and crops
          Sizes,        \* sizes that are requested
          Multiple,     \* nearest_multiple, which alignment divides
          MinBlock,     \* minimum_block_size
          MaxBlock,     \* maximum_block_size
          MaxCount,     \* maximum_block_count
          MaxUsage      \* bound on usage_count

\* Multiple > 0, MinBlock <= MaxBlock and Multiple divides MaxBlock.

VARIABLES
    blocks,     \* block_list: id, size, dedicated, reserved and the list of its regions
    held        \* user -> the region it was given and the size it asked for, or Nothing

vars == <<blocks, held>>

Nothing == [block |-> 0, offset |-> 0, size |-> 0]

\* conform_size.
Rounded(n) == ((n + Multiple - 1) \div Multiple) * Multiple

\* A region's handle is the size of the memory behind it, 0 without memory.
FreeRegion(offset, size) ==
    [offset |-> offset, size |-> size, status |-> "available", usage |-> 0, handle |-> 0]

Available(r) == r.usage = 0 /\ r.status = "available"

Init ==
    /\ blocks = <<>>
    /\ held = [u \in Users |-> Nothing]
-----------------------------------------------------------------------------
(* RegionAllocator: one block *)

\* collect visits the regions from the first to the last; a region next to an
\* available one becomes part of the region before it, whose memory is freed.
Coalesced(done, r) ==
    IF done # <<>> /\ Available(Last(done)) /\ Available(r)
    THEN Append(Front(done), [Last(done) EXCEPT !.size = @ + r.size, !.handle = 0])
    ELSE Append(done, r)

Collected(b) == [b EXCEPT !.regions = FoldLeft(Coalesced, <<>>, @)]

\* find_block_region takes the first of these.
Suitable(b, n) ==
    {i \in DOMAIN b.regions :
        /\ Available(b.regions[i])
        /\ Rounded(n) <= b.regions[i].size
        /\ Rounded(n) + b.reserved <= b.size}

\* split_block_region cuts a larger region in two, and what the region had cached is
\* freed; its remainder is rounded like a request.
Split(b, i, n) ==
    LET r == b.regions[i]
        rest == Rounded(r.size - Rounded(n))
    IN  IF r.size <= Rounded(n) THEN b
        ELSE [b EXCEPT !.regions =
                 SubSeq(@, 1, i - 1)
                   \o <<[r EXCEPT !.size = @ - rest, !.handle = 0],
                        FreeRegion(r.offset + Rounded(n), rest)>>
                   \o SubSeq(@, i + 1, Len(@))]

\* alloc_block_region, which uses cached memory again.
Allocated(b, i) ==
    [b EXCEPT !.regions[i].status = IF b.dedicated THEN "dedicated" ELSE "in_use",
              !.regions[i].handle = IF @ = 0 THEN b.regions[i].size ELSE @,
              !.reserved = @ + b.regions[i].size]

LowerUsage(b, i) == [b EXCEPT !.regions[i].usage = IF @ > 0 THEN @ - 1 ELSE 0]

\* Mutant: the region goes although others retain it.
Unshared(r) == TRUE

Unused(r) == r.usage = 0

\* release_block_region keeps the memory for the next request.
Released(b, i) ==
    LET r == b.regions[i] IN
    IF ~Unused(r) THEN b
    ELSE [b EXCEPT !.reserved = @ - IF r.status # "available" THEN r.size ELSE 0,
                   !.regions[i].status = "available"]

\* free_block_region.
Freed(b, i) ==
    [b EXCEPT !.regions[i].handle = IF b.regions[i].usage = 0 THEN 0 ELSE @,
              !.regions[i].usage = 0,
              !.regions[i].status = "available"]
-----------------------------------------------------------------------------
(* BlockAllocator *)

BlockSize(n) == Min({MaxBlock, Max({MinBlock, Rounded(n)})})

\* create_block_entry, where the pool's limits allow it.
MayCreate(bs) == Len(bs) < MaxCount

WithBlock(bs, n, d) ==
    Append(bs, [id |-> Min(1..MaxCount \ {bs[k].id : k \in DOMAIN bs}), size |-> BlockSize(n),
                dedicated |-> d, reserved |-> 0, regions |-> <<FreeRegion(0, BlockSize(n))>>])

\* find_block_entry takes the last of these; it compares the size before rounding.
Roomy(n, d) ==
    {k \in DOMAIN blocks :
        /\ (d \/ blocks[k].dedicated) => blocks[k].reserved = 0
        /\ n <= blocks[k].size - blocks[k].reserved}

\* reserve_memory_region: a block without a suitable region is collected.
Tidied(bs, k, n) ==
    [bs EXCEPT ![k] = IF Suitable(@, n) = {} THEN Collected(@) ELSE @]

\* The region is taken; its allocation may fail, and then the caller is given a
\* region without memory, which it does not use.
Serve(u, bs, k, n) ==
    LET i == Min(Suitable(bs[k], n))
        b == Split(bs[k], i, n)
    IN  \/ /\ blocks' = [bs EXCEPT ![k] = Allocated(b, i)]
           /\ held' = [held EXCEPT ![u] = [block |-> b.id, offset |-> b.regions[i].offset,
                                           size |-> n]]
        \/ /\ b.regions[i].handle = 0
           /\ blocks' = [bs EXCEPT ![k] = b]
           /\ UNCHANGED held

ServeFromNew(u, bs, n) ==
    \/ Suitable(Last(bs), n) # {} /\ Serve(u, bs, Len(bs), n)
    \/ Suitable(Last(bs), n) = {} /\ blocks' = bs /\ UNCHANGED held

\* reserve's second attempt, in a block made for it; no block may be had.
TryAgain(u, bs, n, d) ==
    \/ MayCreate(bs) /\ ServeFromNew(u, WithBlock(bs, n, d), n)
    \/ blocks' = bs /\ UNCHANGED held

Reserve(u, n, d) ==
    /\ held[u] = Nothing
    /\ LET found == Roomy(n, d) # {}
           k     == IF found THEN Max(Roomy(n, d)) ELSE Len(blocks) + 1
           bs    == Tidied(IF found THEN blocks ELSE WithBlock(blocks, n, d), k, n)
       IN  /\ found \/ MayCreate(blocks)
           /\ \/ Suitable(bs[k], n) # {} /\ Serve(u, bs, k, n)
              \/ Suitable(bs[k], n) = {} /\ TryAgain(u, bs, n, d)

\* The region of u is the i-th of block k.
Holds(u, k, i) ==
    blocks[k].id = held[u].block /\ blocks[k].regions[i].offset = held[u].offset

OnRegion(u, Op(_, _)) ==
    \E k \in DOMAIN blocks : \E i \in DOMAIN blocks[k].regions :
        Holds(u, k, i) /\ blocks' = [blocks EXCEPT ![k] = Op(@, i)]

\* A buffer's owner, with halide_reuse_device_allocations, and a crop that ends: either
\* lowers the count, although the owner is not counted.
Release(u) ==
    /\ OnRegion(u, LAMBDA b, i : Released(LowerUsage(b, i), i))
    /\ held' = [held EXCEPT ![u] = Nothing]

\* A buffer's owner, without.
Reclaim(u) ==
    /\ OnRegion(u, LAMBDA b, i : Freed(Released(LowerUsage(b, i), i), i))
    /\ held' = [held EXCEPT ![u] = Nothing]

\* v is a crop of u's region, or u itself.
Retain(u, v) ==
    /\ v = u \/ held[v] = Nothing
    /\ OnRegion(u, LAMBDA b, i : [b EXCEPT !.regions[i].usage = @ + 1])
    /\ \A k \in DOMAIN blocks : \A i \in DOMAIN blocks[k].regions :
        Holds(u, k, i) => blocks[k].regions[i].usage < MaxUsage
    /\ held' = [held EXCEPT ![v] = held[u]]

Reserved(b) == b.reserved # 0

\* A block that nothing is reserved in is given back.
Collect ==
    /\ blocks' = SelectSeq([k \in DOMAIN blocks |-> Collected(blocks[k])], Reserved)
    /\ UNCHANGED held

\* The context goes, after its buffers.
Destroy ==
    /\ blocks # <<>>
    /\ \A u \in Users : held[u] = Nothing
    /\ blocks' = <<>>
    /\ UNCHANGED held

Next ==
    \/ \E u \in Users :
        \/ \E n \in Sizes, d \in BOOLEAN : Reserve(u, n, d)
        \/ Release(u)
        \/ Reclaim(u)
        \/ \E v \in Users : Retain(u, v)
    \/ Collect
    \/ Destroy

Spec == Init /\ [][Next]_vars
-----------------------------------------------------------------------------
Clients(u) == {v \in Users : held[v] = held[u]}

\* What a client was given is its own until it gives it up: the region is still there,
\* is not available to others, and has memory of the size that was asked for.
HeldIntact ==
    \A u \in Users : held[u] # Nothing =>
        \E k \in DOMAIN blocks : \E i \in DOMAIN blocks[k].regions :
            /\ Holds(u, k, i)
            /\ blocks[k].regions[i].status # "available"
            /\ held[u].size <= blocks[k].regions[i].handle
            /\ blocks[k].regions[i].handle = blocks[k].regions[i].size

\* After any splits and merges the regions of a block lie side by side and fill it,
\* memory that is cached is as large as its region, and reserved is what is in use.
BlocksAccounted ==
    \A k \in DOMAIN blocks :
        LET b == blocks[k]
            Size(i) == b.regions[i].size
        IN  /\ \A i \in DOMAIN b.regions :
                /\ b.regions[i].offset = MapThenSumSet(Size, 1..(i - 1))
                /\ Size(i) > 0 /\ b.regions[i].handle \in {0, Size(i)}
            /\ b.size = MapThenSumSet(Size, DOMAIN b.regions)
            /\ b.reserved = MapThenSumSet(Size, {i \in DOMAIN b.regions :
                                                    b.regions[i].status # "available"})
=============================================================================
