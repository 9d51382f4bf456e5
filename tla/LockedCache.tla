----------------------------- MODULE LockedCache -----------------------------
(* Locked cache memory of a Hexagon DSP (src/runtime/hexagon_cache_allocator.cpp).       *)
(* hexagon_cache_pool lists what the system has locked, in use or not; memory of exactly *)
(* the size that is wanted is used again.  An allocation reads the head of the list      *)
(* before it takes hexagon_cache_mutex, and has given the mutex back when it locks new   *)
(* memory, which it then appends to the node that was last when it looked.               *)
EXTENDS Integers, FiniteSets

CONSTANTS
    Threads,
    Memories,     \* of the system, each with the node that lists it
    Sizes,
    Null

VARIABLES
    hexagon_cache_pool,      \* the first node
    next, used, bytes,       \* of a node; bytes is 0 when the memory is not locked
    pc, size, temp, prev,    \* of a thread's allocation; temp is what it has got at its end
    met                      \* history: a node was appended during another allocation

vars == <<hexagon_cache_pool, next, used, bytes, pc, size, temp, prev, met>>

Init ==
    /\ hexagon_cache_pool = Null
    /\ next  = [p \in Memories |-> Null]
    /\ used  = [p \in Memories |-> FALSE]
    /\ bytes = [p \in Memories |-> 0]
    /\ pc    = [t \in Threads |-> "none"]
    /\ size  = [t \in Threads |-> 0]
    /\ temp  = [t \in Threads |-> Null]
    /\ prev  = [t \in Threads |-> Null]
    /\ met   = FALSE

\* The nodes from p on, the nearest first.
After(p) ==
    LET walk[n \in 0..Cardinality(Memories)] ==
            IF n = 0 THEN {p} \ {Null}
            ELSE (walk[n - 1] \cup {next[q] : q \in walk[n - 1]}) \ {Null}
    IN  walk[Cardinality(Memories)]

Listed == After(hexagon_cache_pool)

\* The locals of a thread that has no memory.
Ends(t) ==
    /\ pc' = [pc EXCEPT ![t] = "none"]
    /\ size' = [size EXCEPT ![t] = 0]
    /\ temp' = [temp EXCEPT ![t] = Null]
    /\ prev' = [prev EXCEPT ![t] = Null]
-----------------------------------------------------------------------------
(* hexagon_cache_pool_get, without the retry that no caller asks for *)

ReadHead(t) ==
    /\ pc[t] = "none"
    /\ \E n \in Sizes : size' = [size EXCEPT ![t] = n]
    /\ temp' = [temp EXCEPT ![t] = hexagon_cache_pool]
    /\ pc' = [pc EXCEPT ![t] = "walk"]
    /\ UNCHANGED <<hexagon_cache_pool, next, used, bytes, prev, met>>

\* The first that fits, or the end of the list.
Walk(t) ==
    LET fits  == {p \in After(temp[t]) : ~used[p] /\ bytes[p] = size[t]}
        first == {p \in fits : fits \subseteq After(p)}
        last  == {p \in After(temp[t]) : next[p] = Null}
    IN  /\ pc[t] = "walk"
        /\ \/ \E p \in first :
               /\ used' = [used EXCEPT ![p] = TRUE]
               /\ temp' = [temp EXCEPT ![t] = p]
               /\ pc' = [pc EXCEPT ![t] = "live"]
               /\ UNCHANGED prev
           \/ /\ fits = {}
              /\ temp' = [temp EXCEPT ![t] = Null]
              /\ IF last = {} THEN UNCHANGED prev
                 ELSE \E p \in last : prev' = [prev EXCEPT ![t] = p]
              /\ pc' = [pc EXCEPT ![t] = "lock"]
              /\ UNCHANGED used
        /\ UNCHANGED <<hexagon_cache_pool, next, bytes, size, met>>

\* HAP_cache_lock gives memory that is not locked, or none.
Lock(t) ==
    /\ pc[t] = "lock"
    /\ \/ \E p \in Memories :
           /\ bytes[p] = 0
           /\ bytes' = [bytes EXCEPT ![p] = size[t]]
           /\ used'  = [used EXCEPT ![p] = TRUE]
           /\ next'  = [next EXCEPT ![p] = Null]
           /\ temp'  = [temp EXCEPT ![t] = p]
           /\ pc' = [pc EXCEPT ![t] = "append"]
           /\ UNCHANGED <<size, prev>>
       \/ /\ \A p \in Memories : bytes[p] > 0
          /\ Ends(t)
          /\ UNCHANGED <<bytes, used, next>>
    /\ UNCHANGED <<hexagon_cache_pool, met>>

\* Whatever the list has become.
AppendNode(t) ==
    /\ pc[t] = "append"
    /\ IF prev[t] # Null
       THEN next' = [next EXCEPT ![prev[t]] = temp[t]] /\ UNCHANGED hexagon_cache_pool
       ELSE /\ hexagon_cache_pool' = IF hexagon_cache_pool = Null THEN temp[t]
                                     ELSE hexagon_cache_pool
            /\ UNCHANGED next
    /\ pc' = [pc EXCEPT ![t] = "live"]
    /\ prev' = [prev EXCEPT ![t] = Null]
    /\ met' = (met \/ \E u \in Threads \ {t} : pc[u] \in {"walk", "lock", "append"})
    /\ UNCHANGED <<used, bytes, size, temp>>
-----------------------------------------------------------------------------
\* hexagon_cache_pool_put; memory that is not in the list stays marked.
Put(t) ==
    /\ pc[t] = "live"
    /\ used' = [used EXCEPT ![temp[t]] = @ /\ temp[t] \notin Listed]
    /\ Ends(t)
    /\ UNCHANGED <<hexagon_cache_pool, next, bytes, met>>

\* hexagon_cache_pool_free, when the last virtual DMA engine is freed: no pipeline runs.
Free ==
    /\ \A t \in Threads : pc[t] = "none"
    /\ bytes' = [p \in Memories |-> IF p \in Listed THEN 0 ELSE bytes[p]]
    /\ used'  = [p \in Memories |-> p \notin Listed /\ used[p]]
    /\ next'  = [p \in Memories |-> IF p \in Listed THEN Null ELSE next[p]]
    /\ hexagon_cache_pool' = Null
    /\ UNCHANGED <<pc, size, temp, prev, met>>

Step(t) == ReadHead(t) \/ Walk(t) \/ Lock(t) \/ AppendNode(t) \/ Put(t)

Next == Free \/ \E t \in Threads : Step(t)

Spec == Init /\ [][Next]_vars
-----------------------------------------------------------------------------
(* Properties *)

Users(p) == {t \in Threads : pc[t] \in {"append", "live"} /\ temp[t] = p}

\* Memory is used by one thread, is as large as it asked for, and is marked; the list is of
\* locked memory and comes to an end.
LentOnce ==
    /\ \A p \in Memories : Users(p) # {} =>
           /\ used[p] /\ Cardinality(Users(p)) = 1
           /\ \A t \in Users(p) : bytes[p] = size[t]
    /\ \A p \in Listed : bytes[p] > 0 /\ ~(p \in After(next[p]))

\* Memory of the list is marked while it is used, and no longer; memory that is locked is in
\* the list, unless a node was appended between another thread's look at the head and its
\* own append.
LostOnlyTogether ==
    /\ \A p \in Listed : used[p] => Users(p) # {}
    /\ ~met => \A p \in Memories : bytes[p] > 0 =>
           p \in Listed \/ \E t \in Users(p) : pc[t] = "append"
=============================================================================
