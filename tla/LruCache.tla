------------------------------ MODULE LruCache ------------------------------
(* What the memoization cache promises: results in order of their last use, each *)
(* with the number of its buffers that pipelines still hold.  Over the limit the *)
(* oldest result that nobody holds goes first.                                   *)
EXTENDS Integers, SequencesExt

CONSTANTS Keys, Size, Tuple, EvictionKey, Limits

VARIABLES order,    \* the keys of the stored results, the last used first
          use,      \* buffers of a result held by pipelines
          total,    \* bytes accounted to the cache
          limit

vars == <<order, use, total, limit>>

Stored == ToSet(order)

Older(k) == {order[i] : i \in {j \in DOMAIN order : \E h \in 1..(j - 1) : order[h] = k}}

Init ==
    /\ order = <<>>
    /\ use = [k \in Keys |-> 0]
    /\ total = 0
    /\ limit \in Limits

Hit(k) ==
    /\ k \in Stored
    /\ order' = <<k>> \o Remove(order, k)
    /\ use' = [use EXCEPT ![k] = @ + Tuple[k]]
    /\ UNCHANGED <<total, limit>>

\* Room for a result is accounted before others are dropped, and given back if the
\* result cannot be stored after all.
Reserve(k) ==
    /\ k \notin Stored
    /\ total' = total + Size[k]
    /\ UNCHANGED <<order, use, limit>>

Refund(k) ==
    /\ total' = total - Size[k]
    /\ UNCHANGED <<order, use, limit>>

Insert(k) ==
    /\ k \notin Stored
    /\ order' = <<k>> \o order
    /\ use' = [use EXCEPT ![k] = Tuple[k]]
    /\ UNCHANGED <<total, limit>>

Drop(k) ==
    /\ k \in Stored
    /\ total > limit
    /\ use[k] = 0
    /\ \A j \in Older(k) : use[j] > 0
    /\ order' = Remove(order, k)
    /\ total' = total - Size[k]
    /\ UNCHANGED <<use, limit>>

\* The bytes of evicted results stay accounted.
Evict(k) ==
    /\ k \in Stored
    /\ use[k] = 0
    /\ order' = Remove(order, k)
    /\ UNCHANGED <<use, total, limit>>

Release(k) ==
    /\ k \in Stored
    /\ use[k] > 0
    /\ use' = [use EXCEPT ![k] = @ - 1]
    /\ UNCHANGED <<order, total, limit>>

SetLimit(n) ==
    /\ limit' = n
    /\ UNCHANGED <<order, use, total>>

Cleanup ==
    /\ \A k \in Keys : use[k] = 0
    /\ order' = <<>>
    /\ total' = 0
    /\ UNCHANGED <<use, limit>>

Next ==
    \/ \E k \in Keys : \/ Hit(k) \/ Reserve(k) \/ Refund(k) \/ Insert(k)
                       \/ Drop(k) \/ Evict(k) \/ Release(k)
    \/ \E n \in Limits : SetLimit(n)
    \/ Cleanup

Spec == Init /\ [][Next]_vars
=============================================================================
